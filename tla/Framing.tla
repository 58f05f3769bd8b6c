--------------------------------- MODULE Framing ---------------------------------
(***************************************************************************)
(* Packets on a byte stream (js/kiss.js, js/hdlc.js, js/nus-demux.js and    *)
(* readAck of js/dfu.js). A frame stands between two flags, and a flag or   *)
(* an escape within it is escaped. The KISS and HDLC parsers take every     *)
(* flag for the end of one frame and the beginning of the next; those for   *)
(* the ALN node and the bootloader take flags in pairs. Bytes are told      *)
(* apart only as far as the parsers do: what an escape is followed by for   *)
(* a flag is "eflag", for an escape "eesc"; "cmd" is the KISS command byte, *)
(* and "junk" whatever comes of escaping anything else.                     *)
(***************************************************************************)
EXTENDS Naturals, Sequences, SequencesExt

CONSTANTS
  MaxBytes,   \* bound: bytes of a packet
  MaxPackets  \* bound: packets on the stream

ASSUME FramingAssumption == MaxBytes \in Nat /\ MaxPackets \in Nat

VARIABLES
  framing,  \* which of the four the stream uses
  packets,  \* what was sent
  wire,     \* bytes that have not arrived
  parser,   \* the parser's fields
  received, \* what it handed over
  dropped   \* a byte was lost

framingVars == <<framing, packets, wire, parser, received, dropped>>

Framings == {"kiss", "hdlc", "nus", "slip"}
Bytes == {"flag", "esc", "eflag", "data"}

(* The bytes of a stream.                                                   *)
Octets == Bytes \cup {"eesc", "cmd", "junk"}

(* buildFrame, encodeFrame, slipEscape.                                     *)
Escape(b) ==
  CASE b = "flag" -> <<"esc", "eflag">>
    [] b = "esc" -> <<"esc", "eesc">>
    [] OTHER -> <<b>>

Frame(f, packet) ==
  <<"flag">> \o (IF f = "kiss" THEN <<"cmd">> ELSE <<>>)
    \o FlattenSeq([i \in DOMAIN packet |-> Escape(packet[i])]) \o <<"flag">>

(* KISS leaves an unknown escape as it is, HDLC flips its bit, SLIP refuses *)
(* the frame: told apart here as "junk", which no packet holds.             *)
Unescape(f, b) ==
  CASE b = "eflag" -> "flag"
    [] b = "eesc" -> "esc"
    [] OTHER -> IF f = "kiss" THEN b ELSE "junk"

Idle == [in |-> FALSE, escape |-> FALSE, buf |-> <<>>]

(* A stream on which nothing is sent.                                       *)
NothingSent ==
  /\ framing = "hdlc" /\ packets = <<>> /\ wire = <<>>
  /\ parser = Idle /\ received = <<>> /\ dropped = FALSE

FramingInit ==
  /\ framing \in Framings
  /\ packets \in SeqOf(SeqOf(Bytes, MaxBytes) \ {<<>>}, MaxPackets)
  /\ wire = FlattenSeq([i \in DOMAIN packets |-> Frame(framing, packets[i])])
  /\ parser = Idle /\ received = <<>> /\ dropped = FALSE

-----------------------------------------------------------------------------
Payload(buf) == IF framing = "kiss" THEN Tail(buf) ELSE buf

(* feed, at a flag.                                                         *)
HandedOver ==
  IF parser.in /\ parser.buf # <<>> THEN Append(received, Payload(parser.buf)) ELSE received

OpenedStale(inside) == [in |-> inside, escape |-> parser.escape, buf |-> <<>>]

Opened(inside) == [in |-> inside, escape |-> FALSE, buf |-> <<>>]

FlagArrives ==
  /\ received' = HandedOver
  /\ parser' = Opened(framing \in {"kiss", "hdlc"} \/ ~parser.in)

(* feed, at any other byte; outside a frame it is skipped, or console text. *)
ByteTaken(b) ==
  IF ~parser.in THEN parser
  ELSE IF parser.escape
    THEN [parser EXCEPT !.escape = FALSE, !.buf = Append(@, Unescape(framing, b))]
  ELSE IF b = "esc" THEN [parser EXCEPT !.escape = TRUE]
  ELSE [parser EXCEPT !.buf = Append(@, b)]

ByteArrives ==
  /\ wire # <<>> /\ wire' = Tail(wire)
  /\ IF Head(wire) = "flag"
       THEN FlagArrives
       ELSE parser' = ByteTaken(Head(wire)) /\ UNCHANGED received
  /\ UNCHANGED <<framing, packets, dropped>>

(* A notification is missed, or the line is noisy.                          *)
ByteDropped ==
  /\ wire # <<>> /\ wire' = Tail(wire)
  /\ ~dropped /\ dropped' = TRUE
  /\ UNCHANGED <<framing, packets, parser, received>>

FramingNext == ByteArrives \/ ByteDropped

FramingSpec == FramingInit /\ [][FramingNext]_framingVars

-----------------------------------------------------------------------------
(* Properties.                                                              *)

(* Packets are not empty; and the parser waits for the second byte of an    *)
(* escape only within a frame.                                              *)
FramingTypeOK ==
  /\ framing \in Framings /\ dropped \in BOOLEAN
  /\ packets \in Seq(Seq(Bytes) \ {<<>>}) /\ wire \in Seq(Octets)
  /\ received \in Seq(Seq(Octets))
  /\ parser \in [in : BOOLEAN, escape : BOOLEAN, buf : Seq(Octets)]
  /\ parser.escape => parser.in

(* Nothing is lost or changed between packets and parser however the stream *)
(* is cut; and where every flag begins a frame, a missing byte spoils the   *)
(* packet it was in and none behind it: the parser is in step again at the  *)
(* next flag. (Where flags come in pairs, a missing one leaves the parser   *)
(* out of step until another is missing.)                                   *)
OneLossSpoilsOne ==
  wire = <<>> =>
    \/ received = packets
    \/ /\ dropped /\ framing \in {"kiss", "hdlc"}
       /\ \E i \in DOMAIN packets :
            LET before == SubSeq(packets, 1, i - 1)
                after == SubSeq(packets, i + 1, Len(packets))
            IN \/ received = before \o after
               \/ /\ Len(received) = Len(packets)
                  /\ before \o <<received[i]>> \o after = received
    \/ dropped /\ framing \in {"nus", "slip"}
=============================================================================
