----------------------------------- MODULE Dfu -----------------------------------
(***************************************************************************)
(* Flashing a repeater over the serial line (js/dfu.js, dfuFlash and        *)
(* DfuTransport; js/transport-flasher-app.js, flashDfu). Each packet is     *)
(* written and its acknowledgement awaited; nothing is sent again, and a    *)
(* timeout ends the attempt, except after the last packet, where silence is *)
(* taken for success. The number in an acknowledgement is read and not      *)
(* compared. A packet may be damaged on the line, an acknowledgement lost   *)
(* or late, later even than the next attempt begins.                        *)
(***************************************************************************)
EXTENDS Naturals, Sequences, SequencesExt

CONSTANTS
  Chunks,      \* DFU_PACKET_MAX_SIZE pieces of the firmware
  MaxAttempts  \* bound: clicks on Flash

ASSUME DfuAssumption == Chunks \in Nat /\ MaxAttempts \in Nat

VARIABLES
  attempt,    \* counter: the attempt that runs, or ran last
  stage,      \* where dfuFlash is: the next packet, by its position
  awaiting,   \* a packet is out and readAck runs
  toDevice,   \* packets on the line: their attempt and position
  acks,       \* acknowledgements on the line, or in rxBuffer: their attempt
  written,    \* the bootloader: positions it wrote, in order; none before START
  outcome,    \* what flashDfu reported
  foreign     \* history: this attempt took an acknowledgement of an earlier one

dfuVars == <<attempt, stage, awaiting, toDevice, acks, written, outcome, foreign>>

(* START, init packet, the chunks, STOP.                                    *)
Start == 1
Stop == Chunks + 3

DfuInit ==
  /\ attempt = 0 /\ stage = 0 /\ awaiting = FALSE
  /\ toDevice = <<>> /\ acks = <<>>
  /\ written = <<>> /\ outcome = "none" /\ foreign = FALSE

deviceVars == <<toDevice, acks, written>>

(* flashDfu: the button is disabled until an attempt has ended; port.open   *)
(* and DfuTransport begin with empty buffers.                               *)
FlashBegins ==
  /\ attempt < MaxAttempts /\ stage = 0
  /\ attempt' = attempt + 1 /\ stage' = Start
  /\ acks' = <<>> /\ outcome' = "none" /\ foreign' = FALSE
  /\ UNCHANGED <<awaiting, toDevice, written>>

(* sendHciPacket: numbered, framed and written.                             *)
PacketSent ==
  /\ stage # 0 /\ ~awaiting
  /\ toDevice' = Append(toDevice, [by |-> attempt, pos |-> stage])
  /\ awaiting' = TRUE
  /\ UNCHANGED <<attempt, stage, acks, written, outcome, foreign>>

(* flashDfu says how the attempt ended and enables the button again.        *)
Reported(result) == outcome' = result /\ stage' = 0

(* The attempt ends, and the port is closed.                                *)
FlashEnds(result) ==
  /\ Reported(result)
  /\ awaiting' = FALSE /\ acks' = <<>>

(* readAck has a frame: on to the next packet.                              *)
AckRead ==
  /\ awaiting /\ acks # <<>>
  /\ foreign' = (foreign \/ Head(acks) # attempt)
  /\ IF stage = Stop
       THEN FlashEnds("done")
       ELSE /\ stage' = stage + 1 /\ awaiting' = FALSE
            /\ acks' = Tail(acks)
            /\ UNCHANGED outcome
  /\ UNCHANGED <<attempt, toDevice, written>>

TimeoutTolerated == TRUE

TimeoutIsSuccess == stage = Stop

AckTimesOut ==
  /\ awaiting
  /\ IF TimeoutIsSuccess
       THEN IF stage = Stop
              THEN FlashEnds("done")
              ELSE stage' = stage + 1 /\ awaiting' = FALSE /\ UNCHANGED <<acks, outcome>>
       ELSE FlashEnds("failed")
  /\ UNCHANGED <<attempt, toDevice, written, foreign>>

(* The port is lost, or a frame cannot be unescaped: behind the last packet *)
(* that counts as success too.                                              *)
FlashFails ==
  /\ stage # 0
  /\ FlashEnds(IF stage = Stop THEN "done" ELSE "failed")
  /\ UNCHANGED <<attempt, toDevice, written, foreign>>

-----------------------------------------------------------------------------
(* The bootloader. START erases; a packet out of turn is not written.       *)

Acknowledged(by) ==
  \/ UNCHANGED acks
  \/ stage # 0 /\ acks' = Append(acks, by)

DeviceReads ==
  /\ toDevice # <<>>
  /\ toDevice' = Tail(toDevice)
  /\ LET p == Head(toDevice)
     IN /\ IF p.pos = Start THEN written' = <<Start>>
           ELSE IF written # <<>> /\ p.pos = Last(written) + 1
           THEN written' = Append(written, p.pos)
           ELSE UNCHANGED written
        /\ Acknowledged(p.by)
  /\ UNCHANGED <<attempt, stage, awaiting, outcome, foreign>>

PacketDamaged ==
  /\ toDevice # <<>>
  /\ toDevice' = Tail(toDevice)
  /\ UNCHANGED <<attempt, stage, awaiting, acks, written, outcome, foreign>>

DfuNext ==
  \/ FlashBegins \/ PacketSent \/ AckRead \/ AckTimesOut \/ FlashFails
  \/ DeviceReads \/ PacketDamaged

DfuSpec == DfuInit /\ [][DfuNext]_dfuVars

-----------------------------------------------------------------------------
(* Properties.                                                              *)

DfuTypeOK ==
  /\ attempt \in 0..MaxAttempts /\ stage \in 0..Stop
  /\ awaiting \in BOOLEAN /\ foreign \in BOOLEAN
  /\ toDevice \in Seq([by : 1..MaxAttempts, pos : Start..Stop])
  /\ acks \in Seq(1..MaxAttempts)
  /\ written \in Seq(Start..Stop)
  /\ outcome \in {"none", "done", "failed"}

(* "flash complete" is true: the bootloader wrote the init packet and every *)
(* chunk, though a last packet without an answer counts as success          *)
(* (sendStopDataPacket). It rests on the packets being acknowledged one by  *)
(* one: an acknowledgement left over from an earlier attempt puts the page  *)
(* one packet ahead, and since readAck's number is not compared a missing   *)
(* last chunk then passes for written.                                      *)
FlashIsWhole ==
  outcome = "done" /\ ~foreign => \A pos \in 1..(Stop - 1) : pos \in {written[i] : i \in DOMAIN written}
=============================================================================
