------------------------------- MODULE Transports --------------------------------
(***************************************************************************)
(* One transport and the frames written to it (js/ble-transport.js,         *)
(* js/serial-transport.js, js/websocket-transport.js and, over the last,    *)
(* js/rnsd-interface.js; buildFrame of js/kiss.js). Nothing queues writes:  *)
(* the chunks of two over BLE can mix, or the browser refuses one while the *)
(* other is under way. What goes out is kept as the device gets it.         *)
(***************************************************************************)
EXTENDS Naturals, Sequences, FiniteSets

CONSTANTS
  Writes,     \* calls of write, at most; each is of one frame
  ChunkBytes  \* what one BLE write holds, in bytes of the model's frames

ASSUME TransportsAssumption == ChunkBytes \in Nat \ {0}

VARIABLES
  medium,  \* which transport it is
  attempt, \* where connect is
  linked,  \* the connection exists
  handle,  \* txChar, writer or ws is there to write to
  owed,    \* the browser has yet to tell that the connection has ended
  told,    \* calls of _onDisconnect
  writing, \* each write: how many of its bytes went out, and how it is doing
  mixed,   \* writes during which another one was under way
  device   \* the bytes the other side has received

transportVars == <<medium, attempt, linked, handle, owed, told, writing, mixed, device>>

TransportInit ==
  /\ medium \in {"ble", "serial", "websocket"}
  /\ attempt = "no" /\ linked = FALSE /\ handle = FALSE
  /\ owed = FALSE /\ told = 0
  /\ writing = [w \in Writes |-> [at |-> "no", out |-> 0]]
  /\ mixed = {} /\ device = <<>>

linkVars == <<medium, attempt, linked, handle, owed, told>>
writeVars == <<writing, mixed, device>>

-----------------------------------------------------------------------------
(* connect.                                                                 *)

Opens ==
  /\ attempt = "no" /\ attempt' = "opening"
  /\ \/ linked' = FALSE
     \/ medium = "ble" /\ linked' = TRUE  \* gatt.connect() resolved, services to come
  /\ handle' = (medium = "websocket")
  /\ UNCHANGED <<medium, owed, told, writeVars>>

IsOpen ==
  /\ attempt = "opening" /\ ~owed /\ told = 0
  /\ attempt' = "open" /\ linked' = TRUE /\ handle' = TRUE
  /\ UNCHANGED <<medium, owed, told, writeVars>>

(* A failed connect leaves what it had: a GATT connection, or a WebSocket   *)
(* whose end is told although it never opened.                              *)
OpenFails ==
  /\ attempt = "opening" /\ attempt' = "failed"
  /\ owed' = (owed \/ medium = "websocket")
  /\ UNCHANGED <<medium, linked, handle, told, writeVars>>

-----------------------------------------------------------------------------
(* The end.                                                                 *)

GoesAway ==
  /\ linked /\ linked' = FALSE /\ owed' = TRUE
  /\ UNCHANGED <<medium, attempt, handle, told, writeVars>>

(* gattserverdisconnected, the end of the serial read loop, close. After a  *)
(* port is lost the writer stays.                                           *)
EndIsTold ==
  /\ owed /\ owed' = FALSE
  /\ told' = told + 1
  /\ handle' = (handle /\ medium = "serial")
  /\ UNCHANGED <<medium, attempt, linked, writeVars>>

(* disconnect. A WebSocket that is not open is dropped, not closed.         *)
Disconnects ==
  /\ attempt = "open" /\ handle
  /\ handle' = FALSE
  /\ linked' = FALSE /\ owed' = (owed \/ linked)
  /\ UNCHANGED <<medium, attempt, told, writeVars>>

-----------------------------------------------------------------------------
(* write. A frame is two bytes of payload between FENDs.                    *)

FEND == "FEND"

BuildFrameBare(w) == <<w, w, FEND>>

BuildFrame(w) == <<FEND, w, w, FEND>>

Under(w) == writing[w].at = "under way"

Others(w) == {v \in Writes \ {w} : Under(v)}

WriteEnds(w, how) == writing' = [writing EXCEPT ![w].at = how]

(* Without a handle it throws. Serial and WebSocket take the whole frame.   *)
WriteStarts(w) ==
  /\ writing[w].at = "no" /\ attempt # "no"
  /\ IF ~handle
       THEN WriteEnds(w, "failed") /\ UNCHANGED <<mixed, device>>
       ELSE IF medium = "ble"
         THEN /\ WriteEnds(w, "under way")
              /\ mixed' = mixed \cup Others(w) \cup (IF Others(w) = {} THEN {} ELSE {w})
              /\ UNCHANGED device
         ELSE /\ IF linked THEN WriteEnds(w, "done") /\ device' = device \o BuildFrame(w)
                           ELSE WriteEnds(w, "failed") /\ UNCHANGED device
              /\ UNCHANGED mixed
  /\ UNCHANGED linkVars

Chunk(w) ==
  LET from == writing[w].out IN
  IF from + ChunkBytes < Len(BuildFrame(w)) THEN from + ChunkBytes ELSE Len(BuildFrame(w))

ChunkWritten(w) ==
  /\ Under(w) /\ handle /\ linked
  /\ device' = device \o SubSeq(BuildFrame(w), writing[w].out + 1, Chunk(w))
  /\ writing' = [writing EXCEPT ![w] =
       [at |-> IF Chunk(w) = Len(BuildFrame(w)) THEN "done" ELSE "under way", out |-> Chunk(w)]]
  /\ UNCHANGED <<linkVars, mixed>>

(* The connection or the handle is gone, or the browser refuses.            *)
ChunkFails(w) ==
  /\ Under(w) /\ WriteEnds(w, "failed")
  /\ UNCHANGED <<linkVars, mixed, device>>

TransportNext ==
  \/ Opens \/ IsOpen \/ OpenFails \/ GoesAway \/ EndIsTold \/ Disconnects
  \/ \E w \in Writes : WriteStarts(w) \/ ChunkWritten(w) \/ ChunkFails(w)

TransportSpec == TransportInit /\ [][TransportNext]_transportVars

-----------------------------------------------------------------------------
(* Properties.                                                              *)

(* Well typed; an end is told once, and never of a connection that is up.   *)
TransportTypeOK ==
  /\ medium \in {"ble", "serial", "websocket"}
  /\ attempt \in {"no", "opening", "open", "failed"}
  /\ {linked, handle, owed} \subseteq BOOLEAN
  /\ told \in 0..1 /\ (owed \/ told = 1 => ~linked)
  /\ writing \in [Writes -> [at : {"no", "under way", "done", "failed"}, out : Nat]]
  /\ mixed \subseteq Writes

(* What a deframer that starts anew at each FEND makes of the bytes.        *)
FrameReceived(w) ==
  \E i, j \in DOMAIN device :
     /\ i < j /\ device[i] = FEND /\ device[j] = FEND
     /\ SubSeq(device, i + 1, j - 1) = <<w, w>>

(* A frame written while no other write is under way arrives, also after    *)
(* another was cut off in the middle by an error. (Frames written over BLE  *)
(* at the same time may mix: nothing in the transport or above it keeps     *)
(* them apart.)                                                             *)
AloneArrives ==
  \A w \in Writes : writing[w].at = "done" /\ w \notin mixed => FrameReceived(w)
=============================================================================
