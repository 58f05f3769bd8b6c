---------------------------------- MODULE Wipe ----------------------------------
(***************************************************************************)
(* The panic wipe (js/app.js, runDestruct; js/store.js, openDatabase,       *)
(* deleteDatabase; js/rnode.js, disconnect). The timers are cleared and the *)
(* transport is closed before the database is deleted, "so an arriving      *)
(* message can't re-open and re-seed the database mid-wipe"; handlers that  *)
(* were at work by then go on, and a store operation opens the database     *)
(* again when it finds it closed. A connect() under way is not stopped, nor *)
(* the poll that starts one when a bridge answers.                          *)
(***************************************************************************)
EXTENDS Naturals

CONSTANT Workers   \* handlers: packets, announces by the timer, retries

VARIABLES
  delivering, \* the transport hands packets to onPacket
  radioOn,    \* the flag of the same name
  connecting, \* a connect() is waiting for its transport to open
  ticking,    \* the timers armed: those that send, those that sync
  wipe,       \* where runDestruct is
  handle,     \* db: the database is open
  deleting,   \* a deleteDatabase request is pending
  disk,       \* the handlers whose rows are stored
  worker,     \* each handler
  late,       \* history: handlers begun since the deletion was asked for
  unclosed    \* history: the wipe left a transport open, or one opened since

wipeVars == <<delivering, radioOn, connecting, ticking, wipe, handle, deleting, disk, worker,
              late, unclosed>>

AllTimers == {"send", "sync"}

(* The radio may have been stopped with the transport still connected, or   *)
(* not have come on yet.                                                    *)
WipeInit ==
  /\ delivering \in BOOLEAN /\ connecting \in BOOLEAN
  /\ radioOn \in BOOLEAN /\ (radioOn => delivering)
  /\ ticking \in {{}, AllTimers} /\ (radioOn => ticking # {})
  /\ wipe = "no" /\ handle = TRUE /\ deleting = FALSE
  /\ disk = {} /\ worker = [w \in Workers |-> "no"]
  /\ late = {} /\ unclosed = FALSE

diskVars == <<handle, deleting, disk>>
workVars == <<worker, late>>
linkVars == <<delivering, radioOn, connecting, ticking>>

-----------------------------------------------------------------------------
(* The transport. connect() may be called at any time, by the user or by    *)
(* attemptBridgeReconnect, also over a transport that is open.              *)

ConnectBegins ==
  /\ wipe # "over" /\ connecting' = TRUE
  /\ UNCHANGED <<delivering, radioOn, ticking, wipe, diskVars, workVars, unclosed>>

ConnectOpens ==
  /\ wipe # "over" /\ connecting
  /\ connecting' = FALSE /\ delivering' = TRUE
  /\ unclosed' = (unclosed \/ wipe # "no")
  /\ UNCHANGED <<radioOn, ticking, wipe, diskVars, workVars>>

ConnectFails ==
  /\ wipe # "over" /\ connecting
  /\ connecting' = FALSE
  /\ UNCHANGED <<delivering, radioOn, ticking, wipe, diskVars, workVars, unclosed>>

(* markInterfaceReady.                                                      *)
InterfaceReady ==
  /\ wipe # "over" /\ delivering
  /\ radioOn' = TRUE /\ ticking' = AllTimers
  /\ UNCHANGED <<delivering, connecting, wipe, diskVars, workVars, unclosed>>

(* _onDisconnect, also of a transport that another has followed.            *)
TransportLost ==
  /\ wipe # "over"
  /\ delivering' \in {FALSE, delivering}
  /\ radioOn' = FALSE /\ ticking' = {}
  /\ UNCHANGED <<connecting, wipe, diskVars, workVars, unclosed>>

-----------------------------------------------------------------------------
(* runDestruct.                                                             *)

ClosingForgotten == "closed"

(* The timers that send are cleared; with the radio on the disconnect is    *)
(* awaited, and without it there is none.                                   *)
Closing == IF radioOn THEN "closing" ELSE "closed"

Silence ==
  /\ wipe = "no"
  /\ ticking' = ticking \ {"send"}
  /\ wipe' = Closing
  /\ unclosed' = (delivering /\ ~radioOn)
  /\ UNCHANGED <<delivering, radioOn, connecting, diskVars, workVars>>

(* rnode.disconnect, whose failure is swallowed. The rnode may be the one   *)
(* of the connect() under way, which the WebSocket transport drops unclosed.*)
Disconnected ==
  /\ wipe = "closing"
  /\ delivering' \in {FALSE, delivering}
  /\ unclosed' = (unclosed \/ delivering')
  /\ wipe' = "closed"
  /\ UNCHANGED <<radioOn, connecting, ticking, diskVars, workVars>>

(* deleteDatabase closes the handle and asks.                               *)
DeleteAsked ==
  /\ wipe = "closed"
  /\ radioOn' = FALSE
  /\ handle' = FALSE /\ deleting' = TRUE
  /\ wipe' = "deleting"
  /\ UNCHANGED <<delivering, connecting, ticking, disk, workVars, unclosed>>

Deleted ==
  /\ deleting
  /\ deleting' = FALSE /\ disk' = {}
  /\ UNCHANGED <<linkVars, wipe, handle, workVars, unclosed>>

(* The wipe goes on once the deletion is done, and also when it has failed, *)
(* or is blocked by another tab and will be done later.                     *)
WipeGoesOn ==
  /\ wipe = "deleting"
  /\ wipe' = "flames"
  /\ UNCHANGED <<linkVars, diskVars, workVars, unclosed>>

(* The page reloads into what the disk holds.                               *)
WipeReloads ==
  /\ wipe = "flames"
  /\ wipe' = "over"
  /\ delivering' = FALSE /\ connecting' = FALSE
  /\ worker' = [w \in Workers |-> "gone"]
  /\ UNCHANGED <<radioOn, ticking, diskVars, late, unclosed>>

-----------------------------------------------------------------------------
(* The handlers, and the store.                                             *)

(* A packet comes in, or a timer fires: its handler goes on if the radio is *)
(* on.                                                                      *)
HandlerBegins(w) ==
  /\ wipe # "over" /\ (delivering \/ (ticking # {} /\ radioOn))
  /\ worker[w] = "no"
  /\ worker' = [worker EXCEPT ![w] = "works"]
  /\ late' = IF wipe \in {"deleting", "flames"} THEN late \cup {w} ELSE late
  /\ UNCHANGED <<linkVars, wipe, diskVars, unclosed>>

(* With the database open the row is put; otherwise it is opened first.     *)
RowPut(w) ==
  /\ worker[w] = "works"
  /\ \/ /\ handle
        /\ disk' = disk \cup {w} /\ worker' = [worker EXCEPT ![w] = "gone"]
     \/ /\ ~handle
        /\ worker' = [worker EXCEPT ![w] = "opening"] /\ UNCHANGED disk
  /\ UNCHANGED <<linkVars, wipe, handle, deleting, late, unclosed>>

(* A pending deletion comes first.                                          *)
Reopened(w) ==
  /\ worker[w] = "opening" /\ ~deleting
  /\ handle' = TRUE
  /\ disk' = disk \cup {w} /\ worker' = [worker EXCEPT ![w] = "gone"]
  /\ UNCHANGED <<linkVars, wipe, deleting, late, unclosed>>

(* It finds nothing to store, or fails.                                     *)
HandlerEnds(w) ==
  /\ worker[w] \in {"works", "opening"}
  /\ worker' = [worker EXCEPT ![w] = "gone"]
  /\ UNCHANGED <<linkVars, wipe, diskVars, late, unclosed>>

WipeNext ==
  \/ ConnectBegins \/ ConnectOpens \/ ConnectFails \/ InterfaceReady \/ TransportLost
  \/ Silence \/ Disconnected \/ DeleteAsked \/ Deleted \/ WipeGoesOn \/ WipeReloads
  \/ \E w \in Workers : HandlerBegins(w) \/ RowPut(w) \/ Reopened(w) \/ HandlerEnds(w)

WipeSpec == WipeInit /\ [][WipeNext]_wipeVars

-----------------------------------------------------------------------------
(* Properties.                                                              *)

WipeTypeOK ==
  /\ delivering \in BOOLEAN /\ radioOn \in BOOLEAN /\ connecting \in BOOLEAN
  /\ ticking \subseteq AllTimers
  /\ wipe \in {"no", "closing", "closed", "deleting", "flames", "over"}
  /\ handle \in BOOLEAN /\ deleting \in BOOLEAN /\ unclosed \in BOOLEAN
  /\ disk \subseteq Workers /\ late \subseteq Workers
  /\ worker \in [Workers -> {"no", "works", "opening", "gone"}]

(* What is on disk after a wipe that closed the transport, when none opened *)
(* since it began, was stored by handlers that were at work before the      *)
(* database was deleted: no packet and no timer seeds it again, although    *)
(* handlers still open it. It does not close a transport whose radio is     *)
(* off, nor one that a connect() is about to open, and their packets do     *)
(* seed it, whatever its comment says.                                      *)
ResidueWasInFlight == wipe = "over" /\ ~unclosed => disk \cap late = {}
=============================================================================
