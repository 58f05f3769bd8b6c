------------------------------ MODULE RNodeCommands ------------------------------
(***************************************************************************)
(* Commands to an RNode (js/rnode.js, _sendAndWait and _onFrame). A command *)
(* waits for a frame with its own number: one callback for each command,    *)
(* the newest call's, and one timer for each call. A call that fails to be  *)
(* written keeps both, and a timer that fires takes the callback that is    *)
(* registered by then, whoever's it is.                                     *)
(***************************************************************************)
EXTENDS FiniteSets

CONSTANTS
  Orders,     \* calls of _sendAndWait
  CommandOf   \* the command of each

VARIABLES
  rnOpen,     \* the transport is open
  order,      \* where each call is
  callbacks,  \* _callbacks
  rnTimers,   \* calls whose timer runs
  rnWrites,   \* calls whose _send has not settled
  frames      \* commands whose response is on its way

rnVars == <<rnOpen, order, callbacks, rnTimers, rnWrites, frames>>

RnCommands == {CommandOf[o] : o \in Orders}

NoOrder == "none"

RnInit ==
  /\ rnOpen = TRUE
  /\ order = [o \in Orders |-> "no"]
  /\ callbacks = [c \in RnCommands |-> NoOrder]
  /\ rnTimers = {} /\ rnWrites = {} /\ frames = {}

(* _sendAndWait.                                                            *)
Ordered(o) ==
  /\ order[o] = "no"
  /\ order' = [order EXCEPT ![o] = "waiting"]
  /\ callbacks' = [callbacks EXCEPT ![CommandOf[o]] = o]
  /\ rnTimers' = rnTimers \cup {o}
  /\ rnWrites' = rnWrites \cup {o}
  /\ UNCHANGED <<rnOpen, frames>>

Settled(o, as) == order' = [order EXCEPT ![o] = IF @ = "waiting" THEN as ELSE @]

OrderWritten(o) ==
  /\ o \in rnWrites /\ rnOpen
  /\ rnWrites' = rnWrites \ {o}
  /\ frames' \in {frames, frames \cup {CommandOf[o]}}
  /\ UNCHANGED <<rnOpen, order, callbacks, rnTimers>>

OrderNotWritten(o) ==
  /\ o \in rnWrites
  /\ rnWrites' = rnWrites \ {o}
  /\ Settled(o, "failed")
  /\ UNCHANGED <<rnOpen, callbacks, rnTimers, frames>>

CallbackLeft(o) == UNCHANGED callbacks

CallbackDeleted(o) == callbacks' = [callbacks EXCEPT ![CommandOf[o]] = NoOrder]

OrderTimesOut(o) ==
  /\ o \in rnTimers
  /\ rnTimers' = rnTimers \ {o}
  /\ CallbackDeleted(o)
  /\ Settled(o, "failed")
  /\ UNCHANGED <<rnOpen, rnWrites, frames>>

(* _onFrame, for a response.                                                *)
FrameArrives ==
  /\ \E c \in frames :
       /\ frames' = frames \ {c}
       /\ callbacks' = [callbacks EXCEPT ![c] = NoOrder]
       /\ IF callbacks[c] = NoOrder
            THEN UNCHANGED <<order, rnTimers>>
            ELSE /\ rnTimers' = rnTimers \ {callbacks[c]}
                 /\ Settled(callbacks[c], "answered")
  /\ UNCHANGED <<rnOpen, rnWrites>>

(* transport._onDisconnect: the timers are left to fire.                    *)
RnDisconnects ==
  /\ rnOpen /\ rnOpen' = FALSE
  /\ callbacks' = [c \in RnCommands |-> NoOrder]
  /\ frames' = {}
  /\ UNCHANGED <<order, rnTimers, rnWrites>>

RnNext ==
  \/ \E o \in Orders : Ordered(o) \/ OrderWritten(o) \/ OrderNotWritten(o) \/ OrderTimesOut(o)
  \/ FrameArrives \/ RnDisconnects

RnSpec == RnInit /\ [][RnNext]_rnVars

(* Well typed; a registered callback has its timer, and a call that waits   *)
(* has one too, so that none waits for ever and no answer reaches a call    *)
(* that timed out (_sendAndWait).                                           *)
RnTypeOK ==
  /\ rnOpen \in BOOLEAN
  /\ order \in [Orders -> {"no", "waiting", "answered", "failed"}]
  /\ callbacks \in [RnCommands -> Orders \cup {NoOrder}]
  /\ rnTimers \subseteq Orders /\ rnWrites \subseteq Orders /\ frames \subseteq RnCommands
  /\ \A c \in RnCommands : callbacks[c] # NoOrder => callbacks[c] \in rnTimers
  /\ \A o \in Orders : order[o] = "waiting" => o \in rnTimers
=============================================================================
