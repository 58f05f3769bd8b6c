------------------------------ MODULE ConfigClient ------------------------------
(***************************************************************************)
(* The configuration client of a repeater (js/transport-config.js,          *)
(* TransportClient; js/transport-flasher-app.js). The class has room for    *)
(* one request; a response carries no number, so the next one to arrive     *)
(* answers whatever is pending. The calls of the page's buttons run side by *)
(* side: each is a series of requests that ends with the first that fails.  *)
(***************************************************************************)
EXTENDS Naturals, Sequences, FiniteSets

CONSTANTS
  Handlers,  \* handlers of the page that can run in one session
  MaxOnAir   \* bound: responses on their way

ASSUME CfgAssumption == MaxOnAir \in Nat

VARIABLES
  cfgLinked,  \* TransportClient.transport
  cfgPending, \* TransportClient.pending, with its timer: whose request
  cfgClosing, \* disconnect() is under way
  handler,    \* each handler: the requests it has to make, and whether one is open
  cfgWrites,  \* requests whose write has not settled
  onAir,      \* responses on their way
  shown,      \* what currentConfig was filled from
  cfgLost     \* history: a write failed when its request was already over

cfgVars == <<cfgLinked, cfgPending, cfgClosing, handler, cfgWrites, onAir, shown, cfgLost>>

Commands == {"ping", "get_config", "set_config", "commit"}

(* onConnected, refreshConfig, applyAndCommit.                              *)
Series == {<<"ping", "get_config">>, <<"get_config">>, <<"set_config", "commit", "get_config">>}

NoOne == "no one"

CfgInit ==
  /\ cfgLinked = TRUE /\ cfgPending = NoOne /\ cfgClosing = FALSE
  /\ handler = [h \in Handlers |-> [at |-> "no", todo |-> <<>>]]
  /\ cfgWrites = {} /\ onAir = <<>>
  /\ shown = NoOne /\ cfgLost = FALSE

Stopped == [at |-> "over", todo |-> <<>>]

CfgRequest(h) == [of |-> h, cmd |-> Head(handler[h].todo)]

cfgLinkVars == <<cfgLinked, cfgClosing>>

-----------------------------------------------------------------------------
(* A button, or a connection that came about.                               *)
HandlerStarts(h) ==
  /\ handler[h].at = "no"
  /\ \E s \in Series : handler' = [handler EXCEPT ![h] = [at |-> "calling", todo |-> s]]
  /\ UNCHANGED <<cfgLinkVars, cfgPending, cfgWrites, onAir, shown, cfgLost>>

(* call: refused without a transport, or while a request is in flight.      *)
CfgRequestSent(h) ==
  /\ handler[h].at = "calling"
  /\ IF cfgLinked /\ cfgPending = NoOne
       THEN /\ cfgPending' = h
            /\ cfgWrites' = cfgWrites \cup {CfgRequest(h)}
            /\ handler' = [handler EXCEPT ![h].at = "waiting"]
       ELSE /\ handler' = [handler EXCEPT ![h] = Stopped]
            /\ UNCHANGED <<cfgPending, cfgWrites>>
  /\ UNCHANGED <<cfgLinkVars, onAir, shown, cfgLost>>

(* The write succeeds, and the device answers, or does not.                 *)
RequestWritten(h) ==
  /\ \E w \in cfgWrites :
       /\ w.of = h
       /\ cfgWrites' = cfgWrites \ {w}
       /\ \/ UNCHANGED onAir
          \/ /\ cfgLinked /\ Len(onAir) < MaxOnAir
             /\ onAir' = Append(onAir, w.cmd)
  /\ UNCHANGED <<cfgLinkVars, cfgPending, handler, shown, cfgLost>>

(* The write fails: the timer of what is pending now is cleared with it.    *)
(* A request that is over was settled before; one that is not is lost.      *)
WriteRejected(h) ==
  /\ \E w \in cfgWrites :
       /\ w.of = h
       /\ cfgWrites' = cfgWrites \ {w}
       /\ IF cfgPending = h /\ w = CfgRequest(h)
            THEN /\ handler' = [handler EXCEPT ![h] = Stopped]
                 /\ UNCHANGED cfgLost
            ELSE /\ cfgLost' = (cfgLost \/ cfgPending # NoOne)
                 /\ UNCHANGED handler
  /\ cfgPending' = NoOne
  /\ UNCHANGED <<cfgLinkVars, onAir, shown>>

(* RESPONSE_TIMEOUT.                                                        *)
CallTimesOut(h) ==
  /\ cfgPending = h
  /\ cfgPending' = NoOne
  /\ handler' = [handler EXCEPT ![h] = Stopped]
  /\ UNCHANGED <<cfgLinkVars, cfgWrites, onAir, shown, cfgLost>>

(* _handleResponse: ignored when nothing is pending; otherwise it settles   *)
(* what is. An error, or what cannot be decoded, ends the handler.          *)
ResponseArrives ==
  /\ onAir # <<>>
  /\ onAir' = Tail(onAir)
  /\ IF cfgPending = NoOne
       THEN UNCHANGED <<cfgPending, handler, shown>>
       ELSE LET h == cfgPending  left == Tail(handler[h].todo)
            IN /\ cfgPending' = NoOne
               /\ \/ /\ handler' = [handler EXCEPT ![h] = Stopped]
                     /\ UNCHANGED shown
                  \/ /\ handler' = [handler EXCEPT ![h] =
                          IF left = <<>> THEN Stopped ELSE [at |-> "calling", todo |-> left]]
                     /\ shown' = IF Head(handler[h].todo) = "get_config" THEN Head(onAir) ELSE shown
  /\ UNCHANGED <<cfgLinkVars, cfgWrites, cfgLost>>

-----------------------------------------------------------------------------
(* disconnect: awaits the transport, then rejects what is pending.          *)
DisconnectBegins ==
  /\ cfgLinked /\ ~cfgClosing /\ cfgClosing' = TRUE
  /\ UNCHANGED <<cfgLinked, cfgPending, handler, cfgWrites, onAir, shown, cfgLost>>

PendingDropped == UNCHANGED handler

PendingRejected ==
  handler' = [h \in Handlers |-> IF cfgPending = h THEN Stopped ELSE handler[h]]

DisconnectEnds ==
  /\ cfgClosing /\ cfgClosing' = FALSE
  /\ cfgLinked' = FALSE /\ onAir' = <<>>
  /\ PendingRejected
  /\ cfgPending' = NoOne
  /\ shown' = NoOne
  /\ UNCHANGED <<cfgWrites, cfgLost>>

(* gattserverdisconnected: what is pending is left to its timer.            *)
BleDrops ==
  /\ cfgLinked /\ cfgLinked' = FALSE
  /\ onAir' = <<>> /\ shown' = NoOne
  /\ UNCHANGED <<cfgPending, cfgClosing, handler, cfgWrites, cfgLost>>

Reconnects ==
  /\ ~cfgLinked /\ ~cfgClosing /\ cfgLinked' = TRUE
  /\ UNCHANGED <<cfgPending, cfgClosing, handler, cfgWrites, onAir, shown, cfgLost>>

CfgNext ==
  \/ \E h \in Handlers :
       \/ HandlerStarts(h) \/ CfgRequestSent(h) \/ RequestWritten(h) \/ WriteRejected(h)
       \/ CallTimesOut(h)
  \/ ResponseArrives \/ DisconnectBegins \/ DisconnectEnds \/ BleDrops \/ Reconnects

(* The page's own: a handler goes on, and a timer fires.                    *)
CfgGoesOn(h) == CfgRequestSent(h) \/ CallTimesOut(h)

CfgSpec == CfgInit /\ [][CfgNext]_cfgVars

CfgFairSpec == CfgSpec /\ \A h \in Handlers : WF_cfgVars(CfgGoesOn(h))

-----------------------------------------------------------------------------
(* Properties.                                                              *)

(* Well typed; and what is pending belongs to a handler that waits for it.  *)
CfgTypeOK ==
  /\ {cfgLinked, cfgClosing, cfgLost} \subseteq BOOLEAN
  /\ cfgPending \in Handlers \cup {NoOne}
  /\ cfgPending # NoOne => handler[cfgPending].at = "waiting"
  /\ handler \in [Handlers -> [at : {"no", "calling", "waiting", "over"}, todo : Seq(Commands)]]
  /\ cfgWrites \subseteq [of : Handlers, cmd : Commands]
  /\ onAir \in Seq(Commands) /\ Len(onAir) <= MaxOnAir
  /\ shown \in Commands \cup {NoOne}

(* No handler of the page waits for ever: a device that stays silent, a     *)
(* connection that drops and a disconnect all settle its request. Excepted  *)
(* is a write that fails after its own request timed out or was answered:   *)
(* call's catch then clears the timer of the request that is pending now    *)
(* (transport-config.js, call).                                             *)
CallsSettle == \A h \in Handlers : (handler[h].at = "waiting") ~> (handler[h].at # "waiting" \/ cfgLost)
=============================================================================
