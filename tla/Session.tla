--------------------------------- MODULE Session ---------------------------------
(***************************************************************************)
(* Connecting, the radio and disconnecting (js/app.js, connect, startRadio, *)
(* markInterfaceReady, the buttons and rnode._onDisconnect; the transports' *)
(* connect and disconnect). Each of these suspends, and goes on with the    *)
(* interface that is then the global rnode. The end of an interface is told *)
(* by an event of its transport, also after a disconnect that was asked     *)
(* for, and then possibly when the next interface is already in use.        *)
(***************************************************************************)
EXTENDS Naturals, FiniteSets

CONSTANTS
  MaxIfaces,  \* bound: interfaces made, by as many calls of connect
  Presses,    \* presses of Start radio
  Goodbyes    \* presses of Disconnect

ASSUME SessionAssumption == MaxIfaces \in Nat

VARIABLES
  rnode,      \* the interface in use, 0 at first
  iface,      \* each interface: its transport, and whether it owns a radio
  connecting, \* where the call of connect that made each interface is
  starting,   \* where each press of Start radio is
  leaving,    \* where each press of Disconnect is
  busy,       \* the connect buttons are disabled
  showing,    \* the connect buttons are shown, rather than Disconnect
  polling,    \* the bridge helper is shown and polls
  ready,      \* radioOn
  ticking     \* how many of each interval timer run

sessionVars == <<rnode, iface, connecting, starting, leaving, busy, showing, polling,
                 ready, ticking>>

Timers == {"announceTimer", "outboundRetryTimer", "pnSyncTimer"}

Ifaces == 1..MaxIfaces

AllStopped == [t \in Timers |-> 0]

SessionInit ==
  /\ rnode = 0
  /\ iface = [i \in Ifaces |-> [at |-> "no", radio |-> FALSE]]
  /\ connecting = [i \in Ifaces |-> "no"]
  /\ starting = [s \in Presses |-> "no"]
  /\ leaving = [d \in Goodbyes |-> "no"]
  /\ busy = FALSE /\ showing = TRUE /\ polling = FALSE
  /\ ready = FALSE /\ ticking = AllStopped

readyVars == <<ready, ticking>>
buttonVars == <<busy, showing, polling>>

-----------------------------------------------------------------------------
(* markInterfaceReady: each timer is cleared before it is set.              *)

TicksReplaced == ticking' = [t \in Timers |-> 1]

MarkInterfaceReady ==
  /\ ready' = TRUE
  /\ TicksReplaced

(* connect, by a button or by the helper's poll, which no button stops. One *)
(* without a target or an identity ends at once.                            *)
Connects(i) ==
  /\ iface[i].at = "no" /\ \A j \in 1..(i - 1) : iface[j].at # "no"
  /\ (showing /\ ~busy) \/ polling
  /\ rnode' = i
  /\ \E radio \in BOOLEAN : iface' = [iface EXCEPT ![i] = [at |-> "opening", radio |-> radio]]
  /\ connecting' = [connecting EXCEPT ![i] = "opening"]
  /\ busy' = TRUE
  /\ UNCHANGED <<starting, leaving, showing, polling, readyVars>>

Finished(i) ==
  /\ connecting' = [connecting EXCEPT ![i] = "over"]
  /\ busy' = FALSE

(* The transport is open. Whether there is a radio to configure is asked of *)
(* the interface in use.                                                    *)
IfaceOpens(i) ==
  /\ connecting[i] = "opening" /\ iface[i].at = "opening"
  /\ iface' = [iface EXCEPT ![i].at = "open"]
  /\ showing' = FALSE /\ polling' = FALSE
  /\ IF iface[rnode].radio
       THEN /\ connecting' = [connecting EXCEPT ![i] = "probing"]
            /\ UNCHANGED <<busy, readyVars>>
       ELSE Finished(i) /\ MarkInterfaceReady
  /\ UNCHANGED <<rnode, starting, leaving>>

(* It is not; over a local WebSocket the helper is shown. A transport that  *)
(* failed half way still tells of its end.                                  *)
IfaceFails(i) ==
  /\ connecting[i] = "opening"
  /\ iface' = [iface EXCEPT ![i].at = IF @ = "gone" THEN @ ELSE "ending"]
  /\ Finished(i)
  /\ polling' \in IF iface[i].radio THEN {polling} ELSE {polling, TRUE}
  /\ UNCHANGED <<rnode, starting, leaving, showing, readyVars>>

(* configureAndStart, on an interface that is open, or without one.         *)
RadioAnswers ==
  \/ /\ iface[rnode].at = "open" /\ MarkInterfaceReady
  \/ /\ iface[rnode].at = "open" /\ ready' = FALSE /\ UNCHANGED ticking
  \/ UNCHANGED readyVars

(* detect, firmware, battery, and then the radio; or one of them fails.     *)
ProbeEnds(i) ==
  /\ connecting[i] = "probing"
  /\ Finished(i)
  /\ RadioAnswers
  /\ UNCHANGED <<rnode, iface, starting, leaving, showing, polling>>

-----------------------------------------------------------------------------
StartPressed(s) ==
  /\ rnode # 0 /\ starting[s] = "no"
  /\ starting' = [starting EXCEPT ![s] = "configuring"]
  /\ UNCHANGED <<rnode, iface, connecting, leaving, buttonVars, readyVars>>

StartEnds(s) ==
  /\ starting[s] = "configuring"
  /\ starting' = [starting EXCEPT ![s] = "over"]
  /\ RadioAnswers
  /\ UNCHANGED <<rnode, iface, connecting, leaving, buttonVars>>

(* Stop radio: the timers run on.                                           *)
RadioStopped ==
  /\ rnode # 0 /\ iface[rnode].at = "open"
  /\ ready /\ ready' = FALSE
  /\ UNCHANGED <<rnode, iface, connecting, starting, leaving, buttonVars, ticking>>

-----------------------------------------------------------------------------
(* Disconnect: the timers stop at once; the links are closed; then the      *)
(* interface in use is, and the rest follows.                               *)
DisconnectPressed(d) ==
  /\ ~showing /\ leaving[d] = "no"
  /\ leaving' = [leaving EXCEPT ![d] = "closing"]
  /\ ticking' = AllStopped
  /\ UNCHANGED <<rnode, iface, connecting, starting, buttonVars, ready>>

(* The transport in use is closed; a socket that is still opening is only   *)
(* let go of, and may open yet.                                             *)
AfterDisconnect(f) ==
  CASE f.at = "open" -> {"ending"}
    [] f.at = "opening" -> IF f.radio THEN {"ending"} ELSE {"ending", "opening"}
    [] OTHER -> {f.at}

LinksClosed(d) ==
  /\ leaving[d] = "closing"
  /\ leaving' = [leaving EXCEPT ![d] = "disconnecting"]
  /\ \E at \in AfterDisconnect(iface[rnode]) : iface' = [iface EXCEPT ![rnode].at = at]
  /\ UNCHANGED <<rnode, connecting, starting, buttonVars, readyVars>>

Disconnected(d) ==
  /\ leaving[d] = "disconnecting"
  /\ leaving' = [leaving EXCEPT ![d] = "over"]
  /\ showing' = TRUE /\ ready' = FALSE
  /\ UNCHANGED <<rnode, iface, connecting, starting, busy, polling, ticking>>

ReadyKept == UNCHANGED ready

ReadyLost == ready' = FALSE

(* rnode._onDisconnect of an interface, old or in use.                      *)
IfaceEnds(i) ==
  /\ iface[i].at \in {"open", "ending"}
  /\ iface' = [iface EXCEPT ![i].at = "gone"]
  /\ ticking' = AllStopped
  /\ showing' = TRUE
  /\ ReadyLost
  /\ UNCHANGED <<rnode, connecting, starting, leaving, busy, polling>>

(* The helper is closed.                                                    *)
HelperClosed ==
  /\ polling /\ polling' = FALSE
  /\ UNCHANGED <<rnode, iface, connecting, starting, leaving, busy, showing, readyVars>>

SessionNext ==
  \/ \E i \in Ifaces :
       Connects(i) \/ IfaceOpens(i) \/ IfaceFails(i) \/ ProbeEnds(i) \/ IfaceEnds(i)
  \/ \E s \in Presses : StartPressed(s) \/ StartEnds(s)
  \/ \E d \in Goodbyes : DisconnectPressed(d) \/ LinksClosed(d) \/ Disconnected(d)
  \/ RadioStopped \/ HelperClosed

SessionSpec == SessionInit /\ [][SessionNext]_sessionVars

-----------------------------------------------------------------------------
(* Properties.                                                              *)

SessionTypeOK ==
  /\ rnode \in 0..MaxIfaces
  /\ iface \in [Ifaces -> [at : {"no", "opening", "open", "ending", "gone"}, radio : BOOLEAN]]
  /\ connecting \in [Ifaces -> {"no", "opening", "probing", "over"}]
  /\ starting \in [Presses -> {"no", "configuring", "over"}]
  /\ leaving \in [Goodbyes -> {"no", "closing", "disconnecting", "over"}]
  /\ {busy, showing, polling, ready} \subseteq BOOLEAN
  /\ ticking \in [Timers -> Nat]

(* Whoever may send is also driven: as long as radioOn is set the announce, *)
(* retry and sync timers run, each exactly once, whatever connects, radio   *)
(* starts and late events have overlapped; only while a Disconnect is under *)
(* way may they have stopped. Two retry timers would spend the attempts of  *)
(* a message twice as fast, none would leave it pending for ever.           *)
ReadyIsDriven ==
  /\ \A t \in Timers : ticking[t] <= 1
  /\ ready /\ (\A d \in Goodbyes : leaving[d] \in {"no", "over"})
       => \A t \in Timers : ticking[t] = 1
=============================================================================
