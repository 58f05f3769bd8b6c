--------------------------- MODULE DeliveryContract ---------------------------
(***************************************************************************)
(* What the conversation view promises about a message, whatever happens    *)
(* underneath: the double check (js/app.js, MSG_STATE_DELIVERED) is shown   *)
(* only for a message the peer has, a message is submitted once, and a      *)
(* deleted one never comes back. It does not promise that the double check  *)
(* stays: Waver takes it away, as the code can.                             *)
(***************************************************************************)
CONSTANT Messages

VARIABLES
  status,  \* what the user is told of each message
  got      \* the messages the peer has

vars == <<status, got>>

Init ==
  /\ status = [m \in Messages |-> "unsent"]
  /\ got = {}

Submit(m) ==
  /\ status[m] = "unsent"
  /\ status' = [status EXCEPT ![m] = "open"]
  /\ UNCHANGED got

Arrive(m) ==
  /\ status[m] # "unsent"
  /\ got' = got \cup {m}
  /\ UNCHANGED status

Confirm(m) ==
  /\ status[m] \in {"open", "abandoned"}
  /\ m \in got
  /\ status' = [status EXCEPT ![m] = "confirmed"]
  /\ UNCHANGED got

Abandon(m) ==
  /\ status[m] \in {"open", "confirmed"}
  /\ status' = [status EXCEPT ![m] = "abandoned"]
  /\ UNCHANGED got

Waver(m) ==
  /\ status[m] \in {"abandoned", "confirmed"}
  /\ status' = [status EXCEPT ![m] = "open"]
  /\ UNCHANGED got

Delete(m) ==
  /\ status[m] \in {"open", "abandoned", "confirmed"}
  /\ status' = [status EXCEPT ![m] = "deleted"]
  /\ UNCHANGED got

Next == \E m \in Messages :
  \/ Submit(m) \/ Arrive(m) \/ Confirm(m)
  \/ Abandon(m) \/ Waver(m) \/ Delete(m)

Spec == Init /\ [][Next]_vars
=============================================================================
