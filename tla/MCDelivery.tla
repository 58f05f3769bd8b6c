------------------------------ MODULE MCDelivery ------------------------------
(***************************************************************************)
(* The sender's progress over its retries, and the transfer of a Resource,  *)
(* on small instances. They share no state in the model, so a behaviour is  *)
(* one component's: part says whose, and the other rests.                   *)
(***************************************************************************)
EXTENDS Outbound, Resource, TLC

VARIABLE part

mcVars == <<part, vars, resVars>>

MCInit ==
  /\ part \in {"outbound", "resource"}
  /\ Init /\ (part # "outbound" => ~radioOn)
  /\ ResInit

MCNext ==
  \/ part = "outbound" /\ Next /\ UNCHANGED <<part, resVars>>
  \/ part = "resource" /\ ResNext /\ UNCHANGED <<part, vars>>

(* What each component alone is fair to, when the behaviour is its own.     *)
MCFairness ==
  /\ \A w \in Workers : WF_vars(part = "outbound" /\ Worker(w))
  /\ \A t \in Ticks : /\ WF_vars(part = "outbound" /\ TickStart(t))
                      /\ WF_vars(part = "outbound" /\ TickScan(t))
  /\ \A m \in Messages : /\ WF_vars(part = "outbound" /\ BackoffElapses(m))
                         /\ WF_vars(part = "outbound" /\ ProofCommits(m))
  /\ \A r \in Receivers : /\ WF_resVars(part = "resource" /\ Work(r))
                          /\ WF_resVars(part = "resource" /\ Stall(r))

MCSpec == MCInit /\ [][MCNext]_mcVars /\ MCFairness
=============================================================================
