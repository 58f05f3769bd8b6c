------------------------------- MODULE MCStorage -------------------------------
(***************************************************************************)
(* The screens and what the browser stores, on small instances: the         *)
(* conversations with their unread badges, the nodes store, the composer    *)
(* and the panic wipe. They share no state in the model, so a behaviour is  *)
(* one component's: part says whose, and the others rest.                   *)
(***************************************************************************)
EXTENDS Conversations, NodeStore, Composer, Wipe, TLC

CONSTANTS n1, n2, n3, c1, c2, j1, j2  \* nodes, calls of handlers, calls of pruneNodeStore

VARIABLE part

vars == <<part, convVars, nodeVars, composerVars, wipeVars>>

Init ==
  /\ part \in {"conversations", "nodes", "composer", "wipe"}
  /\ ConvInit
  /\ NodesInit /\ (part # "nodes" => conversed = {})
  /\ ComposerInit /\ (part # "composer" => ~radio /\ known = {})
  /\ WipeInit /\ (part # "wipe" => ~delivering /\ ~connecting /\ ticking = {})

Next ==
  \/ part = "conversations" /\ ConvNext /\ UNCHANGED <<part, nodeVars, composerVars, wipeVars>>
  \/ part = "nodes" /\ NodesNext /\ UNCHANGED <<part, convVars, composerVars, wipeVars>>
  \/ part = "composer" /\ ComposerNext /\ UNCHANGED <<part, convVars, nodeVars, wipeVars>>
  \/ part = "wipe" /\ WipeNext /\ UNCHANGED <<part, convVars, nodeVars, composerVars>>

Spec == Init /\ [][Next]_vars

(* Calls of one handler and unlinked nodes differ in name only.             *)
Symmetry == Permutations({n2, n3}) \cup Permutations({c1, c2}) \cup Permutations({j1, j2})
=============================================================================
