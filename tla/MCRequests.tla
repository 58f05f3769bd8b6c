------------------------------ MODULE MCRequests -------------------------------
(***************************************************************************)
(* The components that wait for an answer, on small instances: the path     *)
(* requests, the sync with a propagation node, the configuration client,    *)
(* the RNode's commands, the firmware update and the bridges. They share no *)
(* state in the model, so a behaviour is one component's: part says whose,  *)
(* and the others rest.                                                     *)
(***************************************************************************)
EXTENDS PathRequest, PnSync, ConfigClient, RNodeCommands, Dfu, Bridge, TLC

CONSTANTS o1, o2, o3, c1, c2, c3  \* commands and connections

VARIABLE part

vars == <<part, pathVars, pnVars, cfgVars, rnVars, dfuVars, bridgeVars>>

(* Syncs make two parts: one sync of all there is, and two of at most one   *)
(* message; bridges too: two connections, and the caps of the public bridge *)
(* on three that are not dialled.                                           *)
Parts == {"path", "pn", "pns", "cfg", "rnode", "dfu", "bridge", "caps"}

MCCommandOf == (o1 :> "detect") @@ (o2 :> "detect") @@ (o3 :> "frequency")

(* Two of three from one address.                                           *)
MCAddressOf == (c1 :> "a") @@ (c2 :> "a") @@ (c3 :> "b")

Init ==
  /\ part \in Parts
  /\ PathInit /\ (part # "path" => ~radioOn)
  /\ PnInit
  /\ part = "pns" => Cardinality(held) <= 1 /\ kept \subseteq held
  /\ part \notin {"pn", "pns"} => held = {} /\ kept = {}
  /\ CfgInit /\ RnInit /\ DfuInit
  /\ BridgeInit /\ (part # "bridge" => program = IF part = "caps" THEN "public" ELSE "local")

Next ==
  \/ /\ part = "path" /\ PathNext
     /\ UNCHANGED <<part, pnVars, cfgVars, rnVars, dfuVars, bridgeVars>>
  \/ /\ part = "pns" /\ PnNext
     /\ UNCHANGED <<part, pathVars, cfgVars, rnVars, dfuVars, bridgeVars>>
  \/ /\ part = "pn" /\ PnNext /\ (\A s \in Syncs : s > 1 => sync'[s] = NotBegun)
     /\ UNCHANGED <<part, pathVars, cfgVars, rnVars, dfuVars, bridgeVars>>
  \/ /\ part = "cfg" /\ CfgNext
     /\ UNCHANGED <<part, pathVars, pnVars, rnVars, dfuVars, bridgeVars>>
  \/ /\ part = "rnode" /\ RnNext
     /\ UNCHANGED <<part, pathVars, pnVars, cfgVars, dfuVars, bridgeVars>>
  \/ /\ part = "dfu" /\ DfuNext
     /\ UNCHANGED <<part, pathVars, pnVars, cfgVars, rnVars, bridgeVars>>
  \/ /\ part = "bridge" /\ BridgeNext /\ place'[c3] = "no"
     /\ UNCHANGED <<part, pathVars, pnVars, cfgVars, rnVars, dfuVars>>
  \/ /\ part = "caps" /\ BridgeNext /\ (\A c \in Conns : place'[c] # "bridged")
     /\ UNCHANGED <<part, pathVars, pnVars, cfgVars, rnVars, dfuVars>>

(* What each component alone is fair to, when the behaviour is its own.     *)
Fairness ==
  /\ \A c \in Callers :
       /\ WF_pathVars(part = "path" /\ (RequestSent(c) \/ RequestThrows(c)))
       /\ WF_pathVars(part = "path" /\ PathTimeout(c))
  /\ \A s \in Syncs : WF_pnVars(part \in {"pn", "pns"} /\ PnGoesOn(s))
  /\ \A h \in Handlers : WF_cfgVars(part = "cfg" /\ CfgGoesOn(h))
  /\ \A c \in Conns : WF_bridgeVars(part = "bridge" /\ BridgeGoesOn(c))

Spec == Init /\ [][Next]_vars /\ Fairness

(* The component whose behaviour it is is well typed; the others rest.      *)
TypeOK ==
  CASE part = "path" -> PathTypeOK
    [] part \in {"pn", "pns"} -> PnTypeOK
    [] part = "cfg" -> CfgTypeOK
    [] part = "rnode" -> RnTypeOK
    [] part = "dfu" -> DfuTypeOK
    [] part \in {"bridge", "caps"} -> BridgeTypeOK
=============================================================================
