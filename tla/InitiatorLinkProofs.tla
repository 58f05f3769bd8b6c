-------------------------- MODULE InitiatorLinkProofs --------------------------
(***************************************************************************)
(* The link openings keep the specification of the path requests they start *)
(* with, and their own invariants, for any number of openings and of proofs *)
(* in flight.                                                               *)
(***************************************************************************)
EXTENDS InitiatorLink, PathRequestProofs

(* No step of an opening, a handler or the peer touches the path requests,  *)
(* and the loss of the transport clears both.                               *)
LEMMA StepIsPathStep == [Next]_vars => [PathNext]_pathVars
<1> SUFFICES ASSUME [Next]_vars PROVE [PathNext]_pathVars
  OBVIOUS
<1>1. CASE PathStep
  BY <1>1 DEF PathStep, PathNext
<1>2. ASSUME NEW c \in Callers, Open(c) \/ CloseLink(c) \/ Respond(c)
      PROVE UNCHANGED pathVars
  BY <1>2 DEF Open, PreambleOver, SendLinkRequest, LinkRequestSent,
              LinkRequestThrows, LinkTimeout, CloseLink, Respond
<1>3. ASSUME NEW h \in Handlers, LinkProofArrives(h) \/ Handle(h)
      PROVE UNCHANGED pathVars
  BY <1>3 DEF LinkProofArrives, Handle, KeyDerived, Established, Release
<1>4. CASE LinksLost
  BY <1>4 DEF LinksLost, PathNext
<1>5. CASE UNCHANGED vars
  BY <1>5 DEF vars
<1>6. QED
  BY <1>1, <1>2, <1>3, <1>4, <1>5 DEF Next

(* The composition implements PathRequest: what is proved of path requests  *)
(* holds of those that link openings make.                                  *)
THEOREM KeepsPathSpec == Spec => PathSpec
<1>1. Init => PathInit
  BY DEF Init
<1>2. QED
  BY <1>1, StepIsPathStep, PTL DEF Spec, PathSpec

-----------------------------------------------------------------------------
(***************************************************************************)
(* The types of the link's own variables, and its inductive invariant. An   *)
(* opening that has not sent its request has left no trace, and a handler   *)
(* works on a link the responder has, so what it does between its awaits    *)
(* cannot undo what others did.                                             *)
(***************************************************************************)
Unopened == \A c \in Callers : step[c] \in {"path", "id"} =>
  /\ promise[c] = "none"
  /\ c \notin pend \cup patience \cup asked

HandledIsProved == \A h \in Handlers : hpc[h] # "idle" =>
  /\ hlink[h] \in proved
  /\ hpc[h] = "send" /\ hlink[h] \notin gone => status[hlink[h]] = "ACTIVE"

ResolvedIsProved == \A c \in Callers : promise[c] = "resolved" => c \in proved

LinkInv ==
  /\ Unopened
  /\ HandledIsProved
  /\ ResolvedIsProved
  /\ AwaitedIsTimed
  /\ LinkIsMutual
  /\ ResolvedIsUsable

(* What Settle does to one promise.                                         *)
LEMMA Settled ==
  ASSUME LinkTypeOK, NEW S, NEW v \in {"resolved", "rejected"}, Settle(S, v)
  PROVE  /\ promise' \in [Callers -> {"none", "resolved", "rejected"}]
         /\ \A c \in Callers :
              /\ c \notin S => promise'[c] = promise[c]
              /\ promise[c] # "none" => promise'[c] = promise[c]
              /\ c \in S /\ promise[c] = "none" => promise'[c] = v
  BY DEF Settle, LinkTypeOK

(* The initial state of the link openings is well typed.                    *)
LEMMA LinkInitType == Init => LinkTypeOK
<1> SUFFICES ASSUME Init PROVE LinkTypeOK
  OBVIOUS
<1>1. PathTypeOK
  BY PathInitType DEF Init
<1>2. QED
  BY <1>1, LinkAssumption DEF Init, LinkTypeOK

(* Each step of the link openings keeps the types.                          *)
LEMMA LinkNextType == LinkTypeOK /\ [Next]_vars => LinkTypeOK'
<1> SUFFICES ASSUME LinkTypeOK, [Next]_vars PROVE LinkTypeOK'
  OBVIOUS
<1>0. PathTypeOK'
  BY StepIsPathStep, PathNextType DEF LinkTypeOK
<1> USE LinkAssumption, <1>0
<1>1. CASE PathStep
  BY <1>1 DEF PathStep, linkVars, openVars, mapVars, handVars, peerVars, LinkTypeOK
<1>2. ASSUME NEW c \in Callers, PreambleOver(c) PROVE LinkTypeOK'
  <2>1. promise' \in [Callers -> {"none", "resolved", "rejected"}]
    BY <1>2, Settled DEF PreambleOver, LinkTypeOK
  <2>2. QED
    BY <1>2, <2>1 DEF PreambleOver, mapVars, handVars, peerVars, LinkTypeOK
<1>3. ASSUME NEW c \in Callers, SendLinkRequest(c) PROVE LinkTypeOK'
  BY <1>3 DEF SendLinkRequest, Await, handVars, LinkTypeOK
<1>4. ASSUME NEW c \in Callers, LinkRequestSent(c) PROVE LinkTypeOK'
  BY <1>4 DEF LinkRequestSent, mapVars, handVars, peerVars, LinkTypeOK
<1>5. ASSUME NEW c \in Callers, LinkRequestThrows(c) PROVE LinkTypeOK'
  <2>1. promise' \in [Callers -> {"none", "resolved", "rejected"}]
    BY <1>5, Settled DEF LinkRequestThrows, Refused
  <2>2. QED
    BY <1>5, <2>1 DEF LinkRequestThrows, Refused, handVars, peerVars, LinkTypeOK
<1>6. ASSUME NEW c \in Callers, LinkTimeout(c) PROVE LinkTypeOK'
  <2>1. promise' \in [Callers -> {"none", "resolved", "rejected"}]
    BY <1>6, Settled DEF LinkTimeout, LinkTypeOK
  <2>2. QED
    BY <1>6, <2>1 DEF LinkTimeout, handVars, peerVars, LinkTypeOK
<1>7. ASSUME NEW h \in Handlers, LinkProofArrives(h) PROVE LinkTypeOK'
  <2>1. PICK c \in pend \cap asked, intact \in BOOLEAN :
          IF Acceptable(c, intact)
            THEN /\ hpc' = [hpc EXCEPT ![h] = "derive"]
                 /\ hlink' = [hlink EXCEPT ![h] = c]
                 /\ UNCHANGED <<pend, patience, promise>>
            ELSE Refused(c) /\ UNCHANGED handVars
    BY <1>7 DEF LinkProofArrives
  <2>2. UNCHANGED <<pathVars, step, links, status, peerVars>>
    BY <1>7 DEF LinkProofArrives
  <2>3. CASE Acceptable(c, intact)
    BY <2>1, <2>2, <2>3 DEF peerVars, LinkTypeOK
  <2>4. CASE ~Acceptable(c, intact)
    <3>1. promise' \in [Callers -> {"none", "resolved", "rejected"}]
      BY <2>1, <2>4, Settled DEF Refused
    <3>2. QED
      BY <2>1, <2>2, <2>4, <3>1 DEF Refused, handVars, peerVars, LinkTypeOK
  <2>5. QED
    BY <2>3, <2>4
<1>8. ASSUME NEW h \in Handlers, KeyDerived(h) PROVE LinkTypeOK'
  BY <1>8 DEF KeyDerived, openVars, peerVars, LinkTypeOK
<1>9. ASSUME NEW h \in Handlers, Established(h) PROVE LinkTypeOK'
  <2>1. promise' \in [Callers -> {"none", "resolved", "rejected"}]
    BY <1>9, Settled DEF Established
  <2>2. hlink[h] \in Callers
    BY <1>9 DEF Established, LinkTypeOK
  <2>3. QED
    BY <1>9, <2>1, <2>2 DEF Established, StoreLink, Release, peerVars, LinkTypeOK
<1>10. ASSUME NEW c \in Callers, CloseLink(c) PROVE LinkTypeOK'
  BY <1>10 DEF CloseLink, openVars, handVars, LinkTypeOK
<1>11. ASSUME NEW c \in Callers, Respond(c) PROVE LinkTypeOK'
  BY <1>11 DEF Respond, openVars, mapVars, handVars, LinkTypeOK
<1>12. CASE LinksLost
  <2>1. promise' \in [Callers -> {"none", "resolved", "rejected"}]
    BY <1>12, Settled DEF LinksLost
  <2>2. QED
    BY <1>12, <2>1 DEF LinksLost, handVars, LinkTypeOK
<1>13. CASE UNCHANGED vars
  BY <1>13 DEF vars, linkVars, openVars, mapVars, handVars, peerVars, LinkTypeOK
<1>14. QED
  BY <1>1, <1>2, <1>3, <1>4, <1>5, <1>6, <1>7, <1>8, <1>9, <1>10, <1>11, <1>12,
     <1>13 DEF Next, Open, Handle

-----------------------------------------------------------------------------
(* Initially nothing is awaited, proved or listed.                          *)
LEMMA LinkInitInv == Init => LinkInv
<1> SUFFICES ASSUME Init PROVE LinkInv
  OBVIOUS
<1> QED
  BY DEF Init, LinkInv, Unopened, HandledIsProved, ResolvedIsProved,
         AwaitedIsTimed, LinkIsMutual, ResolvedIsUsable

(* Ending an establishment that is awaited.                                 *)
LEMMA RefusedInv ==
  ASSUME LinkTypeOK, LinkInv, NEW c \in Callers, Refused(c),
         step[c] \notin {"path", "id"}, \A d \in Callers \ {c} : step'[d] = step[d],
         step'[c] \notin {"path", "id"},
         UNCHANGED <<links, status, handVars, peerVars>>
  PROVE  LinkInv'
<1>1. /\ promise' \in [Callers -> {"none", "resolved", "rejected"}]
      /\ \A d \in Callers :
           /\ d # c => promise'[d] = promise[d]
           /\ promise'[d] = "resolved" <=> promise[d] = "resolved"
      /\ pend' = pend \ {c} /\ patience' = patience \ {c}
  BY Settled DEF Refused, LinkTypeOK
<1>2. Unopened'
  BY <1>1 DEF LinkInv, Unopened, peerVars
<1>3. HandledIsProved' /\ LinkIsMutual'
  BY DEF LinkInv, HandledIsProved, LinkIsMutual, handVars, peerVars
<1>4. ResolvedIsProved' /\ AwaitedIsTimed' /\ ResolvedIsUsable'
  BY <1>1 DEF LinkInv, ResolvedIsProved, AwaitedIsTimed, ResolvedIsUsable, peerVars,
              LinkTypeOK
<1>5. QED
  BY <1>2, <1>3, <1>4 DEF LinkInv

(* Each step keeps the inductive invariant; one step per action.            *)
LEMMA LinkNextInv == LinkTypeOK /\ LinkInv /\ [Next]_vars => LinkInv'
<1> SUFFICES ASSUME LinkTypeOK, LinkInv, [Next]_vars PROVE LinkInv'
  OBVIOUS
<1> USE DEF LinkInv, Unopened, HandledIsProved, ResolvedIsProved, AwaitedIsTimed,
            LinkIsMutual, ResolvedIsUsable
<1>1. CASE PathStep
  BY <1>1 DEF PathStep, linkVars, openVars, mapVars, handVars, peerVars
<1>2. ASSUME NEW c \in Callers, PreambleOver(c) PROVE LinkInv'
  <2>1. /\ step[c] = "path"
        /\ UNCHANGED <<mapVars, handVars, peerVars>>
        /\ \A d \in Callers : d # c => step'[d] = step[d]
    BY <1>2 DEF PreambleOver, LinkTypeOK
  <2>2. CASE call[c] = "threw"
    <3>1. /\ \A d \in Callers : d # c => promise'[d] = promise[d]
          /\ promise'[c] = "rejected"
      BY <1>2, <2>1, <2>2, Settled DEF PreambleOver
    <3>2. step'[c] = "done"
      BY <1>2, <2>2 DEF PreambleOver, LinkTypeOK
    <3>3. QED
      BY <2>1, <3>1, <3>2 DEF mapVars, handVars, peerVars, LinkTypeOK
  <2>3. CASE call[c] # "threw"
    BY <1>2, <2>1, <2>3 DEF PreambleOver, mapVars, handVars, peerVars, LinkTypeOK
  <2>4. QED
    BY <2>2, <2>3
<1>3. ASSUME NEW c \in Callers, SendLinkRequest(c) PROVE LinkInv'
  BY <1>3 DEF SendLinkRequest, Await, handVars, LinkTypeOK
<1>4. ASSUME NEW c \in Callers, LinkRequestSent(c) PROVE LinkInv'
  BY <1>4 DEF LinkRequestSent, mapVars, handVars, peerVars, LinkTypeOK
<1>5. ASSUME NEW c \in Callers, LinkRequestThrows(c) PROVE LinkInv'
  BY <1>5, RefusedInv DEF LinkRequestThrows, LinkTypeOK
<1>6. ASSUME NEW c \in Callers, LinkTimeout(c) PROVE LinkInv'
  <2>1. step[c] \notin {"path", "id"}
    BY <1>6 DEF LinkTimeout
  <2>2. CASE c \in pend
    BY <1>6, <2>1, <2>2, RefusedInv DEF LinkTimeout, Refused
  <2>3. CASE c \notin pend
    BY <1>6, <2>1, <2>3 DEF LinkTimeout, handVars, peerVars
  <2>4. QED
    BY <2>2, <2>3
<1>7. ASSUME NEW h \in Handlers, LinkProofArrives(h) PROVE LinkInv'
  <2>1. PICK c \in pend \cap asked, intact \in BOOLEAN :
          /\ intact => c \in proved
          /\ IF Acceptable(c, intact)
               THEN /\ hpc' = [hpc EXCEPT ![h] = "derive"]
                    /\ hlink' = [hlink EXCEPT ![h] = c]
                    /\ UNCHANGED <<pend, patience, promise>>
               ELSE Refused(c) /\ UNCHANGED handVars
    BY <1>7 DEF LinkProofArrives
  <2>2. UNCHANGED <<pathVars, step, links, status, peerVars>>
    BY <1>7 DEF LinkProofArrives
  <2>3. CASE Acceptable(c, intact)
    BY <2>1, <2>2, <2>3 DEF Acceptable, peerVars, LinkTypeOK
  <2>4. CASE ~Acceptable(c, intact)
    <3>1. c \in Callers /\ step[c] \notin {"path", "id"}
      BY <2>1 DEF LinkTypeOK
    <3>2. QED
      BY <2>1, <2>2, <2>4, <3>1, RefusedInv
  <2>5. QED
    BY <2>3, <2>4
<1>8. ASSUME NEW h \in Handlers, KeyDerived(h) PROVE LinkInv'
  BY <1>8 DEF KeyDerived, openVars, peerVars, LinkTypeOK
<1>9. ASSUME NEW h \in Handlers, Established(h) PROVE LinkInv'
  <2> DEFINE c == hlink[h]
  <2>1. /\ c \in Callers /\ c \in proved /\ c \in asked
        /\ c \notin gone => status[c] = "ACTIVE"
        /\ step[c] \notin {"path", "id"}
    BY <1>9 DEF Established, LinkTypeOK
  <2>2. /\ UNCHANGED <<step, status, asked, proved, gone>>
        /\ pend' = pend \ {c} /\ patience' = patience \ {c}
        /\ links' = links \cup {c}
        /\ hpc' = [hpc EXCEPT ![h] = "idle"]
        /\ hlink' = [hlink EXCEPT ![h] = NoHandler]
    BY <1>9 DEF Established, StoreLink, Release, peerVars
  <2>3. \A d \in Callers : d # c => promise'[d] = promise[d]
    BY <1>9, Settled DEF Established
  <2> HIDE DEF c
  <2>4. Unopened' /\ ResolvedIsProved' /\ AwaitedIsTimed'
    BY <2>1, <2>2, <2>3 DEF LinkTypeOK
  <2>5. HandledIsProved' /\ LinkIsMutual' /\ ResolvedIsUsable'
    BY <2>1, <2>2, <2>3 DEF LinkTypeOK
  <2>6. QED
    BY <2>4, <2>5
<1>10. ASSUME NEW c \in Callers, CloseLink(c) PROVE LinkInv'
  BY <1>10 DEF CloseLink, openVars, handVars, LinkTypeOK
<1>11. ASSUME NEW c \in Callers, Respond(c) PROVE LinkInv'
  BY <1>11 DEF Respond, openVars, mapVars, handVars
<1>12. CASE LinksLost
  <2>1. /\ \A d \in Callers :
             /\ promise'[d] = "resolved" <=> promise[d] = "resolved"
             /\ d \notin pend => promise'[d] = promise[d]
        /\ UNCHANGED <<step, status, hpc, hlink, asked, proved>>
        /\ pend' = {} /\ patience' = patience \ pend /\ links' = {}
        /\ gone' = gone \cup asked
    BY <1>12, Settled DEF LinksLost, handVars, LinkTypeOK
  <2>2. QED
    BY <2>1 DEF LinkTypeOK
<1>13. CASE UNCHANGED vars
  BY <1>13 DEF vars, linkVars, openVars, mapVars, handVars, peerVars
<1>14. QED
  BY <1>1, <1>2, <1>3, <1>4, <1>5, <1>6, <1>7, <1>8, <1>9, <1>10, <1>11, <1>12,
     <1>13 DEF Next, Open, Handle

(* Types and the inductive invariant hold in every reachable state.         *)
LEMMA LinkInvariant == Spec => [](LinkTypeOK /\ LinkInv)
<1>1. Init => LinkTypeOK /\ LinkInv
  BY LinkInitType, LinkInitInv
<1>2. LinkTypeOK /\ LinkInv /\ [Next]_vars => (LinkTypeOK /\ LinkInv)'
  BY LinkNextType, LinkNextInv
<1>3. QED
  BY <1>1, <1>2, PTL DEF Spec

(* Every variable of the link openings keeps its type.                      *)
THEOREM LinkTypeCorrect == Spec => []LinkTypeOK
  BY LinkInvariant, PTL

(* An awaited establishment always has its timer and an open promise.       *)
THEOREM AwaitedCorrect == Spec => []AwaitedIsTimed
<1>1. LinkInv => AwaitedIsTimed
  BY DEF LinkInv
<1>2. QED
  BY <1>1, LinkInvariant, PTL

(* A link that was handed over is active and listed until it is closed or   *)
(* the transport is lost.                                                   *)
THEOREM UsableCorrect == Spec => []ResolvedIsUsable
<1>1. LinkInv => ResolvedIsUsable
  BY DEF LinkInv
<1>2. QED
  BY <1>1, LinkInvariant, PTL

(* A listed link is one the responder has.                                  *)
THEOREM MutualCorrect == Spec => []LinkIsMutual
<1>1. LinkInv => LinkIsMutual
  BY DEF LinkInv
<1>2. QED
  BY <1>1, LinkInvariant, PTL
=============================================================================
