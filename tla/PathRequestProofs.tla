--------------------------- MODULE PathRequestProofs ---------------------------
(***************************************************************************)
(* Type correctness of PathRequest, its inductive invariant, and that an    *)
(* answer to the owner of an entry is one to all that joined it, for any    *)
(* number of callers.                                                       *)
(***************************************************************************)
EXTENDS PathRequest, TLAPS

(* Each step keeps the types, and an entry has an owner exactly while it    *)
(* has someone to resolve.                                                  *)
LEMMA PathNextType == PathTypeOK /\ [PathNext]_pathVars => PathTypeOK'
<1> SUFFICES ASSUME PathTypeOK, [PathNext]_pathVars PROVE PathTypeOK'
  OBVIOUS
<1> USE PathAssumption DEF PathTypeOK, Answered, NoEntry
<1>1. ASSUME NEW c \in Callers, RequestPath(c) PROVE PathTypeOK'
  BY <1>1 DEF RequestPath
<1>2. ASSUME NEW c \in Callers, RequestSent(c) PROVE PathTypeOK'
  BY <1>2 DEF RequestSent, Register
<1>3. ASSUME NEW c \in Callers, RequestThrows(c) PROVE PathTypeOK'
  BY <1>3 DEF RequestThrows
<1>4. ASSUME NEW c \in Callers, PathTimeout(c) PROVE PathTypeOK'
  BY <1>4 DEF PathTimeout, Expire
<1>5. ASSUME NEW c \in Callers, Leave(c) PROVE PathTypeOK'
  BY <1>5 DEF Leave
<1>6. CASE Paths
  <2>1. CASE AnnounceArrives
    BY <2>1 DEF AnnounceArrives
  <2>2. CASE AnnounceRejected
    BY <2>2 DEF AnnounceRejected
  <2>3. CASE TrackPath
    BY <2>3 DEF TrackPath, Resolve
  <2>4. CASE PathEvicted
    BY <2>4 DEF PathEvicted
  <2>5. QED
    BY <1>6, <2>1, <2>2, <2>3, <2>4 DEF Paths
<1>7. CASE RadioUp \/ RadioStop \/ TransportLost
  <2>1. CASE RadioUp
    BY <2>1 DEF RadioUp
  <2>2. CASE RadioStop
    BY <2>2 DEF RadioStop
  <2>3. CASE TransportLost
    BY <2>3 DEF TransportLost
  <2>4. QED
    BY <1>7, <2>1, <2>2, <2>3
<1>8. CASE UNCHANGED pathVars
  <2>1. /\ radioOn' = radioOn /\ known' = known /\ verifying' = verifying
        /\ dropped' = dropped /\ entry' = entry /\ timers' = timers
        /\ call' = call
    BY <1>8 DEF pathVars
  <2>2. QED
    BY <2>1
<1>9. QED
  BY <1>1, <1>2, <1>3, <1>4, <1>5, <1>6, <1>7, <1>8 DEF PathNext, Request

(* The initial state is well typed.                                         *)
LEMMA PathInitType == PathInit => PathTypeOK
<1> SUFFICES ASSUME PathInit PROVE PathTypeOK
  OBVIOUS
<1>1. entry.owner = NoCaller /\ entry.chain = {}
  BY DEF PathInit, NoEntry
<1>2. entry \in [owner : Callers \cup {NoCaller}, chain : SUBSET Callers]
  BY DEF PathInit, NoEntry
<1>3. QED
  BY <1>1, <1>2 DEF PathInit, PathTypeOK

(* Every variable of the path requests keeps its type.                      *)
THEOREM PathTypeCorrect == PathSpec => []PathTypeOK
  BY PathInitType, PathNextType, PTL DEF PathSpec

-----------------------------------------------------------------------------
(***************************************************************************)
(* An entry is live because no timer waits for a caller that has its        *)
(* answer, and conversely: the two are inductive only together.             *)
(***************************************************************************)
PathInv == EntryIsLive /\ TimersAwaited

(* Each step keeps the inductive invariant; one step per action.            *)
LEMMA PathNextInv ==
  PathTypeOK /\ PathInv /\ [PathNext]_pathVars => PathInv'
<1> SUFFICES ASSUME PathTypeOK, PathInv, [PathNext]_pathVars PROVE PathInv'
  OBVIOUS
<1> USE PathAssumption
      DEF PathTypeOK, PathInv, EntryIsLive, TimersAwaited, NoEntry, Answered
<1>1. ASSUME NEW c \in Callers, RequestPath(c) PROVE PathInv'
  <2>1. c \notin timers
    BY <1>1 DEF RequestPath
  <2>2. CASE ~known /\ entry # NoEntry
    <3>1. /\ entry'.owner = entry.owner
          /\ entry'.chain = entry.chain \cup {c}
          /\ timers' = timers
          /\ call' = [call EXCEPT ![c] = "waiting"]
      BY <1>1, <2>2 DEF RequestPath
    <3>2. QED
      BY <2>1, <2>2, <3>1
  <2>3. CASE known \/ entry = NoEntry
    <3>1. /\ entry' = entry /\ timers' = timers
          /\ call[c] = "idle"
          /\ \A d \in Callers : d # c => call'[d] = call[d]
      BY <1>1, <2>3 DEF RequestPath
    <3>2. QED
      BY <2>1, <3>1
  <2>4. QED
    BY <2>2, <2>3
<1>2. ASSUME NEW c \in Callers, RequestSent(c) PROVE PathInv'
  BY <1>2 DEF RequestSent, Register
<1>3. ASSUME NEW c \in Callers, RequestThrows(c) PROVE PathInv'
  BY <1>3 DEF RequestThrows
<1>4. ASSUME NEW c \in Callers, PathTimeout(c) PROVE PathInv'
  BY <1>4 DEF PathTimeout, Expire
<1>5. ASSUME NEW c \in Callers, Leave(c) PROVE PathInv'
  BY <1>5 DEF Leave
<1>6. CASE TrackPath
  (* The one timer among those answered is the owner's, and it is cleared.  *)
  <2>1. timers' \cap entry.chain = {}
    BY <1>6 DEF TrackPath
  <2>2. QED
    BY <1>6, <2>1 DEF TrackPath, Resolve
<1>7. CASE AnnounceArrives \/ AnnounceRejected \/ PathEvicted
  BY <1>7 DEF AnnounceArrives, AnnounceRejected, PathEvicted
<1>8. CASE RadioUp \/ RadioStop \/ TransportLost
  BY <1>8 DEF RadioUp, RadioStop, TransportLost
<1>9. CASE UNCHANGED pathVars
  BY <1>9 DEF pathVars
<1>10. QED
  BY <1>1, <1>2, <1>3, <1>4, <1>5, <1>6, <1>7, <1>8, <1>9
  DEF PathNext, Request, Paths

(* Initially there is no entry and no timer.                                *)
LEMMA PathInitInv == PathInit => PathInv
  BY DEF PathInit, PathInv, EntryIsLive, TimersAwaited

(* An entry of pendingPathRequests always has a timer that will remove it,  *)
(* and everyone it will resolve is still waiting.                           *)
THEOREM EntryCorrect == PathSpec => []EntryIsLive
<1>1. PathInv => EntryIsLive
  BY DEF PathInv
<1>2. QED
  BY <1>1, PathInitInv, PathNextInv, PathTypeCorrect, PTL DEF PathSpec

(* No timer overrides the answer a caller has got.                          *)
THEOREM TimersCorrect == PathSpec => []TimersAwaited
<1>1. PathInv => TimersAwaited
  BY DEF PathInv
<1>2. QED
  BY <1>1, PathInitInv, PathNextInv, PathTypeCorrect, PTL DEF PathSpec

(* When the owner of an entry is told of a path, so are all that joined it. *)
THEOREM JoinersCorrect == PathSpec => JoinersAnswered
<1> DEFINE Step ==
      \A c, d \in Callers :
        /\ entry # NoEntry /\ c = entry.owner /\ d \in entry.chain
        /\ call'[c] = "true"
        => call'[d] = "true"
<1>1. PathTypeOK /\ PathInv /\ [PathNext]_pathVars => [Step]_pathVars
  <2> SUFFICES ASSUME PathTypeOK, PathInv, PathNext,
                      NEW c \in Callers, NEW d \in entry.chain,
                      entry # NoEntry, c = entry.owner, call'[c] = "true"
               PROVE call'[d] = "true"
    OBVIOUS
  <2> USE DEF PathTypeOK, PathInv, EntryIsLive
  <2>1. call[c] = "waiting" /\ d \in Callers
    OBVIOUS
  <2>2. CASE TrackPath
    BY <2>1, <2>2 DEF TrackPath, Resolve
  <2>3. CASE AnnounceArrives \/ AnnounceRejected \/ PathEvicted
             \/ RadioUp \/ RadioStop \/ TransportLost
    BY <2>1, <2>3 DEF AnnounceArrives, AnnounceRejected, PathEvicted,
                      RadioUp, RadioStop, TransportLost
  <2>4. ASSUME NEW e \in Callers, Request(e) \/ Leave(e)
        PROVE call'[c] # "true"
    BY <2>1, <2>4 DEF Request, RequestPath, RequestSent, RequestThrows,
                      PathTimeout, Leave, Answered
  <2>5. QED
    BY <2>2, <2>3, <2>4 DEF PathNext, Paths
<1>2. QED
  BY <1>1, PathInitInv, PathNextInv, PathTypeCorrect, PTL
  DEF PathSpec, JoinersAnswered
=============================================================================
