----------------------------- MODULE RequestsProofs -----------------------------
(***************************************************************************)
(* Proofs about the components that wait for an answer: what a propagation  *)
(* node purges was in the client's hands, a flash that is reported complete *)
(* is whole, a request pending in the configuration client and a callback   *)
(* of the RNode's have their caller, and a bridge counts the connections it *)
(* admits, for any number of each; then that their composition is typed.    *)
(***************************************************************************)
EXTENDS MCRequests, PathRequestProofs, SequenceTheorems, FiniteSetTheorems, TLAPS

(***************************************************************************)
(* The sync. What a call has seen, acknowledges now or will acknowledge was *)
(* tried, and so was what the local storage has.                            *)
(***************************************************************************)
SyncCalls ==
  [at : {"no", "picking", "opening", "stuck", "building", "waiting", "ingesting", "done"},
   round : Rounds, fresh : SUBSET Blobs, acks : SUBSET Blobs, seen : SUBSET Blobs,
   wanted : SUBSET Blobs, acked : SUBSET Blobs, bundle : SUBSET Blobs]

HandledWasTried ==
  /\ kept \subseteq tried
  /\ \A s \in Syncs : sync[s].acks \cup sync[s].seen \cup sync[s].acked \subseteq tried

PnInv == PnTypeOK /\ HandledWasTried /\ PurgedWasTried

LEMMA SyncTyped == PnTypeOK => sync \in [Syncs -> SyncCalls]
  BY DEF PnTypeOK, SyncCalls

LEMMA RoundsTyped == 0 \in Rounds /\ None \notin Rounds /\ Rounds \subseteq Nat
  BY PnAssumption DEF Rounds, None

LEMMA OverTyped ==
  /\ NotBegun \in SyncCalls /\ Over \in SyncCalls
  /\ Over.at = "done" /\ Over.acks = {} /\ Over.seen = {} /\ Over.acked = {}
  /\ NotBegun.at = "no" /\ NotBegun.acks = {} /\ NotBegun.seen = {} /\ NotBegun.acked = {}
  BY RoundsTyped DEF SyncCalls, NotBegun, Over

LEMMA PnInitial == PnInit => PnInv
<1> SUFFICES ASSUME PnInit PROVE PnInv
  OBVIOUS
<1>1. sync \in [Syncs -> SyncCalls] /\ \A s \in Syncs : sync[s] = NotBegun
  BY OverTyped DEF PnInit
<1>2. PnTypeOK
  BY <1>1, RoundsTyped DEF PnInit, PnTypeOK, SyncCalls, NoReply
<1>3. HandledWasTried
  BY <1>1, OverTyped DEF PnInit, HandledWasTried
<1> QED
  BY <1>2, <1>3 DEF PnInit, PnInv, PurgedWasTried

(* A sync that ends leaves the others as they are, whatever it held.        *)
LEMMA EndKeeps ==
  ASSUME PnTypeOK, HandledWasTried, PurgedWasTried, NEW s \in Syncs, EndSync(s),
         tried \subseteq tried', tried' \subseteq Blobs, kept' \subseteq tried',
         UNCHANGED <<online, held, late>>
  PROVE  PnInv'
<1>1. sync' = [sync EXCEPT ![s] = Over] /\ sync' \in [Syncs -> SyncCalls]
  BY SyncTyped, OverTyped DEF EndSync
<1>2. \A t \in Syncs : sync'[t] = IF t = s THEN Over ELSE sync[t]
  BY <1>1, SyncTyped
<1>3. PnTypeOK'
  <2>1. pnding' \in [Syncs -> Rounds \cup {None}]
        /\ \A t \in Syncs : pnding'[t] = IF t = s THEN None ELSE pnding[t]
    BY DEF EndSync, PnTypeOK
  <2>2. \A t \in Syncs : pnding'[t] # None => At(t, "waiting")' /\ pnding'[t] = sync'[t].round
    BY <1>2, <2>1 DEF PnTypeOK, At
  <2>3. writes' \in [Syncs -> SUBSET Rounds]
        /\ reply' \in [Syncs -> [round : Rounds \cup {None}, ids : SUBSET Blobs]]
    BY DEF EndSync, PnTypeOK, NoReply
  <2>4. {online, syncing, late}' \subseteq BOOLEAN
        /\ kept' \subseteq Blobs /\ held' \subseteq Blobs
    BY DEF EndSync, PnTypeOK
  <2> QED
    BY <1>1, <2>1, <2>2, <2>3, <2>4 DEF PnTypeOK, SyncCalls
<1>4. HandledWasTried'
  BY <1>2, OverTyped DEF HandledWasTried
<1> QED
  BY <1>3, <1>4 DEF PnInv, PurgedWasTried

(* So does one whose loop goes on, if what it has seen and will acknowledge *)
(* was tried.                                                               *)
LEMMA ContinueKeeps ==
  ASSUME PnTypeOK, HandledWasTried, PurgedWasTried, NEW s \in Syncs,
         NEW fresh \in SUBSET Blobs, NEW toAck \in SUBSET Blobs, NEW seen \in SUBSET Blobs,
         tried \subseteq tried', tried' \subseteq Blobs, toAck \cup seen \subseteq tried',
         UNCHANGED <<online, held, late>>,
         Continue(s, fresh, toAck, seen)
  PROVE  PnInv'
<1> DEFINE More == (fresh # {} \/ toAck # {}) /\ sync[s].round < MaxRounds
<1>1. CASE More
  <2>1. PICK w \in Batch(fresh), a \in Batch(toAck) :
          sync' = [sync EXCEPT ![s] =
            [at |-> "building", round |-> sync[s].round + 1,
             fresh |-> fresh \ w, acks |-> toAck \ a, seen |-> seen,
             wanted |-> w, acked |-> a, bundle |-> {}]]
    BY <1>1 DEF Continue
  <2>2. w \subseteq fresh /\ a \subseteq toAck
    BY DEF Batch
  <2> DEFINE next == [at |-> "building", round |-> sync[s].round + 1,
                      fresh |-> fresh \ w, acks |-> toAck \ a, seen |-> seen,
                      wanted |-> w, acked |-> a, bundle |-> {}]
  <2>3. sync[s].round \in Rounds /\ sync[s].round + 1 \in Rounds
    <3>1. sync[s].round \in 0..MaxRounds
      BY SyncTyped DEF SyncCalls, Rounds
    <3> QED
      BY <1>1, <3>1, PnAssumption DEF Rounds
  <2>4. next \in SyncCalls /\ next.acks \cup next.seen \cup next.acked \subseteq tried'
    BY <2>2, <2>3 DEF SyncCalls
  <2>5. sync' = [sync EXCEPT ![s] = next]
    BY <2>1
  <2> HIDE DEF next
  <2>6. sync' \in [Syncs -> SyncCalls]
        /\ \A t \in Syncs : sync'[t] = IF t = s THEN next ELSE sync[t]
    BY <2>4, <2>5, SyncTyped
  <2>7. /\ pnding' = [pnding EXCEPT ![s] = None] /\ reply' = [reply EXCEPT ![s] = NoReply]
        /\ UNCHANGED <<syncing, kept, writes>>
    BY <1>1 DEF Continue
  <2>8. PnTypeOK'
    BY <2>6, <2>7 DEF PnTypeOK, SyncCalls, NoReply, At
  <2>9. HandledWasTried'
    BY <2>4, <2>6, <2>7 DEF HandledWasTried
  <2> QED
    BY <2>8, <2>9 DEF PnInv, PurgedWasTried
<1>2. CASE ~More
  <2>1. EndSync(s) /\ kept' = seen
    BY <1>2 DEF Continue
  <2> QED
    BY <2>1, EndKeeps
<1> QED
  BY <1>1, <1>2

(* A step of one call that changes only its place, where no request waits.  *)
LEMMA MovesKeep ==
  ASSUME PnInv, NEW s \in Syncs, NEW to \in {"picking", "opening", "building"},
         sync' = [sync EXCEPT ![s].at = to], ~At(s, "waiting"),
         syncing' \in BOOLEAN, UNCHANGED <<online, kept, pnding, wireVars, tried, late>>
  PROVE  PnInv'
<1> USE DEF PnInv, wireVars
<1> DEFINE next == [sync[s] EXCEPT !.at = to]
<1>1. sync[s] \in SyncCalls
  BY SyncTyped
<1>2. next \in SyncCalls /\ next.acks = sync[s].acks /\ next.seen = sync[s].seen
      /\ next.acked = sync[s].acked
  BY <1>1 DEF SyncCalls
<1>3. sync' = [sync EXCEPT ![s] = next]
  OBVIOUS
<1> HIDE DEF next
<1>4. /\ sync' \in [Syncs -> SyncCalls]
      /\ \A t \in Syncs : sync'[t] = IF t = s THEN next ELSE sync[t]
  BY <1>2, <1>3, SyncTyped
<1>5. PnTypeOK'
  BY <1>4 DEF PnTypeOK, SyncCalls, At
<1>6. HandledWasTried'
  BY <1>2, <1>4 DEF HandledWasTried
<1> QED
  BY <1>5, <1>6 DEF PurgedWasTried

LEMMA PnStepKeeps == PnInv /\ [PnNext]_pnVars => PnInv'
<1> SUFFICES ASSUME PnInv, [PnNext]_pnVars PROVE PnInv'
  OBVIOUS
<1> USE DEF PnInv
<1>1. ASSUME NEW s \in Syncs, SyncBegins(s) PROVE PnInv'
  BY <1>1, MovesKeep DEF SyncBegins, At, PnTypeOK
<1>2. ASSUME NEW s \in Syncs, NodePicked(s) PROVE PnInv'
  <2>1. CASE NoNode(s)
    <3>1. sync' = [sync EXCEPT ![s] = Over] /\ UNCHANGED syncing
      BY <2>1 DEF NoNode
    <3>2. /\ sync' \in [Syncs -> SyncCalls]
          /\ \A t \in Syncs : sync'[t] = IF t = s THEN Over ELSE sync[t]
      BY <3>1, SyncTyped, OverTyped
    <3>3. PnTypeOK'
      BY <1>2, <3>1, <3>2 DEF NodePicked, wireVars, PnTypeOK, SyncCalls, At
    <3>4. HandledWasTried'
      BY <1>2, <3>2, OverTyped DEF NodePicked, HandledWasTried
    <3> QED
      BY <1>2, <3>3, <3>4 DEF NodePicked, wireVars, PurgedWasTried
  <2>2. CASE sync' = [sync EXCEPT ![s].at = "opening"] /\ syncing' = TRUE
    BY <1>2, <2>2, MovesKeep DEF NodePicked, At
  <2> QED
    BY <1>2, <2>1, <2>2 DEF NodePicked
<1>3. ASSUME NEW s \in Syncs, LinkOpened(s) PROVE PnInv'
  BY <1>3, MovesKeep DEF LinkOpened, At, PnTypeOK
<1>4. ASSUME NEW s \in Syncs, OpeningFails(s) \/ RequestTimesOut(s) \/ AnswerIsError(s)
      PROVE  PnInv'
  <2>1. EndSync(s) /\ UNCHANGED <<online, kept, held, tried, late>>
    BY <1>4 DEF OpeningFails, RequestTimesOut, AnswerIsError
  <2> QED
    BY <2>1, EndKeeps DEF PnTypeOK, HandledWasTried
<1>5. ASSUME NEW s \in Syncs, RequestBuilt(s) PROVE PnInv'
  <2> DEFINE next == [sync[s] EXCEPT !.at = "waiting"]
  <2>1. sync[s] \in SyncCalls
    BY SyncTyped
  <2>2. next \in SyncCalls /\ next.acks = sync[s].acks /\ next.seen = sync[s].seen
        /\ next.acked = sync[s].acked /\ next.at = "waiting" /\ next.round = sync[s].round
    BY <2>1 DEF SyncCalls
  <2>3. sync' = [sync EXCEPT ![s] = next]
    BY <1>5 DEF RequestBuilt
  <2> HIDE DEF next
  <2>4. /\ sync' \in [Syncs -> SyncCalls]
        /\ \A t \in Syncs : sync'[t] = IF t = s THEN next ELSE sync[t]
    BY <2>2, <2>3, SyncTyped
  <2>5. sync[s].round \in Rounds
    BY <2>1 DEF SyncCalls
  <2>6. pnding' \in [Syncs -> Rounds \cup {None}]
        /\ \A t \in Syncs : pnding'[t] = IF t = s THEN sync[s].round ELSE pnding[t]
    BY <1>5, <2>5 DEF RequestBuilt, Armed, PnTypeOK
  <2>7. writes' \in [Syncs -> SUBSET Rounds]
    BY <1>5, <2>5 DEF RequestBuilt, PnTypeOK
  <2>8. \A t \in Syncs : pnding'[t] # None => At(t, "waiting")' /\ pnding'[t] = sync'[t].round
    BY <2>2, <2>4, <2>6 DEF PnTypeOK, At
  <2>9. PnTypeOK'
    BY <1>5, <2>4, <2>6, <2>7, <2>8 DEF RequestBuilt, PnTypeOK, SyncCalls
  <2>10. HandledWasTried'
    BY <1>5, <2>2, <2>4 DEF RequestBuilt, HandledWasTried
  <2> QED
    BY <1>5, <2>9, <2>10 DEF RequestBuilt, PurgedWasTried
<1>6. ASSUME NEW s \in Syncs, WriteSucceeds(s) PROVE PnInv'
  BY <1>6 DEF WriteSucceeds, PnTypeOK, At, HandledWasTried, PurgedWasTried
<1>7. ASSUME NEW s \in Syncs, WriteFails(s) PROVE PnInv'
  <2>1. CASE EndSync(s) /\ UNCHANGED late
    BY <1>7, <2>1, EndKeeps DEF WriteFails, PnTypeOK, HandledWasTried
  <2>2. ASSUME NEW r \in writes[s],
               /\ writes' = [writes EXCEPT ![s] = writes[s] \ {r}]
               /\ pnding' = [pnding EXCEPT ![s] = None]
               /\ late' \in BOOLEAN
               /\ UNCHANGED <<sync, syncing, reply>>
        PROVE  PnInv'
    BY <1>7, <2>2 DEF WriteFails, PnTypeOK, At, HandledWasTried, PurgedWasTried
  <2>3. (late \/ pnding[s] # None) \in BOOLEAN
    OBVIOUS
  <2> QED
    BY <1>7, <2>1, <2>2, <2>3 DEF WriteFails
<1>8. ASSUME NEW s \in Syncs, NodeAnswers(s) PROVE PnInv'
  <2>1. PICK ids \in SUBSET (IF sync[s].round = 0 THEN held ELSE sync[s].wanted \cap held) :
          reply' = [reply EXCEPT ![s] = [round |-> sync[s].round, ids |-> ids]]
    BY <1>8 DEF NodeAnswers
  <2>2. sync[s].round \in Rounds /\ ids \subseteq Blobs
    BY <2>1, SyncTyped DEF PnTypeOK, SyncCalls
  <2>3. reply' \in [Syncs -> [round : Rounds \cup {None}, ids : SUBSET Blobs]]
    BY <2>1, <2>2 DEF PnTypeOK
  <2>4. PnTypeOK'
    BY <1>8, <2>3 DEF NodeAnswers, PnTypeOK, At
  <2> QED
    BY <1>8, <2>4 DEF NodeAnswers, HandledWasTried, PurgedWasTried
<1>9. ASSUME NEW s \in Syncs, ListingArrives(s) PROVE PnInv'
  <2> DEFINE fresh == reply[s].ids \ kept
             toAck == reply[s].ids \cap kept
  <2>1. fresh \in SUBSET Blobs /\ toAck \in SUBSET Blobs /\ kept \in SUBSET Blobs
    BY DEF PnTypeOK
  <2>2. Continue(s, fresh, toAck, kept) /\ UNCHANGED <<online, held, tried, late>>
    BY <1>9 DEF ListingArrives
  <2>3. toAck \cup kept \subseteq tried' /\ tried \subseteq tried' /\ tried' \subseteq Blobs
    BY <2>2 DEF PnTypeOK, HandledWasTried
  <2> HIDE DEF fresh, toAck
  <2> QED
    BY <2>1, <2>2, <2>3, ContinueKeeps
<1>10. ASSUME NEW s \in Syncs, BundleArrives(s) PROVE PnInv'
  <2>1. sync[s] \in SyncCalls /\ reply[s].ids \subseteq Blobs
    BY SyncTyped DEF PnTypeOK
  <2>2. sync[s].fresh \subseteq Blobs /\ sync[s].acks \subseteq Blobs
        /\ sync[s].seen \subseteq Blobs
    BY <2>1 DEF SyncCalls
  <2>3. CASE Continue(s, sync[s].fresh, AckedSoFar(s), sync[s].seen)
    <3>1. UNCHANGED <<online, held, tried, late>>
      BY <1>10 DEF BundleArrives
    <3>2. AckedSoFar(s) \cup sync[s].seen \subseteq tried' /\ AckedSoFar(s) \in SUBSET Blobs
          /\ tried \subseteq tried' /\ tried' \subseteq Blobs
      BY <2>2, <3>1 DEF AckedSoFar, HandledWasTried, PnTypeOK
    <3> QED
      BY <2>2, <2>3, <3>1, <3>2, ContinueKeeps
  <2>4. CASE ~Continue(s, sync[s].fresh, AckedSoFar(s), sync[s].seen)
    <3> DEFINE next == [sync[s] EXCEPT !.at = "ingesting", !.bundle = reply[s].ids]
    <3>1. next \in SyncCalls /\ next.acks = sync[s].acks /\ next.seen = sync[s].seen
          /\ next.acked = sync[s].acked
      BY <2>1 DEF SyncCalls
    <3>2. /\ sync' = [sync EXCEPT ![s] = next]
          /\ pnding' = [pnding EXCEPT ![s] = None]
          /\ reply' = [reply EXCEPT ![s] = NoReply]
          /\ UNCHANGED <<online, syncing, kept, writes, held, tried, late>>
      BY <1>10, <2>4 DEF BundleArrives
    <3> HIDE DEF next
    <3>3. sync' \in [Syncs -> SyncCalls]
          /\ \A t \in Syncs : sync'[t] = IF t = s THEN next ELSE sync[t]
      BY <3>1, <3>2, SyncTyped
    <3>4. PnTypeOK'
      BY <3>2, <3>3 DEF PnTypeOK, SyncCalls, NoReply, At
    <3>5. HandledWasTried'
      BY <3>1, <3>2, <3>3 DEF HandledWasTried
    <3> QED
      BY <3>2, <3>4, <3>5 DEF PurgedWasTried
  <2> QED
    BY <2>3, <2>4
<1>11. ASSUME NEW s \in Syncs, BlobIngested(s) PROVE PnInv'
  <2>1. sync[s] \in SyncCalls
    BY SyncTyped
  <2>2. sync[s].fresh \subseteq Blobs /\ sync[s].acks \subseteq Blobs
        /\ sync[s].seen \subseteq Blobs /\ sync[s].bundle \subseteq Blobs
    BY <2>1 DEF SyncCalls
  <2>3. PICK b \in sync[s].bundle, ids \in SUBSET sync[s].bundle :
          /\ ids \subseteq {b} /\ tried' = tried \cup {b}
          /\ IF sync[s].bundle \ {b} = {}
               THEN Continue(s, sync[s].fresh, AckedSoFar(s) \cup ids, sync[s].seen \cup ids)
               ELSE /\ sync' = [sync EXCEPT ![s].bundle = sync[s].bundle \ {b},
                                            ![s].seen = sync[s].seen \cup ids,
                                            ![s].acks = AckedSoFar(s) \cup ids]
                    /\ UNCHANGED <<pnding, syncing, kept, writes, reply>>
    <3>1. PICK b \in sync[s].bundle, identified \in BOOLEAN :
            LET ids == IF identified THEN {b} ELSE {}
            IN /\ tried' = tried \cup {b}
               /\ IF sync[s].bundle \ {b} = {}
                    THEN Continue(s, sync[s].fresh, AckedSoFar(s) \cup ids, sync[s].seen \cup ids)
                    ELSE /\ sync' = [sync EXCEPT ![s].bundle = sync[s].bundle \ {b},
                                                 ![s].seen = sync[s].seen \cup ids,
                                                 ![s].acks = AckedSoFar(s) \cup ids]
                         /\ UNCHANGED <<pnding, syncing, kept, writes, reply>>
      BY <1>11 DEF BlobIngested
    <3>2. /\ (IF identified THEN {b} ELSE {}) \subseteq {b}
          /\ (IF identified THEN {b} ELSE {}) \in SUBSET sync[s].bundle
      OBVIOUS
    <3> QED
      BY <3>1, <3>2
  <2> DEFINE toAck == AckedSoFar(s) \cup ids
             seen == sync[s].seen \cup ids
  <2>4. toAck \in SUBSET Blobs /\ seen \in SUBSET Blobs /\ toAck \cup seen \subseteq tried'
        /\ tried \subseteq tried' /\ tried' \subseteq Blobs
    BY <2>2, <2>3 DEF AckedSoFar, HandledWasTried, PnTypeOK
  <2>5. UNCHANGED <<online, held, late>>
    BY <1>11 DEF BlobIngested
  <2>6. CASE Continue(s, sync[s].fresh, toAck, seen)
    <3> HIDE DEF toAck, seen
    <3> QED
      BY <2>2, <2>4, <2>5, <2>6, ContinueKeeps
  <2>7. CASE ~Continue(s, sync[s].fresh, toAck, seen)
    <3> DEFINE next == [sync[s] EXCEPT !.bundle = sync[s].bundle \ {b}, !.seen = seen,
                                       !.acks = toAck]
    <3>1. /\ sync' = [sync EXCEPT ![s] = next]
          /\ UNCHANGED <<pnding, syncing, kept, writes, reply>>
      BY <2>3, <2>7
    <3> HIDE DEF toAck, seen
    <3>2. next \in SyncCalls /\ next.acks = toAck /\ next.seen = seen
          /\ next.acked = sync[s].acked /\ next.at = sync[s].at /\ next.round = sync[s].round
      BY <2>1, <2>2, <2>4 DEF SyncCalls
    <3> HIDE DEF next
    <3>3. sync' \in [Syncs -> SyncCalls]
          /\ \A t \in Syncs : sync'[t] = IF t = s THEN next ELSE sync[t]
      BY <3>1, <3>2, SyncTyped
    <3>4. \A t \in Syncs : pnding'[t] # None => At(t, "waiting")' /\ pnding'[t] = sync'[t].round
      BY <3>1, <3>2, <3>3 DEF PnTypeOK, At
    <3>5. PnTypeOK'
      BY <2>4, <2>5, <3>1, <3>3, <3>4 DEF PnTypeOK, SyncCalls
    <3>6. HandledWasTried'
      BY <2>4, <3>1, <3>2, <3>3 DEF HandledWasTried
    <3> QED
      BY <2>4, <2>5, <3>5, <3>6 DEF PurgedWasTried
  <2> QED
    BY <2>6, <2>7
<1>12. CASE LosesTransport
  <2>1. PICK S \in SUBSET {s \in Syncs : At(s, "opening")} :
          sync' = [s \in Syncs |-> IF s \in S THEN [sync[s] EXCEPT !.at = "stuck"] ELSE sync[s]]
    BY <1>12 DEF LosesTransport
  <2>2. \A s \in S : /\ [sync[s] EXCEPT !.at = "stuck"] \in SyncCalls
                     /\ [sync[s] EXCEPT !.at = "stuck"].acks = sync[s].acks
                     /\ [sync[s] EXCEPT !.at = "stuck"].seen = sync[s].seen
                     /\ [sync[s] EXCEPT !.at = "stuck"].acked = sync[s].acked
                     /\ pnding[s] = None
    <3>1. \A s \in S : s \in Syncs /\ sync[s] \in SyncCalls /\ sync[s].at = "opening"
      BY SyncTyped DEF At
    <3>2. \A s \in S : pnding[s] = None
      BY <3>1 DEF PnTypeOK, At
    <3> QED
      BY <3>1, <3>2 DEF SyncCalls
  <2>3. sync' \in [Syncs -> SyncCalls]
    BY <2>1, <2>2, SyncTyped
  <2>4. \A s \in Syncs : /\ sync'[s].acks = sync[s].acks /\ sync'[s].seen = sync[s].seen
                         /\ sync'[s].acked = sync[s].acked
                         /\ pnding[s] # None => sync'[s] = sync[s]
    BY <2>1, <2>2
  <2>5. /\ UNCHANGED <<syncing, kept, pnding, writes, reply, held, tried, late>>
        /\ online' \in BOOLEAN
    BY <1>12 DEF LosesTransport, wireVars
  <2>6. PnTypeOK'
    BY <2>3, <2>4, <2>5 DEF PnTypeOK, SyncCalls, At
  <2>7. HandledWasTried'
    BY <2>4, <2>5 DEF HandledWasTried
  <2> QED
    BY <2>5, <2>6, <2>7 DEF PurgedWasTried
<1>13. CASE UNCHANGED pnVars
  BY <1>13 DEF pnVars, PnTypeOK, At, HandledWasTried, PurgedWasTried
<1> QED
  BY <1>1, <1>2, <1>3, <1>4, <1>5, <1>6, <1>7, <1>8, <1>9, <1>10, <1>11, <1>12, <1>13
     DEF PnNext, PnStep

(* The node purges a message only after the client had it in hand: in this  *)
(* sync, another or an earlier one it was ingested, or it could not be. For *)
(* any messages, syncs, rounds and batches (pnSyncNow: ackQueue).           *)
THEOREM PurgeCorrect == PnSpec => [](PnTypeOK /\ PurgedWasTried)
<1>1. PnInv => PnTypeOK /\ PurgedWasTried
  BY DEF PnInv
<1> QED
  BY <1>1, PnInitial, PnStepKeeps, PTL DEF PnSpec

(***************************************************************************)
(* The firmware update. As long as an attempt took no acknowledgement of an *)
(* earlier one, the page and the bootloader are in step: at most one packet *)
(* of the attempt is out, behind all others; from the second packet on what *)
(* is behind it on the line is its own; and an acknowledgement of it means  *)
(* that everything up to it is written.                                     *)
(***************************************************************************)
Wrote(n) == 1..n \subseteq {written[i] : i \in DOMAIN written}

DfuBounded ==
  /\ stage # 0 => attempt >= 1
  /\ awaiting => stage # 0
  /\ outcome = "done" => stage = 0
  /\ \A i \in DOMAIN toDevice : toDevice[i].by <= attempt
  /\ \A i \in DOMAIN acks : acks[i] <= attempt

OneOut ==
  /\ \A i \in DOMAIN toDevice : toDevice[i].by = attempt =>
       awaiting /\ toDevice[i].pos = stage /\ i = Len(toDevice)
  /\ stage > Start => \A i \in DOMAIN toDevice : toDevice[i].by = attempt

InStep ==
  stage > Start =>
    /\ written # <<>> /\ Wrote(stage - 1)
    /\ Last(written) = stage - 1 \/ Last(written) = stage
    /\ ~awaiting \/ toDevice # <<>> => Last(written) = stage - 1

AckedIsWritten ==
  /\ \A i \in DOMAIN acks : acks[i] = attempt =>
       awaiting /\ toDevice = <<>> /\ written # <<>> /\ Last(written) = stage /\ Wrote(stage)
  /\ \A i, j \in DOMAIN acks : acks[i] = attempt /\ acks[j] = attempt => i = j

(* What is left on the line after success restarts nothing.                 *)
FlashStays ==
  Wrote(Stop - 1) /\ written # <<>> /\ \A i \in DOMAIN toDevice : toDevice[i].pos # Start

Synchronized == stage # 0 /\ ~foreign => OneOut /\ InStep /\ AckedIsWritten

DfuInv ==
  /\ DfuTypeOK /\ DfuBounded /\ Synchronized
  /\ outcome = "done" /\ ~foreign => FlashStays

LEMMA PositionsTyped == Stop \in Nat /\ Stop > 2 /\ Start = 1
  BY DfuAssumption DEF Stop, Start

(* Taking the first element of a queue, and adding one to it.               *)
LEMMA QueueTail ==
  ASSUME NEW S, NEW s \in Seq(S), s # <<>>
  PROVE  /\ Len(s) \in Nat /\ Len(s) >= 1 /\ DOMAIN s = 1..Len(s) /\ s[1] \in S
         /\ Head(s) = s[1] /\ Tail(s) \in Seq(S)
         /\ Len(Tail(s)) = Len(s) - 1 /\ DOMAIN Tail(s) = 1..Len(s) - 1
         /\ \A i \in 1..Len(s) - 1 : Tail(s)[i] = s[i + 1]
<1>1. Len(s) \in Nat /\ Len(s) # 0 /\ DOMAIN s = 1..Len(s)
  BY LenProperties, EmptySeq
<1>2. Head(s) \in S /\ Tail(s) \in Seq(S) /\ Len(Tail(s)) = Len(s) - 1
      /\ \A i \in 1..Len(Tail(s)) : Tail(s)[i] = s[i + 1]
  BY HeadTailProperties
<1>3. DOMAIN Tail(s) = 1..Len(Tail(s))
  BY <1>2, LenProperties
<1>4. s[1] \in S
  BY <1>1, ElementOfSeq
<1> QED
  BY <1>1, <1>2, <1>3, <1>4

LEMMA QueueAppend ==
  ASSUME NEW S, NEW s \in Seq(S), NEW e \in S
  PROVE  /\ Len(s) \in Nat /\ DOMAIN s = 1..Len(s)
         /\ Append(s, e) \in Seq(S) /\ Append(s, e) # <<>>
         /\ Len(Append(s, e)) = Len(s) + 1 /\ DOMAIN Append(s, e) = 1..Len(s) + 1
         /\ \A i \in 1..Len(s) : Append(s, e)[i] = s[i]
         /\ Append(s, e)[Len(s) + 1] = e
<1>1. Append(s, e) \in Seq(S) /\ Append(s, e) # <<>> /\ Len(Append(s, e)) = Len(s) + 1
      /\ (\A i \in 1..Len(s) : Append(s, e)[i] = s[i]) /\ Append(s, e)[Len(s) + 1] = e
  BY AppendProperties
<1> QED
  BY <1>1, LenProperties

LEMMA DfuInitial == DfuInit => DfuInv
<1> SUFFICES ASSUME DfuInit PROVE DfuInv
  OBVIOUS
<1>1. attempt \in 0..MaxAttempts
  BY DfuAssumption DEF DfuInit
<1>2. stage \in 0..Stop
  BY PositionsTyped DEF DfuInit
<1>3. awaiting \in BOOLEAN /\ foreign \in BOOLEAN
  BY DEF DfuInit
<1>4. toDevice \in Seq([by : 1..MaxAttempts, pos : Start..Stop]) /\ acks \in Seq(1..MaxAttempts)
      /\ written \in Seq(Start..Stop)
  BY EmptySeq DEF DfuInit
<1>5. DfuBounded /\ Synchronized /\ outcome = "none"
  BY DEF DfuInit, DfuBounded, Synchronized
<1> QED
  BY <1>1, <1>4, <1>5, <1>2, <1>3 DEF DfuInv, DfuTypeOK

(* What was written stays when more is appended.                            *)
LEMMA AppendWrote ==
  ASSUME NEW n \in Nat, written \in Seq(Start..Stop), NEW pos \in Start..Stop,
         written' = Append(written, pos), Wrote(n)
  PROVE  /\ Wrote(n)' /\ written' # <<>> /\ Last(written') = pos
         /\ pos = n + 1 => Wrote(pos)'
<1>1. /\ Len(written') = Len(written) + 1 /\ written'[Len(written) + 1] = pos
      /\ \A i \in 1..Len(written) : written'[i] = written[i]
      /\ DOMAIN written = 1..Len(written) /\ DOMAIN written' = 1..Len(written')
      /\ Len(written) \in Nat /\ written' # <<>>
  BY QueueAppend
<1>2. \A k \in 1..n : \E i \in DOMAIN written : written[i] = k
  BY DEF Wrote
<1>3. \A k \in 1..n : \E i \in DOMAIN written' : written'[i] = k
  BY <1>1, <1>2
<1>4. \E i \in DOMAIN written' : written'[i] = pos
  BY <1>1
<1>5. written' # <<>> /\ Last(written') = pos
  BY <1>1 DEF Last
<1>6. pos = n + 1 => \A k \in 1..pos : \E i \in DOMAIN written' : written'[i] = k
  BY <1>3, <1>4
<1> QED
  BY <1>3, <1>5, <1>6 DEF Wrote

LEMMA EndTyped ==
  ASSUME DfuTypeOK, DfuBounded, NEW result \in {"done", "failed"}, FlashEnds(result),
         UNCHANGED <<attempt, toDevice, written>>, foreign' \in BOOLEAN
  PROVE  DfuTypeOK' /\ DfuBounded'
<1>1. stage' = 0 /\ awaiting' = FALSE /\ acks' = <<>> /\ outcome' = result
  BY DEF FlashEnds, Reported
<1>2. stage' \in 0..Stop
  BY <1>1, PositionsTyped
<1>3. acks' \in Seq(1..MaxAttempts)
  BY <1>1, EmptySeq
<1>4. awaiting' \in BOOLEAN /\ outcome' \in {"none", "done", "failed"}
  BY <1>1
<1>5. attempt' \in 0..MaxAttempts /\ written' \in Seq(Start..Stop)
      /\ toDevice' \in Seq([by : 1..MaxAttempts, pos : Start..Stop])
  BY DEF DfuTypeOK
<1>6. DfuTypeOK'
  BY <1>2, <1>3, <1>4, <1>5 DEF DfuTypeOK
<1>7. DfuBounded'
  BY <1>1 DEF DfuBounded
<1> QED
  BY <1>6, <1>7

(* An attempt that fails, or ends behind its last packet.                   *)
LEMMA FlashFailed ==
  ASSUME DfuInv, FlashEnds("failed"), UNCHANGED <<attempt, toDevice, written, foreign>>
  PROVE  DfuInv'
<1>1. DfuTypeOK' /\ DfuBounded'
  BY EndTyped DEF DfuInv, DfuTypeOK
<1> QED
  BY <1>1 DEF DfuInv, FlashEnds, Reported, Synchronized

LEMMA FlashDone ==
  ASSUME DfuInv, stage = Stop, FlashEnds("done"),
         UNCHANGED <<attempt, toDevice, written, foreign>>
  PROVE  DfuInv'
<1>1. DfuTypeOK' /\ DfuBounded'
  BY EndTyped DEF DfuInv, DfuTypeOK
<1>2. stage # 0
  BY PositionsTyped DEF DfuInv, DfuTypeOK
<1>3. ASSUME ~foreign PROVE FlashStays'
  <2>1. OneOut /\ InStep
    BY <1>2, <1>3 DEF DfuInv, Synchronized
  <2>2. Wrote(Stop - 1) /\ written # <<>> /\ \A i \in DOMAIN toDevice : toDevice[i].pos = Stop
    BY <2>1, <1>2, PositionsTyped DEF OneOut, InStep
  <2>3. Stop # Start
    BY PositionsTyped
  <2> QED
    BY <2>2, <2>3 DEF FlashStays, Wrote
<1> QED
  BY <1>1, <1>3 DEF DfuInv, FlashEnds, Reported, Synchronized

LEMMA DfuStepKeeps == DfuInv /\ [DfuNext]_dfuVars => DfuInv'
<1> SUFFICES ASSUME DfuInv, [DfuNext]_dfuVars PROVE DfuInv'
  OBVIOUS
<1> USE PositionsTyped DEF DfuInv
<1>1. CASE FlashBegins
  <2>1. attempt' = attempt + 1 /\ attempt' \in 0..MaxAttempts /\ attempt \in Nat
    BY <1>1, DfuAssumption DEF FlashBegins, DfuTypeOK
  <2>2. stage' \in 0..Stop /\ stage' = 1
    BY <1>1 DEF FlashBegins
  <2>3. awaiting' \in BOOLEAN /\ foreign' \in BOOLEAN /\ outcome' = "none" /\ acks' = <<>>
    BY <1>1 DEF FlashBegins, DfuTypeOK
  <2>4. acks' \in Seq(1..MaxAttempts)
    BY <2>3, EmptySeq
  <2>5. UNCHANGED <<toDevice, written, awaiting>>
    BY <1>1 DEF FlashBegins
  <2>6. DfuTypeOK'
    BY <2>1, <2>2, <2>3, <2>4, <2>5 DEF DfuTypeOK
  <2>7. \A i \in DOMAIN toDevice : toDevice[i].by \in 1..MaxAttempts
    <3>1. \A i \in 1..Len(toDevice) : toDevice[i] \in [by : 1..MaxAttempts, pos : Start..Stop]
      BY ElementOfSeq DEF DfuTypeOK
    <3>2. DOMAIN toDevice = 1..Len(toDevice)
      BY LenProperties DEF DfuTypeOK
    <3> QED
      BY <3>1, <3>2
  <2>8. \A i \in DOMAIN toDevice' : toDevice'[i].by <= attempt'
    BY <2>1, <2>5, <2>7 DEF DfuBounded
  <2>9. DfuBounded'
    BY <1>1, <2>1, <2>2, <2>3, <2>5, <2>8 DEF FlashBegins, DfuBounded
  <2>10. \A i \in DOMAIN toDevice' : toDevice'[i].by # attempt'
    BY <2>1, <2>5, <2>7 DEF DfuBounded
  <2>11. Synchronized'
    BY <1>1, <2>10 DEF FlashBegins, Synchronized, OneOut, InStep, AckedIsWritten
  <2> QED
    BY <2>11, <2>6, <2>9, <2>3
<1>2. CASE PacketSent
  <2> DEFINE sent == [by |-> attempt, pos |-> stage]
  <2>1. sent \in [by : 1..MaxAttempts, pos : Start..Stop]
    BY <1>2 DEF PacketSent, DfuTypeOK, DfuBounded
  <2>2. toDevice' = Append(toDevice, sent) /\ sent.by = attempt /\ sent.pos = stage
    BY <1>2 DEF PacketSent
  <2> HIDE DEF sent
  <2>3. /\ toDevice' \in Seq([by : 1..MaxAttempts, pos : Start..Stop]) /\ toDevice' # <<>>
        /\ DOMAIN toDevice' = 1..Len(toDevice) + 1 /\ Len(toDevice') = Len(toDevice) + 1
        /\ \A i \in 1..Len(toDevice) : toDevice'[i] = toDevice[i]
        /\ toDevice'[Len(toDevice) + 1] = sent
        /\ DOMAIN toDevice = 1..Len(toDevice) /\ Len(toDevice) \in Nat
    <3> DEFINE P == [by : 1..MaxAttempts, pos : Start..Stop]
    <3>1. toDevice \in Seq(P) /\ sent \in P
      BY <2>1 DEF DfuTypeOK
    <3> HIDE DEF P
    <3>2. /\ toDevice' \in Seq(P) /\ toDevice' # <<>>
          /\ DOMAIN toDevice' = 1..Len(toDevice) + 1 /\ Len(toDevice') = Len(toDevice) + 1
          /\ \A i \in 1..Len(toDevice) : toDevice'[i] = toDevice[i]
          /\ toDevice'[Len(toDevice) + 1] = sent
          /\ DOMAIN toDevice = 1..Len(toDevice) /\ Len(toDevice) \in Nat
      BY <2>2, <3>1, QueueAppend
    <3> QED
      BY <3>2 DEF P
  <2>4. DfuTypeOK' /\ DfuBounded'
    BY <1>2, <2>2, <2>3 DEF PacketSent, DfuTypeOK, DfuBounded
  <2>5. ASSUME ~foreign PROVE OneOut' /\ InStep' /\ AckedIsWritten'
    <3>1. OneOut /\ InStep /\ AckedIsWritten /\ ~awaiting
      BY <1>2, <2>5 DEF PacketSent, Synchronized
    <3>2. OneOut'
      BY <1>2, <2>2, <2>3, <3>1 DEF PacketSent, OneOut
    <3>3. InStep'
      BY <1>2, <3>1 DEF PacketSent, InStep, Wrote
    <3>4. AckedIsWritten'
      BY <1>2, <3>1 DEF PacketSent, AckedIsWritten
    <3> QED
      BY <3>2, <3>3, <3>4
  <2> QED
    BY <1>2, <2>4, <2>5 DEF PacketSent, Synchronized, DfuBounded
<1>3. CASE AckRead
  <2>1. /\ Len(acks) >= 1 /\ Head(acks) = acks[1] /\ 1 \in DOMAIN acks
        /\ Tail(acks) \in Seq(1..MaxAttempts) /\ DOMAIN Tail(acks) = 1..Len(acks) - 1
        /\ \A i \in DOMAIN Tail(acks) : Tail(acks)[i] = acks[i + 1] /\ i + 1 \in DOMAIN acks
    BY <1>3, QueueTail DEF AckRead, DfuTypeOK
  <2>2. foreign' \in BOOLEAN /\ (~foreign' => ~foreign /\ acks[1] = attempt) /\ stage # 0
    BY <1>3, <2>1 DEF AckRead, DfuTypeOK, DfuBounded
  <2>3. CASE stage = Stop
    <3>1. FlashEnds("done") /\ UNCHANGED <<attempt, toDevice, written>>
      BY <1>3, <2>3 DEF AckRead
    <3>2. DfuTypeOK' /\ DfuBounded'
      BY <2>2, <3>1, EndTyped
    <3>3. ASSUME ~foreign' PROVE FlashStays'
      <4>1. OneOut /\ InStep
        BY <2>2, <3>3 DEF Synchronized
      <4>2. Wrote(Stop - 1) /\ written # <<>> /\ \A i \in DOMAIN toDevice : toDevice[i].pos = Stop
        BY <2>3, <4>1 DEF OneOut, InStep
      <4> QED
        BY <3>1, <4>2 DEF FlashStays, Wrote
    <3> QED
      BY <3>1, <3>2, <3>3 DEF FlashEnds, Reported, Synchronized
  <2>4. CASE stage # Stop
    <3>1. /\ stage' = stage + 1 /\ awaiting' = FALSE /\ acks' = Tail(acks)
          /\ UNCHANGED <<attempt, toDevice, written, outcome>>
      BY <1>3, <2>4 DEF AckRead
    <3>2. stage \in 0..Stop /\ stage' \in 0..Stop
      BY <2>4, <3>1 DEF DfuTypeOK
    <3>3. DfuTypeOK'
      BY <2>1, <2>2, <3>1, <3>2 DEF DfuTypeOK
    <3>4. \A i \in DOMAIN acks' : acks'[i] <= attempt'
      BY <2>1, <3>1 DEF DfuBounded
    <3>5. attempt' >= 1 /\ outcome' # "done"
      BY <2>2, <2>4, <3>1 DEF DfuTypeOK, DfuBounded
    <3>6. \A i \in DOMAIN toDevice' : toDevice'[i].by <= attempt'
      BY <3>1 DEF DfuBounded
    <3>7. DfuTypeOK' /\ DfuBounded'
      BY <3>1, <3>3, <3>4, <3>5, <3>6 DEF DfuBounded
    <3>8. ASSUME ~foreign' PROVE OneOut' /\ InStep' /\ AckedIsWritten'
      <4>1. AckedIsWritten /\ acks[1] = attempt
        BY <2>2, <3>8 DEF Synchronized
      <4>2. toDevice = <<>> /\ written # <<>> /\ Last(written) = stage /\ Wrote(stage)
        BY <2>1, <4>1 DEF AckedIsWritten
      <4>3. \A i \in DOMAIN acks' : acks'[i] # attempt
        BY <2>1, <3>1, <4>1 DEF AckedIsWritten
      <4>4. OneOut' /\ AckedIsWritten'
        BY <3>1, <4>2, <4>3 DEF OneOut, AckedIsWritten
      <4>5. stage' - 1 = stage
        BY <3>1 DEF DfuTypeOK
      <4>6. InStep'
        BY <3>1, <4>2, <4>5 DEF InStep, Wrote
      <4> QED
        BY <4>4, <4>6
    <3> QED
      BY <2>2, <3>1, <3>7, <3>8 DEF Synchronized, DfuBounded
  <2> QED
    BY <2>3, <2>4
<1>4. CASE AckTimesOut
  <2>1. CASE stage = Stop
    <3>1. FlashEnds("done") /\ UNCHANGED <<attempt, toDevice, written, foreign>>
      BY <1>4, <2>1 DEF AckTimesOut, TimeoutIsSuccess
    <3> QED
      BY <2>1, <3>1, FlashDone DEF DfuInv
  <2>2. CASE stage # Stop
    <3>1. FlashEnds("failed") /\ UNCHANGED <<attempt, toDevice, written, foreign>>
      BY <1>4, <2>2 DEF AckTimesOut, TimeoutIsSuccess
    <3> QED
      BY <3>1, FlashFailed DEF DfuInv
  <2> QED
    BY <2>1, <2>2
<1>5. CASE FlashFails
  <2>1. CASE stage = Stop
    <3>1. FlashEnds("done") /\ UNCHANGED <<attempt, toDevice, written, foreign>>
      BY <1>5, <2>1 DEF FlashFails
    <3> QED
      BY <2>1, <3>1, FlashDone DEF DfuInv
  <2>2. CASE stage # Stop
    <3>1. FlashEnds("failed") /\ UNCHANGED <<attempt, toDevice, written, foreign>>
      BY <1>5, <2>2 DEF FlashFails
    <3> QED
      BY <3>1, FlashFailed DEF DfuInv
  <2> QED
    BY <2>1, <2>2
<1>6. CASE DeviceReads
  <2> DEFINE p == toDevice[1]
             rest == Tail(toDevice)
  <2>1. /\ Len(toDevice) >= 1 /\ Head(toDevice) = p /\ 1 \in DOMAIN toDevice
        /\ p.by \in 1..MaxAttempts /\ p.pos \in Start..Stop
        /\ rest \in Seq([by : 1..MaxAttempts, pos : Start..Stop])
        /\ DOMAIN rest = 1..Len(rest) /\ Len(rest) = Len(toDevice) - 1
        /\ \A i \in DOMAIN rest : rest[i] = toDevice[i + 1] /\ i + 1 \in DOMAIN toDevice
    <3>1. toDevice \in Seq([by : 1..MaxAttempts, pos : Start..Stop]) /\ toDevice # <<>>
      BY <1>6 DEF DeviceReads, DfuTypeOK
    <3>2. p \in [by : 1..MaxAttempts, pos : Start..Stop]
      BY <3>1, QueueTail
    <3>3. p.by \in 1..MaxAttempts /\ p.pos \in Start..Stop
      BY <3>2
    <3> HIDE DEF p
    <3>4. Len(toDevice) \in Nat /\ Len(toDevice) >= 1 /\ Head(toDevice) = p
          /\ DOMAIN toDevice = 1..Len(toDevice)
          /\ rest \in Seq([by : 1..MaxAttempts, pos : Start..Stop])
          /\ Len(rest) = Len(toDevice) - 1 /\ DOMAIN rest = 1..Len(toDevice) - 1
          /\ \A i \in 1..Len(toDevice) - 1 : rest[i] = toDevice[i + 1]
      BY <3>1, QueueTail DEF p
    <3> HIDE DEF rest
    <3>5. 1 \in DOMAIN toDevice /\ DOMAIN rest = 1..Len(rest)
      BY <3>4
    <3>6. \A i \in DOMAIN rest : rest[i] = toDevice[i + 1] /\ i + 1 \in DOMAIN toDevice
      BY <3>4
    <3> QED
      BY <3>3, <3>4, <3>5, <3>6
  <2>2. /\ toDevice' = rest /\ UNCHANGED <<attempt, stage, awaiting, outcome, foreign>>
        /\ Acknowledged(p.by)
        /\ IF p.pos = Start THEN written' = <<Start>>
           ELSE IF written # <<>> /\ p.pos = Last(written) + 1
           THEN written' = Append(written, p.pos)
           ELSE UNCHANGED written
    BY <1>6, <2>1 DEF DeviceReads
  <2> HIDE DEF p, rest
  <2>3. acks' \in Seq(1..MaxAttempts)
    <3> DEFINE A == 1..MaxAttempts
    <3>1. acks \in Seq(A) /\ p.by \in A
      BY <2>1 DEF DfuTypeOK
    <3> HIDE DEF A
    <3>2. acks' \in Seq(A)
      BY <2>2, <3>1, QueueAppend DEF Acknowledged
    <3> QED
      BY <3>2 DEF A
  <2>4. written' \in Seq(Start..Stop)
    <3>1. <<Start>> \in Seq(Start..Stop)
      OBVIOUS
    <3>2. written \in Seq(Start..Stop) /\ Append(written, p.pos) \in Seq(Start..Stop)
      BY <2>1, AppendProperties DEF DfuTypeOK
    <3> QED
      BY <2>2, <3>1, <3>2
  <2>5. \A i \in DOMAIN acks' :
          \/ i \in DOMAIN acks /\ acks'[i] = acks[i]
          \/ i = Len(acks) + 1 /\ acks'[i] = p.by
    <3> DEFINE A == 1..MaxAttempts
    <3>1. acks \in Seq(A) /\ p.by \in A
      BY <2>1 DEF DfuTypeOK
    <3> HIDE DEF A
    <3>2. CASE acks' = Append(acks, p.by)
      BY <3>1, <3>2, QueueAppend
    <3> QED
      BY <2>2, <3>2 DEF Acknowledged
  <2>6. DfuTypeOK'
    BY <2>1, <2>2, <2>3, <2>4 DEF DfuTypeOK
  <2>7. DfuBounded'
    BY <2>1, <2>2, <2>5 DEF p, DfuBounded
  <2>8. ASSUME stage # 0, ~foreign PROVE OneOut' /\ InStep' /\ AckedIsWritten'
    <3>1. OneOut /\ InStep /\ AckedIsWritten
      BY <2>8 DEF Synchronized
    <3>2. \A i \in DOMAIN acks : acks[i] # attempt
      BY <2>1, <3>1 DEF AckedIsWritten
    <3>3. CASE p.by = attempt
      <4>1. awaiting /\ p.pos = stage /\ toDevice' = <<>>
        BY <2>1, <2>2, <3>1, <3>3 DEF p, OneOut
      <4>2. CASE stage = Start
        <5>1. written' = <<1>> /\ stage' = 1
          BY <2>2, <4>1, <4>2
        <5>2. written' # <<>> /\ Last(written') = 1
          BY <5>1 DEF Last
        <5>3. 1 \in DOMAIN written' /\ written'[1] = 1
          BY <5>1
        <5>4. \A k \in 1..1 : \E i \in DOMAIN written' : written'[i] = k
          BY <5>3
        <5>5. written' # <<>> /\ Last(written') = 1 /\ Wrote(stage)'
          BY <5>1, <5>2, <5>4 DEF Wrote
        <5> QED
          BY <2>2, <2>5, <3>2, <4>1, <4>2, <5>5 DEF OneOut, InStep, AckedIsWritten
      <4>3. CASE stage # Start
        <5>1. stage > Start /\ written # <<>> /\ Wrote(stage - 1) /\ Last(written) = stage - 1
              /\ stage - 1 \in Nat
          BY <2>1, <2>8, <3>1, <4>3 DEF InStep, DfuTypeOK
        <5>2. written' = Append(written, stage)
          BY <2>2, <4>1, <4>3, <5>1 DEF DfuTypeOK
        <5>3. written' # <<>> /\ Last(written') = stage /\ Wrote(stage - 1)' /\ Wrote(stage)'
          <6>1. PICK n \in Nat, pos \in Start..Stop : n = stage - 1 /\ pos = stage /\ stage' = pos
            BY <2>1, <2>2, <4>1, <5>1
          <6>2. written \in Seq(Start..Stop) /\ Wrote(n) /\ written' = Append(written, pos)
            BY <5>1, <5>2, <6>1 DEF DfuTypeOK
          <6>3. Wrote(n)' /\ written' # <<>> /\ Last(written') = pos /\ Wrote(pos)'
            BY <5>1, <6>1, <6>2, AppendWrote
          <6> QED
            BY <6>1, <6>3 DEF Wrote
        <5> QED
          BY <2>2, <2>5, <3>2, <4>1, <5>1, <5>3 DEF OneOut, InStep, AckedIsWritten, Wrote
      <4> QED
        BY <4>2, <4>3
    <3>4. CASE p.by # attempt
      <4>1. ~(stage > Start)
        BY <2>1, <3>1, <3>4 DEF p, OneOut
      <4>2. stage = Start
        BY <2>8, <4>1 DEF DfuTypeOK
      <4>3. Len(toDevice) \in Nat
        BY LenProperties DEF DfuTypeOK
      <4>4. ASSUME NEW i \in DOMAIN rest, rest[i].by = attempt
            PROVE  awaiting /\ rest[i].pos = stage /\ i = Len(rest)
        <5>1. i + 1 \in DOMAIN toDevice /\ rest[i] = toDevice[i + 1] /\ Len(rest) = Len(toDevice) - 1
              /\ i \in 1..Len(rest)
          BY <2>1
        <5>2. awaiting /\ toDevice[i + 1].pos = stage /\ i + 1 = Len(toDevice)
          BY <3>1, <4>4, <5>1 DEF OneOut
        <5> QED
          BY <4>3, <5>1, <5>2
      <4>5. OneOut'
        BY <2>2, <4>1, <4>4 DEF OneOut
      <4>6. \A i \in DOMAIN acks' : acks'[i] # attempt
        BY <2>5, <3>2, <3>4
      <4> QED
        BY <2>2, <4>2, <4>5, <4>6 DEF InStep, AckedIsWritten
    <3> QED
      BY <3>3, <3>4
  <2>9. ASSUME outcome = "done", ~foreign PROVE FlashStays'
    <3>1. FlashStays
      BY <2>9
    <3>2. p.pos # Start /\ \A i \in DOMAIN toDevice' : toDevice'[i].pos # Start
      BY <2>1, <2>2, <3>1 DEF p, FlashStays
    <3>3. CASE written' = Append(written, p.pos)
      <4>1. Stop - 1 \in Nat /\ written \in Seq(Start..Stop) /\ p.pos \in Start..Stop
            /\ Wrote(Stop - 1)
        <5>1. Stop - 1 \in Nat
          BY PositionsTyped
        <5>2. written \in Seq(Start..Stop)
          BY DEF DfuInv, DfuTypeOK
        <5>3. Wrote(Stop - 1)
          BY <3>1 DEF FlashStays
        <5> QED
          BY <2>1, <5>1, <5>2, <5>3
      <4>2. Wrote(Stop - 1)' /\ written' # <<>>
        BY <3>3, <4>1, AppendWrote
      <4> QED
        BY <3>2, <4>2 DEF FlashStays
    <3>4. CASE written' = written
      BY <3>1, <3>2, <3>4 DEF FlashStays, Wrote
    <3> QED
      BY <2>2, <3>2, <3>3, <3>4
  <2> QED
    BY <2>2, <2>6, <2>7, <2>8, <2>9 DEF Synchronized
<1>7. CASE PacketDamaged
  <2>1. /\ Tail(toDevice) \in Seq([by : 1..MaxAttempts, pos : Start..Stop])
        /\ DOMAIN Tail(toDevice) = 1..Len(toDevice) - 1 /\ 1 \in DOMAIN toDevice
        /\ Len(Tail(toDevice)) = Len(toDevice) - 1
        /\ \A i \in DOMAIN Tail(toDevice) :
             Tail(toDevice)[i] = toDevice[i + 1] /\ i + 1 \in DOMAIN toDevice
    BY <1>7, QueueTail DEF PacketDamaged, DfuTypeOK
  <2>2. toDevice' = Tail(toDevice) /\ toDevice # <<>>
        /\ UNCHANGED <<attempt, stage, awaiting, acks, written, outcome, foreign>>
    BY <1>7 DEF PacketDamaged
  <2>3. DfuTypeOK' /\ DfuBounded'
    BY <2>1, <2>2 DEF DfuTypeOK, DfuBounded
  <2>4. ASSUME stage # 0, ~foreign PROVE OneOut' /\ InStep' /\ AckedIsWritten'
    <3>1. OneOut /\ InStep /\ AckedIsWritten
      BY <2>4 DEF Synchronized
    <3>2. OneOut'
      <4>1. \A i \in DOMAIN toDevice' :
              /\ toDevice'[i] = toDevice[i + 1] /\ i + 1 \in DOMAIN toDevice
              /\ i \in Int /\ Len(toDevice') = Len(toDevice) - 1 /\ Len(toDevice) \in Nat
        BY <2>1, <2>2
      <4>2. ASSUME NEW i \in DOMAIN toDevice', toDevice'[i].by = attempt
            PROVE  awaiting /\ toDevice'[i].pos = stage /\ i = Len(toDevice')
        <5>1. awaiting /\ toDevice[i + 1].pos = stage /\ i + 1 = Len(toDevice)
          BY <3>1, <4>1, <4>2 DEF OneOut
        <5> QED
          BY <4>1, <5>1
      <4>3. ASSUME stage > Start, NEW i \in DOMAIN toDevice' PROVE toDevice'[i].by = attempt
        BY <3>1, <4>1, <4>3 DEF OneOut
      <4> QED
        BY <2>2, <4>2, <4>3 DEF OneOut
    <3>3. InStep'
      BY <2>2, <3>1 DEF InStep, Wrote
    <3>4. AckedIsWritten'
      BY <2>2, <3>1 DEF AckedIsWritten
    <3> QED
      BY <3>2, <3>3, <3>4
  <2>5. ASSUME outcome = "done", ~foreign PROVE FlashStays'
    BY <2>1, <2>2, <2>5 DEF FlashStays, Wrote
  <2> QED
    BY <2>2, <2>3, <2>4, <2>5 DEF Synchronized
<1>8. CASE UNCHANGED dfuVars
  BY <1>8 DEF dfuVars, DfuTypeOK, DfuBounded, Synchronized, OneOut, InStep, AckedIsWritten,
              FlashStays, Wrote
<1> QED
  BY <1>1, <1>2, <1>3, <1>4, <1>5, <1>6, <1>7, <1>8 DEF DfuNext

(* A flash reported complete is whole: the bootloader wrote the init packet *)
(* and every chunk, for firmware of any size, any number of attempts and    *)
(* any packets and acknowledgements lost or late, unless the attempt took   *)
(* an acknowledgement of an earlier one (dfuFlash, sendStopDataPacket).     *)
THEOREM FlashCorrect == DfuSpec => [](DfuTypeOK /\ FlashIsWhole)
<1>1. DfuInv => DfuTypeOK /\ FlashIsWhole
  BY PositionsTyped DEF DfuInv, FlashStays, FlashIsWhole, Wrote
<1> QED
  BY <1>1, DfuInitial, DfuStepKeeps, PTL DEF DfuSpec

(***************************************************************************)
(* The configuration client. A handler that calls or waits still has the    *)
(* request it is about.                                                     *)
(***************************************************************************)
CfgHandlers == [at : {"no", "calling", "waiting", "over"}, todo : Seq(Commands)]

CfgInv ==
  /\ CfgTypeOK
  /\ \A h \in Handlers : handler[h].at \in {"calling", "waiting"} => handler[h].todo # <<>>

LEMMA SeriesTyped == \A s \in Series : s \in Seq(Commands) /\ s # <<>>
<1>1. ASSUME NEW a \in Commands PROVE <<a>> \in Seq(Commands) /\ <<a>> # <<>>
  BY <1>1, EmptySeq
<1>2. ASSUME NEW a \in Commands, NEW b \in Commands
      PROVE  <<a, b>> \in Seq(Commands) /\ <<a, b>> # <<>>
  BY <1>2, EmptySeq
<1>3. ASSUME NEW a \in Commands, NEW b \in Commands, NEW c \in Commands
      PROVE  <<a, b, c>> \in Seq(Commands) /\ <<a, b, c>> # <<>>
  BY <1>3, EmptySeq
<1> QED
  BY <1>1, <1>2, <1>3 DEF Series, Commands

LEMMA CfgInitial == CfgInit => CfgInv
<1> SUFFICES ASSUME CfgInit PROVE CfgInv
  OBVIOUS
<1>1. <<>> \in Seq(Commands) /\ Len(<<>>) = 0
  BY EmptySeq
<1>2. handler \in [Handlers -> CfgHandlers] /\ \A h \in Handlers : handler[h].at = "no"
  BY <1>1 DEF CfgInit, CfgHandlers
<1>3. onAir \in Seq(Commands) /\ Len(onAir) <= MaxOnAir
  BY <1>1, CfgAssumption DEF CfgInit
<1> QED
  BY <1>2, <1>3 DEF CfgInit, CfgInv, CfgTypeOK, CfgHandlers

LEMMA CfgStepKeeps == CfgInv /\ [CfgNext]_cfgVars => CfgInv'
<1> SUFFICES ASSUME CfgInv, [CfgNext]_cfgVars PROVE CfgInv'
  OBVIOUS
<1> DEFINE Fit == {h \in CfgHandlers : h.at \in {"calling", "waiting"} => h.todo # <<>>}
<1>1. /\ handler \in [Handlers -> Fit] /\ onAir \in Seq(Commands) /\ Len(onAir) <= MaxOnAir
      /\ {cfgLinked, cfgClosing, cfgLost} \subseteq BOOLEAN
      /\ cfgPending \in Handlers \cup {NoOne} /\ shown \in Commands \cup {NoOne}
      /\ cfgPending # NoOne => handler[cfgPending].at = "waiting"
      /\ cfgWrites \subseteq [of : Handlers, cmd : Commands]
  BY DEF CfgInv, CfgTypeOK, CfgHandlers
<1>2. ASSUME handler' \in [Handlers -> Fit], onAir' \in Seq(Commands), Len(onAir') <= MaxOnAir,
             cfgLinked' \in BOOLEAN, cfgClosing' \in BOOLEAN, cfgLost' \in BOOLEAN,
             cfgPending' \in Handlers \cup {NoOne}, shown' \in Commands \cup {NoOne},
             cfgPending' # NoOne => handler'[cfgPending'].at = "waiting",
             cfgWrites' \subseteq [of : Handlers, cmd : Commands]
      PROVE  CfgInv'
  BY <1>2 DEF CfgInv, CfgTypeOK, CfgHandlers
<1>3. Stopped \in Fit /\ Stopped.at = "over"
  BY EmptySeq DEF Stopped, CfgHandlers
<1>4. \A x \in Fit : x.at \in {"calling", "waiting"} =>
         /\ x.todo \in Seq(Commands) /\ x.todo # <<>>
         /\ Head(x.todo) \in Commands /\ Tail(x.todo) \in Seq(Commands)
  BY HeadTailProperties DEF CfgHandlers
<1>5. ASSUME NEW h \in Handlers, HandlerStarts(h) PROVE CfgInv'
  <2>1. PICK s \in Series : handler' = [handler EXCEPT ![h] = [at |-> "calling", todo |-> s]]
    BY <1>5 DEF HandlerStarts
  <2>2. [at |-> "calling", todo |-> s] \in Fit
    BY SeriesTyped DEF CfgHandlers
  <2>3. /\ handler[h].at = "no"
        /\ UNCHANGED <<cfgLinked, cfgClosing, cfgPending, cfgWrites, onAir, shown, cfgLost>>
    BY <1>5 DEF HandlerStarts, cfgLinkVars
  <2> HIDE DEF Fit
  <2>4. handler' \in [Handlers -> Fit] /\ \A g \in Handlers : g # h => handler'[g] = handler[g]
    BY <1>1, <2>1, <2>2
  <2> QED
    BY <1>1, <1>2, <2>3, <2>4
<1>6. ASSUME NEW h \in Handlers, CfgRequestSent(h) PROVE CfgInv'
  <2>1. /\ handler[h].at = "calling" /\ handler[h] \in Fit
        /\ UNCHANGED <<cfgLinked, cfgClosing, onAir, shown, cfgLost>>
    BY <1>1, <1>6 DEF CfgRequestSent, cfgLinkVars
  <2>2. CASE cfgLinked /\ cfgPending = NoOne
    <3>1. CfgRequest(h) \in [of : Handlers, cmd : Commands]
      BY <1>4, <2>1 DEF CfgRequest
    <3>2. PICK x : x = [handler[h] EXCEPT !.at = "waiting"]
      OBVIOUS
    <3>3. x \in Fit /\ x.at = "waiting"
      BY <2>1, <3>2 DEF CfgHandlers
    <3>4. /\ cfgPending' = h /\ cfgWrites' = cfgWrites \cup {CfgRequest(h)}
          /\ handler' = [handler EXCEPT ![h] = x]
      BY <1>6, <2>2, <3>2 DEF CfgRequestSent
    <3> HIDE DEF Fit
    <3>5. handler' \in [Handlers -> Fit] /\ handler'[h].at = "waiting"
      BY <1>1, <3>3, <3>4
    <3> QED
      BY <1>1, <1>2, <2>1, <3>1, <3>4, <3>5
  <2>3. CASE ~(cfgLinked /\ cfgPending = NoOne)
    <3>1. handler' = [handler EXCEPT ![h] = Stopped] /\ UNCHANGED <<cfgPending, cfgWrites>>
      BY <1>6, <2>3 DEF CfgRequestSent
    <3> HIDE DEF Fit
    <3>2. /\ handler' \in [Handlers -> Fit]
          /\ \A g \in Handlers : handler[g].at = "waiting" => handler'[g] = handler[g]
      BY <1>1, <1>3, <2>1, <3>1
    <3> QED
      BY <1>1, <1>2, <2>1, <3>1, <3>2
  <2> QED
    BY <2>2, <2>3
<1>7. ASSUME NEW h \in Handlers, RequestWritten(h) PROVE CfgInv'
  <2>1. PICK w \in cfgWrites :
           /\ w.of = h /\ cfgWrites' = cfgWrites \ {w}
           /\ \/ UNCHANGED onAir
              \/ Len(onAir) < MaxOnAir /\ onAir' = Append(onAir, w.cmd)
    BY <1>7 DEF RequestWritten
  <2>2. /\ UNCHANGED <<cfgLinked, cfgClosing, cfgPending, handler, shown, cfgLost>>
        /\ w.cmd \in Commands
    BY <1>1, <1>7 DEF RequestWritten, cfgLinkVars
  <2> HIDE DEF Fit
  <2>3. onAir' \in Seq(Commands) /\ Len(onAir') <= MaxOnAir
    <3>1. CASE UNCHANGED onAir
      BY <1>1, <3>1
    <3>2. CASE Len(onAir) < MaxOnAir /\ onAir' = Append(onAir, w.cmd)
      <4>1. onAir' \in Seq(Commands) /\ Len(onAir') = Len(onAir) + 1 /\ Len(onAir) \in Nat
        BY <1>1, <2>2, <3>2, AppendProperties, LenProperties
      <4> QED
        BY <3>2, <4>1, CfgAssumption
    <3> QED
      BY <2>1, <3>1, <3>2
  <2> QED
    BY <1>1, <1>2, <2>1, <2>2, <2>3
<1>8. ASSUME NEW h \in Handlers, WriteRejected(h) PROVE CfgInv'
  <2>1. /\ UNCHANGED <<cfgLinked, cfgClosing, onAir, shown>> /\ cfgPending' = NoOne
        /\ cfgWrites' \subseteq cfgWrites
        /\ handler' = [handler EXCEPT ![h] = Stopped] \/ UNCHANGED handler
        /\ cfgLost' = cfgLost \/ cfgLost' = (cfgLost \/ cfgPending # NoOne)
    BY <1>8 DEF WriteRejected, cfgLinkVars
  <2>2. cfgLost' \in BOOLEAN
    BY <1>1, <2>1
  <2> HIDE DEF Fit
  <2>3. handler' \in [Handlers -> Fit]
    BY <1>1, <1>3, <2>1
  <2> QED
    BY <1>1, <1>2, <2>1, <2>2, <2>3
<1>9. ASSUME NEW h \in Handlers, CallTimesOut(h) PROVE CfgInv'
  <2>1. /\ UNCHANGED <<cfgLinked, cfgClosing, cfgWrites, onAir, shown, cfgLost>>
        /\ cfgPending' = NoOne /\ handler' = [handler EXCEPT ![h] = Stopped]
    BY <1>9 DEF CallTimesOut, cfgLinkVars
  <2> HIDE DEF Fit
  <2>2. handler' \in [Handlers -> Fit]
    BY <1>1, <1>3, <2>1
  <2> QED
    BY <1>1, <1>2, <2>1, <2>2
<1>10. CASE ResponseArrives
  <2>1. /\ onAir # <<>> /\ onAir' = Tail(onAir)
        /\ UNCHANGED <<cfgLinked, cfgClosing, cfgWrites, cfgLost>>
    BY <1>10 DEF ResponseArrives, cfgLinkVars
  <2>2. /\ onAir' \in Seq(Commands) /\ Len(onAir') = Len(onAir) - 1 /\ Head(onAir) \in Commands
        /\ Len(onAir) \in Nat
    BY <1>1, <2>1, HeadTailProperties, LenProperties
  <2>3. Len(onAir') <= MaxOnAir
    BY <1>1, <2>2, CfgAssumption
  <2>4. CASE cfgPending = NoOne
    <3>1. UNCHANGED <<cfgPending, handler, shown>>
      BY <1>10, <2>4 DEF ResponseArrives
    <3> QED
      BY <1>1, <1>2, <2>1, <2>2, <2>3, <3>1
  <2>5. CASE cfgPending # NoOne
    <3>1. PICK h \in Handlers : h = cfgPending
      BY <1>1, <2>5
    <3>2. handler[h] \in Fit /\ handler[h].at = "waiting" /\ Tail(handler[h].todo) \in Seq(Commands)
      BY <1>1, <1>4, <2>5, <3>1
    <3>3. PICK left \in Seq(Commands) : left = Tail(handler[h].todo)
      BY <3>2
    <3>4. /\ cfgPending' = NoOne
          /\ \/ handler' = [handler EXCEPT ![h] = Stopped]
             \/ handler' = [handler EXCEPT ![h] =
                  IF left = <<>> THEN Stopped ELSE [at |-> "calling", todo |-> left]]
          /\ shown' = shown \/ shown' = Head(onAir)
      BY <1>10, <2>5, <3>1, <3>3 DEF ResponseArrives
    <3>5. PICK x \in Fit :
            x = IF left = <<>> THEN Stopped ELSE [at |-> "calling", todo |-> left]
      BY <1>3 DEF CfgHandlers
    <3> HIDE DEF Fit
    <3>6. handler' \in [Handlers -> Fit]
      BY <1>1, <1>3, <3>4, <3>5
    <3> QED
      BY <1>1, <1>2, <2>1, <2>2, <2>3, <3>4, <3>6
  <2> QED
    BY <2>4, <2>5
<1>11. CASE DisconnectBegins \/ Reconnects
  BY <1>1, <1>2, <1>11 DEF DisconnectBegins, Reconnects
<1>12. CASE DisconnectEnds
  <2>1. handler' = [h \in Handlers |-> IF cfgPending = h THEN Stopped ELSE handler[h]]
    BY <1>12 DEF DisconnectEnds, PendingRejected
  <2> HIDE DEF Fit
  <2>2. handler' \in [Handlers -> Fit]
    BY <1>1, <1>3, <2>1
  <2>3. onAir' \in Seq(Commands) /\ Len(onAir') <= MaxOnAir
    BY <1>12, CfgAssumption, EmptySeq DEF DisconnectEnds
  <2> QED
    BY <1>1, <1>2, <1>12, <2>2, <2>3 DEF DisconnectEnds
<1>13. CASE BleDrops
  <2>1. onAir' \in Seq(Commands) /\ Len(onAir') <= MaxOnAir
    BY <1>13, CfgAssumption, EmptySeq DEF BleDrops
  <2> QED
    BY <1>1, <1>2, <1>13, <2>1 DEF BleDrops
<1>14. CASE UNCHANGED cfgVars
  BY <1>1, <1>2, <1>14 DEF cfgVars
<1> QED
  BY <1>5, <1>6, <1>7, <1>8, <1>9, <1>10, <1>11, <1>12, <1>13, <1>14 DEF CfgNext

(* What is pending in the configuration client belongs to a handler that    *)
(* waits for it, whatever buttons are pressed and however writes, answers,  *)
(* timers and disconnects overlap (transport-config.js, TransportClient).   *)
THEOREM PendingCorrect == CfgSpec => []CfgTypeOK
<1>1. CfgInv => CfgTypeOK
  BY DEF CfgInv
<1> QED
  BY <1>1, CfgInitial, CfgStepKeeps, PTL DEF CfgSpec

(***************************************************************************)
(* The RNode's commands. A callback is registered under its call's command. *)
(***************************************************************************)
RnInv ==
  /\ RnTypeOK
  /\ \A c \in RnCommands : callbacks[c] # NoOrder => CommandOf[callbacks[c]] = c

LEMMA RnInitial == RnInit => RnInv
  BY DEF RnInit, RnInv, RnTypeOK

LEMMA RnStepKeeps == RnInv /\ [RnNext]_rnVars => RnInv'
<1> SUFFICES ASSUME RnInv, [RnNext]_rnVars PROVE RnInv'
  OBVIOUS
<1> USE DEF RnInv, RnTypeOK
<1>1. \A o \in Orders : CommandOf[o] \in RnCommands
  BY DEF RnCommands
<1>2. ASSUME NEW o \in Orders, Ordered(o) PROVE RnInv'
  BY <1>1, <1>2 DEF Ordered
<1>3. ASSUME NEW o \in Orders, OrderWritten(o) PROVE RnInv'
  BY <1>1, <1>3 DEF OrderWritten
<1>4. ASSUME NEW o \in Orders, OrderNotWritten(o) PROVE RnInv'
  BY <1>4 DEF OrderNotWritten, Settled
<1>5. ASSUME NEW o \in Orders, OrderTimesOut(o) PROVE RnInv'
  BY <1>1, <1>5 DEF OrderTimesOut, Settled, CallbackDeleted
<1>6. CASE FrameArrives
  BY <1>1, <1>6 DEF FrameArrives, Settled
<1>7. CASE RnDisconnects
  BY <1>7 DEF RnDisconnects
<1>8. CASE UNCHANGED rnVars
  BY <1>8 DEF rnVars
<1> QED
  BY <1>2, <1>3, <1>4, <1>5, <1>6, <1>7, <1>8 DEF RnNext

(* A registered callback has its timer, and a call that waits for the RNode *)
(* has one, so none waits for ever and no answer reaches a call that timed  *)
(* out (js/rnode.js, _sendAndWait, _onFrame).                               *)
THEOREM CallbacksCorrect == RnSpec => []RnTypeOK
<1>1. RnInv => RnTypeOK
  BY DEF RnInv
<1> QED
  BY <1>1, RnInitial, RnStepKeeps, PTL DEF RnSpec

(***************************************************************************)
(* The bridges. The sets that are counted are finite, as connections arrive *)
(* one by one, and a count changes with the set it counts.                  *)
(***************************************************************************)
ConnPlaces == {"no", "refused", "under cap", "admitted", "bridged", "gone"}

Counted == {"refused", "under cap", "admitted", "bridged"}

UnderCap == {"under cap", "admitted", "bridged"}

Admitted == {"admitted", "bridged"}

From(a) == {c \in Using(Admitted) : AddressOf[c] = a}

Pumps == {"no", "reading", "writing", "ended"}

BridgeTyped ==
  /\ program \in {"local", "public", "python"}
  /\ place \in [Conns -> ConnPlaces]
  /\ wsOpen \cup tcpOpen \subseteq Using({"bridged"})
  /\ browser \in [Conns -> {"there", "gone"}] /\ daemon \in [Conns -> {"there", "eof", "gone"}]
  /\ up \in [Conns -> Pumps] /\ down \in [Conns -> Pumps]

CountsRight ==
  /\ IsFiniteSet(Using(Counted)) /\ curConns = Cardinality(Using(Counted))
  /\ Cardinality(Using(UnderCap)) <= MaxConns
  /\ perIP \in [Addresses -> Nat]
  /\ \A a \in Addresses : perIP[a] = Cardinality(From(a)) /\ perIP[a] <= MaxPerIP

BridgeInv == BridgeTyped /\ (program = "public" => CountsRight)

LEMMA BridgeInvTyped == BridgeInv => BridgeTypeOK
<1> SUFFICES ASSUME BridgeInv PROVE BridgeTypeOK
  OBVIOUS
<1>1. {up[c] : c \in Conns} \cup {down[c] : c \in Conns} \subseteq Pumps
  BY DEF BridgeInv, BridgeTyped
<1>2. program = "public" =>
       /\ curConns = Cardinality(Using({"refused", "under cap", "admitted", "bridged"}))
       /\ Cardinality(Using({"under cap", "admitted", "bridged"})) <= MaxConns
       /\ \A a \in Addresses :
            /\ perIP[a] = Cardinality({c \in Using({"admitted", "bridged"}) : AddressOf[c] = a})
            /\ perIP[a] <= MaxPerIP
  BY DEF BridgeInv, CountsRight, Counted, UnderCap, Admitted, From
<1> QED
  BY <1>1, <1>2 DEF BridgeInv, BridgeTyped, BridgeTypeOK, ConnPlaces, Pumps

LEMMA BridgeInitial == BridgeInit => BridgeInv
<1> SUFFICES ASSUME BridgeInit PROVE BridgeInv
  OBVIOUS
<1>1. \A P : "no" \notin P => Using(P) = {}
  BY DEF BridgeInit, Using
<1>2. Using(Counted) = {} /\ Using(UnderCap) = {} /\ Using({"bridged"}) = {}
      /\ \A a \in Addresses : From(a) = {}
  <2>1. /\ "no" \notin Counted /\ "no" \notin UnderCap /\ "no" \notin Admitted
        /\ "no" \notin {"bridged"}
    BY DEF Counted, UnderCap, Admitted
  <2>2. Using(Counted) = {} /\ Using(UnderCap) = {} /\ Using({"bridged"}) = {}
        /\ Using(Admitted) = {}
    BY <1>1, <2>1
  <2> QED
    BY <2>2 DEF From
<1>3. CountsRight
  BY <1>2, FS_EmptySet, BridgeAssumption DEF BridgeInit, CountsRight
<1> QED
  BY <1>2, <1>3 DEF BridgeInit, BridgeInv, BridgeTyped, ConnPlaces, Pumps

(* One connection moves.                                                    *)
LEMMA UsingMoves ==
  ASSUME place \in [Conns -> ConnPlaces], NEW c \in Conns, NEW from, NEW to, Goes(c, from, to)
  PROVE  /\ \A P : Using(P)' = IF to \in P THEN Using(P) \cup {c} ELSE Using(P) \ {c}
         /\ Using(Counted)' = IF to \in Counted THEN Using(Counted) \cup {c}
                                                ELSE Using(Counted) \ {c}
         /\ Using(UnderCap)' = IF to \in UnderCap THEN Using(UnderCap) \cup {c}
                                                  ELSE Using(UnderCap) \ {c}
         /\ Using(Admitted)' = IF to \in Admitted THEN Using(Admitted) \cup {c}
                                                  ELSE Using(Admitted) \ {c}
<1>1. \A P : Using(P)' = IF to \in P THEN Using(P) \cup {c} ELSE Using(P) \ {c}
  BY DEF Goes, Using
<1> QED
  BY <1>1

(* It enters the count, leaves it again, or stays in it; and the same for   *)
(* the count of its address.                                                *)
LEMMA OneMoreFits ==
  ASSUME NEW u \in Nat, NEW n \in Nat, NEW m \in Nat, u <= n, n + 1 <= m
  PROVE  u + 1 <= m
  OBVIOUS

LEMMA CountEntered ==
  ASSUME CountsRight, place \in [Conns -> ConnPlaces], NEW c \in Conns, UNCHANGED perIP,
         curConns' = curConns + 1,
         \/ Goes(c, "no", "refused")
         \/ Goes(c, "no", "under cap") /\ curConns + 1 <= MaxConns
  PROVE  CountsRight'
<1>1. /\ c \notin Using(Counted) /\ c \notin Using(UnderCap) /\ c \notin Using(Admitted)
      /\ Using(UnderCap) \subseteq Using(Counted)
  <2>1. place[c] = "no"
    BY DEF Goes
  <2> QED
    BY <2>1 DEF Using, Counted, UnderCap, Admitted
<1>2. /\ Using(Counted)' = Using(Counted) \cup {c} /\ Using(Admitted)' = Using(Admitted)
      /\ \/ Using(UnderCap)' = Using(UnderCap)
         \/ Using(UnderCap)' = Using(UnderCap) \cup {c} /\ curConns + 1 <= MaxConns
  <2>1. CASE Goes(c, "no", "refused")
    <3>1. "refused" \in Counted /\ "refused" \notin UnderCap /\ "refused" \notin Admitted
      BY DEF Counted, UnderCap, Admitted
    <3>2. /\ Using(Counted)' = Using(Counted) \cup {c}
          /\ Using(UnderCap)' = Using(UnderCap) \ {c}
          /\ Using(Admitted)' = Using(Admitted) \ {c}
      BY <2>1, <3>1, UsingMoves
    <3> QED
      BY <1>1, <3>2
  <2>2. CASE Goes(c, "no", "under cap") /\ curConns + 1 <= MaxConns
    <3>1. "under cap" \in Counted /\ "under cap" \in UnderCap /\ "under cap" \notin Admitted
      BY DEF Counted, UnderCap, Admitted
    <3>2. /\ Using(Counted)' = Using(Counted) \cup {c}
          /\ Using(UnderCap)' = Using(UnderCap) \cup {c}
          /\ Using(Admitted)' = Using(Admitted) \ {c}
      BY <2>2, <3>1, UsingMoves
    <3> QED
      BY <1>1, <2>2, <3>2
  <2> QED
    BY <2>1, <2>2
<1>3. PICK S : S = Using(Counted)
  OBVIOUS
<1>4. PICK U : U = Using(UnderCap)
  OBVIOUS
<1>5. /\ IsFiniteSet(S) /\ Cardinality(S) = curConns
      /\ IsFiniteSet(S \cup {c}) /\ Cardinality(S \cup {c}) = curConns + 1
  BY <1>1, <1>3, FS_AddElement DEF CountsRight
<1>6. /\ IsFiniteSet(U) /\ Cardinality(U) <= Cardinality(S)
      /\ Cardinality(U) \in Nat /\ Cardinality(S) \in Nat
      /\ Cardinality(U \cup {c}) = Cardinality(U) + 1
  BY <1>1, <1>3, <1>4, <1>5, FS_Subset, FS_AddElement, FS_CardinalityType
<1>7. Cardinality(Using(UnderCap)') <= MaxConns
  <2>1. Cardinality(U) <= MaxConns
    BY <1>4 DEF CountsRight
  <2>2. curConns + 1 <= MaxConns => Cardinality(U \cup {c}) <= MaxConns
    <3>1. Cardinality(U) <= curConns /\ curConns \in Nat /\ Cardinality(U) \in Nat
          /\ MaxConns \in Nat
      BY <1>5, <1>6, BridgeAssumption
    <3>2. curConns + 1 <= MaxConns => Cardinality(U) + 1 <= MaxConns
      BY <3>1, OneMoreFits, ZenonT(40)
    <3> QED
      BY <1>6, <3>2
  <2> QED
    BY <1>2, <1>4, <2>1, <2>2
<1>8. \A a \in Addresses : From(a)' = From(a)
  BY <1>2 DEF From
<1> QED
  BY <1>2, <1>3, <1>5, <1>7, <1>8 DEF CountsRight

LEMMA CountLeft ==
  ASSUME CountsRight, place \in [Conns -> ConnPlaces], NEW c \in Conns,
         NEW from \in {"refused", "admitted", "bridged"}, Goes(c, from, "gone"),
         curConns' = curConns - 1,
         IF from = "refused" THEN UNCHANGED perIP
                             ELSE perIP' = [perIP EXCEPT ![AddressOf[c]] = perIP[AddressOf[c]] - 1]
  PROVE  CountsRight'
<1>1. place[c] = from /\ AddressOf[c] \in Addresses
  BY DEF Goes, Addresses
<1>2. /\ Using(Counted)' = Using(Counted) \ {c} /\ Using(UnderCap)' = Using(UnderCap) \ {c}
      /\ Using(Admitted)' = Using(Admitted) \ {c}
  <2>1. "gone" \notin Counted /\ "gone" \notin UnderCap /\ "gone" \notin Admitted
    BY DEF Counted, UnderCap, Admitted
  <2> QED
    BY <2>1, UsingMoves
<1>3. c \in Using(Counted) /\ (c \in Using(Admitted) <=> from # "refused")
      /\ Using(UnderCap) \subseteq Using(Counted) /\ Using(Admitted) \subseteq Using(Counted)
  BY <1>1 DEF Using, Counted, UnderCap, Admitted
<1>4. IsFiniteSet(Using(Counted)') /\ Cardinality(Using(Counted)') = curConns - 1
  BY <1>2, <1>3, FS_RemoveElement DEF CountsRight
<1>5. Cardinality(Using(UnderCap)') <= MaxConns
  <2>1. IsFiniteSet(Using(UnderCap))
    BY <1>3, FS_Subset DEF CountsRight
  <2>2. /\ Cardinality(Using(UnderCap)') <= Cardinality(Using(UnderCap))
        /\ Cardinality(Using(UnderCap)') \in Nat /\ Cardinality(Using(UnderCap)) \in Nat
    BY <1>2, <2>1, FS_Subset, FS_CardinalityType
  <2> QED
    BY <2>2, BridgeAssumption DEF CountsRight
<1>6. \A a \in Addresses : IsFiniteSet(From(a)) /\ Cardinality(From(a)) \in Nat
  BY <1>3, FS_Subset, FS_CardinalityType DEF CountsRight, From
<1>7. ASSUME NEW a \in Addresses
      PROVE  perIP'[a] = Cardinality(From(a)') /\ perIP'[a] <= MaxPerIP /\ perIP'[a] \in Nat
  <2>1. From(a)' = From(a) \ {c} /\ (c \in From(a) <=> from # "refused" /\ a = AddressOf[c])
    BY <1>2, <1>3 DEF From
  <2>2. perIP[a] = Cardinality(From(a)) /\ perIP[a] <= MaxPerIP /\ perIP \in [Addresses -> Nat]
    BY DEF CountsRight
  <2>3. CASE c \in From(a)
    <3>1. perIP'[a] = perIP[a] - 1
      BY <2>1, <2>2, <2>3
    <3>2. Cardinality(From(a)') = Cardinality(From(a)) - 1 /\ Cardinality(From(a)') \in Nat
      <4>1. IsFiniteSet(From(a)')
        BY <1>6, <2>1, FS_Subset
      <4> QED
        BY <1>6, <2>1, <2>3, <4>1, FS_RemoveElement, FS_CardinalityType
    <3> QED
      BY <2>2, <3>1, <3>2, BridgeAssumption
  <2>4. CASE c \notin From(a)
    <3>1. perIP'[a] = perIP[a] /\ From(a)' = From(a)
      BY <1>1, <2>1, <2>2, <2>4
    <3> QED
      BY <2>2, <3>1
  <2> QED
    BY <2>3, <2>4
<1>8. perIP' \in [Addresses -> Nat]
  <2>1. perIP' \in [Addresses -> {perIP'[a] : a \in Addresses}]
    BY DEF CountsRight
  <2> QED
    BY <1>7, <2>1
<1> QED
  BY <1>4, <1>5, <1>7, <1>8 DEF CountsRight

(* ipAcquire: a connection under the cap is admitted while its address has  *)
(* a slot left, and refused, still counted, when it has none.               *)
LEMMA CountAcquired ==
  ASSUME CountsRight, place \in [Conns -> ConnPlaces], NEW c \in Conns, program = "public",
         IpAcquired(c)
  PROVE  CountsRight'
<1>1. place[c] = "under cap" /\ AddressOf[c] \in Addresses /\ curConns' = curConns
  BY DEF IpAcquired, Goes, Addresses, countVars
<1>2. c \in Using(Counted) /\ c \in Using(UnderCap) /\ c \notin Using(Admitted)
  BY <1>1 DEF Using, Counted, UnderCap, Admitted
<1>3. CASE perIP[AddressOf[c]] >= MaxPerIP
  <2>1. Goes(c, "under cap", "refused") /\ perIP' = perIP
    BY <1>3 DEF IpAcquired, countVars
  <2>2. "refused" \in Counted /\ "refused" \notin UnderCap /\ "refused" \notin Admitted
    BY DEF Counted, UnderCap, Admitted
  <2>3. /\ Using(Counted)' = Using(Counted) \cup {c} /\ Using(UnderCap)' = Using(UnderCap) \ {c}
        /\ Using(Admitted)' = Using(Admitted) \ {c}
    BY <2>1, <2>2, UsingMoves
  <2>4. Using(Counted)' = Using(Counted) /\ Using(Admitted)' = Using(Admitted)
    BY <1>2, <2>3
  <2>5. Cardinality(Using(UnderCap)') <= MaxConns
    <3>1. Using(UnderCap) \subseteq Using(Counted)
      BY DEF Using, UnderCap, Counted
    <3>2. IsFiniteSet(Using(UnderCap))
      BY <3>1, FS_Subset DEF CountsRight
    <3>3. /\ Cardinality(Using(UnderCap)') <= Cardinality(Using(UnderCap))
          /\ Cardinality(Using(UnderCap)') \in Nat /\ Cardinality(Using(UnderCap)) \in Nat
      BY <2>3, <3>2, FS_Subset, FS_CardinalityType
    <3> QED
      BY <3>3, BridgeAssumption DEF CountsRight
  <2>6. \A a \in Addresses : From(a)' = From(a)
    BY <2>4 DEF From
  <2> QED
    BY <1>1, <2>1, <2>4, <2>5, <2>6 DEF CountsRight
<1>4. CASE ~(perIP[AddressOf[c]] >= MaxPerIP)
  <2>1. /\ Goes(c, "under cap", "admitted")
        /\ perIP' = [perIP EXCEPT ![AddressOf[c]] = perIP[AddressOf[c]] + 1]
    BY <1>4 DEF IpAcquired
  <2>2. "admitted" \in Counted /\ "admitted" \in UnderCap /\ "admitted" \in Admitted
    BY DEF Counted, UnderCap, Admitted
  <2>3. /\ Using(Counted)' = Using(Counted) \cup {c}
        /\ Using(UnderCap)' = Using(UnderCap) \cup {c}
        /\ Using(Admitted)' = Using(Admitted) \cup {c}
    BY <2>1, <2>2, UsingMoves
  <2>4. Using(Counted)' = Using(Counted) /\ Using(UnderCap)' = Using(UnderCap)
    BY <1>2, <2>3
  <2>5. ASSUME NEW a \in Addresses
        PROVE  /\ perIP'[a] = Cardinality(From(a)') /\ perIP'[a] <= MaxPerIP
               /\ perIP'[a] \in Nat
    <3>1. From(a)' = (IF a = AddressOf[c] THEN From(a) \cup {c} ELSE From(a)) /\ c \notin From(a)
      BY <1>2, <2>3 DEF From
    <3>2. perIP[a] = Cardinality(From(a)) /\ perIP[a] <= MaxPerIP /\ perIP \in [Addresses -> Nat]
      BY DEF CountsRight
    <3>3. CASE a = AddressOf[c]
      <4>1. perIP'[a] = perIP[a] + 1 /\ perIP[a] \in Nat /\ ~(perIP[a] >= MaxPerIP)
        BY <1>1, <1>4, <2>1, <3>2, <3>3
      <4>2. IsFiniteSet(From(a))
        <5>1. From(a) \subseteq Using(Counted)
          BY DEF From, Using, Admitted, Counted
        <5> QED
          BY <5>1, FS_Subset DEF CountsRight
      <4>3. PICK S : S = From(a)
        OBVIOUS
      <4>4. Cardinality(S \cup {c}) = Cardinality(S) + 1
        BY <3>1, <4>2, <4>3, FS_AddElement
      <4>5. Cardinality(From(a)') = perIP[a] + 1
        BY <3>1, <3>2, <3>3, <4>3, <4>4
      <4> QED
        BY <4>1, <4>5, BridgeAssumption
    <3>4. CASE a # AddressOf[c]
      BY <2>1, <3>1, <3>2, <3>4
    <3> QED
      BY <3>3, <3>4
  <2>6. perIP' \in [Addresses -> Nat]
    <3>1. perIP' \in [Addresses -> {perIP'[a] : a \in Addresses}]
      BY <2>1 DEF CountsRight
    <3> QED
      BY <2>5, <3>1
  <2> QED
    BY <1>1, <2>4, <2>5, <2>6 DEF CountsRight
<1> QED
  BY <1>3, <1>4

(* A move within the bridge, or within the sockets, counts nothing.         *)
LEMMA CountStays ==
  ASSUME CountsRight, place \in [Conns -> ConnPlaces], NEW c \in Conns,
         UNCHANGED place \/ Goes(c, "admitted", "bridged"), UNCHANGED <<curConns, perIP>>
  PROVE  CountsRight'
<1>1. /\ Using(Counted)' = Using(Counted) /\ Using(UnderCap)' = Using(UnderCap)
      /\ Using(Admitted)' = Using(Admitted)
  <2>1. CASE UNCHANGED place
    BY <2>1 DEF Using
  <2>2. CASE Goes(c, "admitted", "bridged")
    <3>1. "bridged" \in Counted /\ "bridged" \in UnderCap /\ "bridged" \in Admitted
      BY DEF Counted, UnderCap, Admitted
    <3>2. c \in Using(Counted) /\ c \in Using(UnderCap) /\ c \in Using(Admitted)
      BY <2>2 DEF Goes, Using, Counted, UnderCap, Admitted
    <3>3. /\ Using(Counted)' = Using(Counted) \cup {c}
          /\ Using(UnderCap)' = Using(UnderCap) \cup {c}
          /\ Using(Admitted)' = Using(Admitted) \cup {c}
      BY <2>2, <3>1, UsingMoves
    <3> QED
      BY <3>2, <3>3
  <2> QED
    BY <2>1, <2>2
<1>2. \A a \in Addresses : From(a)' = From(a)
  BY <1>1 DEF From
<1> QED
  BY <1>1, <1>2 DEF CountsRight

LEMMA BridgeTypedStep == BridgeTyped /\ [BridgeNext]_bridgeVars => BridgeTyped'
<1> SUFFICES ASSUME BridgeTyped, [BridgeNext]_bridgeVars PROVE BridgeTyped'
  OBVIOUS
<1> USE DEF BridgeTyped, ConnPlaces, Pumps, Using, countVars, endVars, pumpVars, socketVars
<1>1. ASSUME NEW c \in Conns, BridgeStep(c) PROVE BridgeTyped'
  <2>1. CASE ConnArrives(c)
    BY <2>1, ZenonT(40) DEF ConnArrives, Goes
  <2>2. CASE ConnRefused(c)
    BY <2>2 DEF ConnRefused, Goes
  <2>3. CASE IpAcquired(c)
    BY <2>3, ZenonT(40) DEF IpAcquired, Goes
  <2>4. CASE DialFails(c)
    BY <2>4 DEF DialFails, Released, Goes
  <2>5. CASE Dialled(c)
    <3>1. /\ place' \in [Conns -> ConnPlaces] /\ UNCHANGED <<program, browser, daemon>>
          /\ Using({"bridged"})' = Using({"bridged"}) \cup {c}
      BY <2>5 DEF Dialled, Goes
    <3>2. wsOpen' \cup tcpOpen' \subseteq Using({"bridged"})'
      <4>1. wsOpen' = wsOpen \cup {c} /\ tcpOpen' = tcpOpen \cup {c}
        BY <2>5 DEF Dialled
      <4> HIDE DEF Using
      <4> QED
        BY <3>1, <4>1
    <3>3. up' \in [Conns -> Pumps] /\ down' \in [Conns -> Pumps]
      BY <2>5 DEF Dialled
    <3> QED
      BY <3>1, <3>2, <3>3
  <2>6. CASE BrowserSends(c)
    BY <2>6 DEF BrowserSends, Moves
  <2>7. CASE UpReadFails(c)
    BY <2>7 DEF UpReadFails, Moves, ReadClosesTcp
  <2>8. CASE UpWritten(c)
    BY <2>8 DEF UpWritten, Moves
  <2>9. CASE UpWriteFails(c)
    BY <2>9 DEF UpWriteFails, Moves
  <2>10. CASE ClosedByLimit(c)
    BY <2>10 DEF ClosedByLimit, Moves
  <2>11. CASE DaemonSends(c)
    BY <2>11 DEF DaemonSends, Moves
  <2>12. CASE DownWritten(c)
    BY <2>12 DEF DownWritten, Moves
  <2>13. CASE DownEnds(c)
    BY <2>13 DEF DownEnds
  <2>14. CASE HandlerReturns(c)
    BY <2>14 DEF HandlerReturns, Released, Goes
  <2>15. CASE BrowserLeaves(c)
    BY <2>15 DEF BrowserLeaves
  <2>16. CASE DaemonLeaves(c)
    BY <2>16 DEF DaemonLeaves
  <2> QED
    BY <1>1, <2>1, <2>2, <2>3, <2>4, <2>5, <2>6, <2>7, <2>8, <2>9, <2>10, <2>11, <2>12,
       <2>13, <2>14, <2>15, <2>16 DEF BridgeStep
<1>2. CASE UNCHANGED bridgeVars
  BY <1>2 DEF bridgeVars
<1> QED
  BY <1>1, <1>2 DEF BridgeNext

LEMMA BridgeStepKeeps == BridgeInv /\ [BridgeNext]_bridgeVars => BridgeInv'
<1> SUFFICES ASSUME BridgeInv, [BridgeNext]_bridgeVars PROVE BridgeInv'
  OBVIOUS
<1>1. BridgeTyped'
  BY BridgeTypedStep DEF BridgeInv
<1>2. program' = program /\ place \in [Conns -> ConnPlaces]
  BY DEF BridgeInv, BridgeTyped, BridgeNext, BridgeStep, ConnArrives, ConnRefused, IpAcquired,
     DialFails, Dialled, BrowserSends, UpReadFails, UpWritten, UpWriteFails, ClosedByLimit,
     DaemonSends, DownWritten, DownEnds, HandlerReturns, BrowserLeaves, DaemonLeaves, Released,
     countVars, bridgeVars
<1> SUFFICES ASSUME program = "public" PROVE CountsRight'
  BY <1>1, <1>2 DEF BridgeInv
<1>3. CountsRight
  BY DEF BridgeInv
<1>4. ASSUME NEW c \in Conns, BridgeStep(c) PROVE CountsRight'
  <2>1. CASE ConnArrives(c)
    <3>1. /\ curConns' = curConns + 1 /\ UNCHANGED perIP
          /\ Goes(c, "no", IF OverCap(curConns + 1) THEN "refused" ELSE "under cap")
      BY <2>1 DEF ConnArrives
    <3>2. curConns \in Nat
      BY <1>3, FS_CardinalityType DEF CountsRight
    <3>3. ~OverCap(curConns + 1) => curConns + 1 <= MaxConns
      BY <3>2, BridgeAssumption DEF OverCap
    <3> QED
      BY <1>2, <1>3, <3>1, <3>3, CountEntered
  <2>2. CASE ConnRefused(c)
    BY <1>2, <1>3, <2>2, CountLeft DEF ConnRefused
  <2>3. CASE IpAcquired(c)
    BY <1>2, <1>3, <2>3, CountAcquired
  <2>4. CASE DialFails(c)
    BY <1>2, <1>3, <2>4, CountLeft DEF DialFails, Released
  <2>5. CASE HandlerReturns(c)
    BY <1>2, <1>3, <2>5, CountLeft DEF HandlerReturns, Released
  <2>6. CASE ~(ConnArrives(c) \/ ConnRefused(c) \/ IpAcquired(c) \/ DialFails(c) \/ HandlerReturns(c))
    <3>1. UNCHANGED place \/ Goes(c, "admitted", "bridged")
      BY <1>4, <2>6 DEF BridgeStep, Dialled, BrowserSends, UpReadFails, UpWritten, UpWriteFails,
         ClosedByLimit, DaemonSends, DownWritten, DownEnds, BrowserLeaves, DaemonLeaves
    <3>2. UNCHANGED <<curConns, perIP>>
      BY <1>4, <2>6 DEF BridgeStep, Dialled, BrowserSends, UpReadFails, UpWritten, UpWriteFails,
         ClosedByLimit, DaemonSends, DownWritten, DownEnds, BrowserLeaves, DaemonLeaves, countVars
    <3> QED
      BY <1>2, <1>3, <3>1, <3>2, CountStays
  <2> QED
    BY <2>1, <2>2, <2>3, <2>4, <2>5, <2>6
<1>5. CASE UNCHANGED bridgeVars
  BY <1>3, <1>5 DEF bridgeVars, CountsRight, Using, From
<1> QED
  BY <1>4, <1>5 DEF BridgeNext

(* The public bridge counts exactly the connections that hold a slot, and   *)
(* admits no more than its caps allow, in all and for each address, however *)
(* connections, pumps and ends overlap (tools/ws_bridge_public, ipAcquire). *)
THEOREM CapsCorrect == BridgeSpec => []BridgeTypeOK
  BY BridgeInvTyped, BridgeInitial, BridgeStepKeeps, PTL DEF BridgeSpec

(***************************************************************************)
(* The composition. A step is one component's, and the others rest.         *)
(***************************************************************************)
Inv ==
  /\ part \in Parts
  /\ PathTypeOK /\ PnInv /\ CfgInv /\ RnInv /\ DfuInv /\ BridgeInv

LEMMA Initial == Init => Inv
<1> SUFFICES ASSUME Init PROVE Inv
  OBVIOUS
<1>1. PathTypeOK /\ PnInv /\ CfgInv /\ RnInv /\ DfuInv /\ BridgeInv
  BY PathInitType, PnInitial, CfgInitial, RnInitial, DfuInitial, BridgeInitial DEF Init
<1> QED
  BY <1>1 DEF Init, Inv

LEMMA StepKeeps == Inv /\ [Next]_vars => Inv'
<1> SUFFICES ASSUME Inv, [Next]_vars PROVE Inv'
  OBVIOUS
<1>1. /\ part \in Parts /\ PathTypeOK
      /\ PnInv /\ CfgInv /\ RnInv /\ DfuInv /\ BridgeInv
  BY DEF Inv
<1>2. /\ part' = part
      /\ [PathNext]_pathVars /\ [PnNext]_pnVars /\ [CfgNext]_cfgVars /\ [RnNext]_rnVars
      /\ [DfuNext]_dfuVars /\ [BridgeNext]_bridgeVars
  BY DEF Next, vars
<1>3. PathTypeOK'
  BY <1>1, <1>2, PathNextType
<1>4. PnInv'
  BY <1>1, <1>2, PnStepKeeps
<1>5. CfgInv'
  BY <1>1, <1>2, CfgStepKeeps
<1>6. RnInv'
  BY <1>1, <1>2, RnStepKeeps
<1>7. DfuInv'
  BY <1>1, <1>2, DfuStepKeeps
<1>8. BridgeInv'
  BY <1>1, <1>2, BridgeStepKeeps
<1> QED
  BY <1>1, <1>2, <1>3, <1>4, <1>5, <1>6, <1>7, <1>8 DEF Inv

(* Whichever of the components is at work, what it keeps of the requests,   *)
(* callbacks, packets and connections it waits for is well formed.          *)
THEOREM RequestsTyped == Spec => []TypeOK
<1>1. Inv => TypeOK
  <2> SUFFICES ASSUME Inv PROVE TypeOK
    OBVIOUS
  <2>1. /\ part \in Parts
        /\ PathTypeOK /\ PnTypeOK /\ CfgTypeOK /\ RnTypeOK /\ DfuTypeOK /\ BridgeTypeOK
    BY BridgeInvTyped DEF Inv, PnInv, CfgInv, RnInv, DfuInv
  <2> QED
    BY <2>1 DEF TypeOK, Parts
<1> QED
  BY <1>1, Initial, StepKeeps, PTL DEF Spec
=============================================================================
