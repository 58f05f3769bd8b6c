--------------------------------- MODULE PnSync ---------------------------------
(***************************************************************************)
(* Fetching our messages from a propagation node (js/app.js, pnSyncNow,     *)
(* pnRequest, handlePnResponse, pnIngestBlob; js/propagation.js). A sync    *)
(* opens a link, asks for a listing, then fetches and acknowledges in       *)
(* rounds, one request at a time; the node purges what is acknowledged. The *)
(* flag that keeps syncs apart is tested before an await and set after it.  *)
(* A request is on the link as pending, with a timer, until its answer, the *)
(* timer or its failed write takes it off.                                  *)
(***************************************************************************)
EXTENDS Naturals, FiniteSets

CONSTANTS
  Syncs,     \* calls of pnSyncNow in one session, numbered as they begin
  Blobs,     \* messages at the node, by their transient ids
  PerRound,  \* PN_WANTED_PER_ROUND
  MaxRounds  \* PN_MAX_ROUNDS

ASSUME PnAssumption ==
  Syncs \subseteq Nat /\ PerRound \in Nat \ {0} /\ MaxRounds \in Nat \ {0}

VARIABLES
  online,   \* radioOn
  syncing,  \* pnState.syncing
  kept,     \* the ids of PN_SEEN_KEY in the local storage
  sync,     \* where each call is, and its variables
  pnding,   \* the round whose request is _pnPending with its timer, or None
  writes,   \* rounds whose sendPacket has not settled
  reply,    \* the node's answer on its way to each sync
  held,     \* the node: blobs it has
  tried,    \* history: blobs that were ingested, or failed to be, or were never there
  late      \* history: a write that failed late took the next request off

pnVars == <<online, syncing, kept, sync, pnding, writes, reply, held, tried, late>>

Rounds == 0..MaxRounds

None == MaxRounds + 1

NoReply == [round |-> None, ids |-> {}]

(* Round 0 is the listing.                                                  *)
NotBegun == [at |-> "no", round |-> 0, fresh |-> {}, acks |-> {}, seen |-> {},
             wanted |-> {}, acked |-> {}, bundle |-> {}]

Over == [NotBegun EXCEPT !.at = "done"]

PnInit ==
  /\ online = TRUE /\ syncing = FALSE
  /\ held \in SUBSET Blobs
  /\ kept \in SUBSET Blobs /\ tried = kept \cup (Blobs \ held)
  /\ sync = [s \in Syncs |-> NotBegun]
  /\ pnding = [s \in Syncs |-> None]
  /\ writes = [s \in Syncs |-> {}]
  /\ reply = [s \in Syncs |-> NoReply]
  /\ late = FALSE

At(s, place) == sync[s].at = place

wireVars == <<writes, reply, held>>

-----------------------------------------------------------------------------
(* pnSyncNow.                                                               *)

SyncBegins(s) ==
  /\ At(s, "no") /\ \A t \in Syncs : At(t, "no") => s <= t
  /\ online /\ ~syncing
  /\ sync' = [sync EXCEPT ![s].at = "picking"]
  /\ UNCHANGED <<online, syncing, kept, pnding, wireVars, tried, late>>

(* pnPickNode knows no node, or only one that is paused when nobody asked   *)
(* for a sync.                                                              *)
NoNode(s) == sync' = [sync EXCEPT ![s] = Over] /\ UNCHANGED syncing

(* With a node the flag is set.                                             *)
NodePicked(s) ==
  /\ At(s, "picking")
  /\ \/ NoNode(s)
     \/ sync' = [sync EXCEPT ![s].at = "opening"] /\ syncing' = TRUE
  /\ UNCHANGED <<online, kept, pnding, wireVars, tried, late>>

(* The end of every sync: what is pending goes, the link is closed (what is *)
(* still on its way has no one to answer), and the flag is cleared, whoever *)
(* set it.                                                                  *)
EndSync(s) ==
  /\ sync' = [sync EXCEPT ![s] = Over]
  /\ pnding' = [pnding EXCEPT ![s] = None]
  /\ writes' = [writes EXCEPT ![s] = {}]
  /\ reply' = [reply EXCEPT ![s] = NoReply]
  /\ syncing' = FALSE

(* The link is open and we are identified on it.                            *)
LinkOpened(s) ==
  /\ At(s, "opening") /\ online
  /\ sync' = [sync EXCEPT ![s].at = "building"]
  /\ UNCHANGED <<online, syncing, kept, pnding, wireVars, tried, late>>

OpeningFails(s) ==
  /\ At(s, "opening")
  /\ EndSync(s)
  /\ UNCHANGED <<online, kept, held, tried, late>>

(* The loop: a batch to fetch and a batch to acknowledge, until both lists  *)
(* are empty or the rounds used up; then the ids are stored.                *)
Batch(S) ==
  {B \in SUBSET S : Cardinality(B) = IF Cardinality(S) < PerRound THEN Cardinality(S) ELSE PerRound}

Continue(s, fresh, acks, seen) ==
  IF (fresh # {} \/ acks # {}) /\ sync[s].round < MaxRounds
    THEN /\ \E w \in Batch(fresh), a \in Batch(acks) :
              sync' = [sync EXCEPT ![s] =
                [at |-> "building", round |-> sync[s].round + 1,
                 fresh |-> fresh \ w, acks |-> acks \ a, seen |-> seen,
                 wanted |-> w, acked |-> a, bundle |-> {}]]
         /\ pnding' = [pnding EXCEPT ![s] = None]
         /\ reply' = [reply EXCEPT ![s] = NoReply]
         /\ UNCHANGED <<syncing, kept, writes>>
    ELSE EndSync(s) /\ kept' = seen

-----------------------------------------------------------------------------
(* pnRequest.                                                               *)

ArmedNever(s) == UNCHANGED pnding

Armed(s) == pnding' = [pnding EXCEPT ![s] = sync[s].round]

RequestBuilt(s) ==
  /\ At(s, "building")
  /\ Armed(s)
  /\ writes' = [writes EXCEPT ![s] = @ \cup {sync[s].round}]
  /\ sync' = [sync EXCEPT ![s].at = "waiting"]
  /\ UNCHANGED <<online, syncing, kept, reply, held, tried, late>>

WriteSucceeds(s) ==
  /\ \E r \in writes[s] : writes' = [writes EXCEPT ![s] = @ \ {r}]
  /\ UNCHANGED <<online, syncing, kept, sync, pnding, reply, held, tried, late>>

(* A failed write takes off whatever is pending by now, and rejects its own *)
(* request: too late for one that is answered.                              *)
WriteFails(s) ==
  /\ \E r \in writes[s] :
       IF At(s, "waiting") /\ sync[s].round = r
         THEN EndSync(s) /\ UNCHANGED late
         ELSE /\ writes' = [writes EXCEPT ![s] = @ \ {r}]
              /\ pnding' = [pnding EXCEPT ![s] = None]
              /\ late' = (late \/ pnding[s] # None)
              /\ UNCHANGED <<sync, syncing, reply>>
  /\ UNCHANGED <<online, kept, held, tried>>

RequestTimesOut(s) ==
  /\ pnding[s] # None
  /\ EndSync(s)
  /\ UNCHANGED <<online, kept, held, tried, late>>

(* The node answers a request once: with what it has, less what its limits  *)
(* leave out, having purged what is acknowledged.                           *)
NodeAnswers(s) ==
  /\ At(s, "waiting") /\ online
  /\ reply[s].round # sync[s].round
  /\ held' = held \ sync[s].acked
  /\ \E ids \in SUBSET (IF sync[s].round = 0 THEN held ELSE sync[s].wanted \cap held) :
       reply' = [reply EXCEPT ![s] = [round |-> sync[s].round, ids |-> ids]]
  /\ UNCHANGED <<online, syncing, kept, sync, pnding, writes, tried, late>>

(* handlePnResponse: only the answer to what is pending counts, inline or   *)
(* assembled from a resource.                                               *)
Matches(s) == pnding[s] # None /\ reply[s].round = pnding[s]

ListingArrives(s) ==
  /\ At(s, "waiting") /\ Matches(s) /\ sync[s].round = 0
  /\ Continue(s, reply[s].ids \ kept, reply[s].ids \cap kept, kept)
  /\ UNCHANGED <<online, held, tried, late>>

AckedWithWanted(s) == sync[s].acks \cup sync[s].wanted

AckedSoFar(s) == sync[s].acks

BundleArrives(s) ==
  /\ At(s, "waiting") /\ Matches(s) /\ sync[s].round > 0
  /\ IF sync[s].wanted = {} \/ reply[s].ids = {}
       THEN Continue(s, sync[s].fresh, AckedSoFar(s), sync[s].seen)
       ELSE /\ sync' = [sync EXCEPT ![s].at = "ingesting", ![s].bundle = reply[s].ids]
            /\ pnding' = [pnding EXCEPT ![s] = None]
            /\ reply' = [reply EXCEPT ![s] = NoReply]
            /\ UNCHANGED <<syncing, kept, writes>>
  /\ UNCHANGED <<online, held, tried, late>>

(* An error code, a malformed bundle, or a resource that fails.             *)
AnswerIsError(s) ==
  /\ At(s, "waiting") /\ Matches(s)
  /\ EndSync(s)
  /\ UNCHANGED <<online, kept, held, tried, late>>

(* pnIngestBlob does its best; either way the blob is seen and will be      *)
(* acknowledged, unless it is too short to have an id.                      *)
BlobIngested(s) ==
  /\ At(s, "ingesting")
  /\ \E b \in sync[s].bundle, identified \in BOOLEAN :
       LET left == sync[s].bundle \ {b}
           ids == IF identified THEN {b} ELSE {}
           seen == sync[s].seen \cup ids
           acks == AckedSoFar(s) \cup ids
       IN /\ tried' = tried \cup {b}
          /\ IF left = {}
               THEN Continue(s, sync[s].fresh, acks, seen)
               ELSE /\ sync' = [sync EXCEPT ![s].bundle = left, ![s].seen = seen,
                                            ![s].acks = acks]
                    /\ UNCHANGED <<pnding, syncing, kept, writes, reply>>
  /\ UNCHANGED <<online, held, late>>

(* The transport is lost. An opening that waits for a path then is never    *)
(* told so.                                                                 *)
LosesTransport ==
  /\ online /\ online' = FALSE
  /\ \E S \in SUBSET {s \in Syncs : At(s, "opening")} :
       sync' = [s \in Syncs |-> IF s \in S THEN [sync[s] EXCEPT !.at = "stuck"] ELSE sync[s]]
  /\ UNCHANGED <<syncing, kept, pnding, wireVars, tried, late>>

PnStep(s) ==
  \/ SyncBegins(s) \/ NodePicked(s) \/ LinkOpened(s) \/ OpeningFails(s)
  \/ RequestBuilt(s) \/ WriteSucceeds(s) \/ WriteFails(s) \/ RequestTimesOut(s)
  \/ NodeAnswers(s) \/ ListingArrives(s) \/ BundleArrives(s) \/ AnswerIsError(s)
  \/ BlobIngested(s)

PnNext == (\E s \in Syncs : PnStep(s)) \/ LosesTransport

(* What the page goes on with by itself: its suspended calls and its timers *)
(* (an opening ends by a timer of its own, InitiatorLink). The node and the *)
(* transport owe nothing.                                                   *)
PnGoesOn(s) ==
  NodePicked(s) \/ OpeningFails(s) \/ RequestBuilt(s) \/ RequestTimesOut(s) \/ BlobIngested(s)

PnSpec == PnInit /\ [][PnNext]_pnVars

PnFairSpec == PnSpec /\ \A s \in Syncs : WF_pnVars(PnGoesOn(s))

-----------------------------------------------------------------------------
(* Properties.                                                              *)

(* Well typed; and a request is pending only for the round its sync waits   *)
(* in (pnRequest).                                                          *)
PnTypeOK ==
  /\ {online, syncing, late} \subseteq BOOLEAN
  /\ kept \subseteq Blobs /\ held \subseteq Blobs /\ tried \subseteq Blobs
  /\ sync \in [Syncs ->
       [at : {"no", "picking", "opening", "stuck", "building", "waiting", "ingesting", "done"},
        round : Rounds, fresh : SUBSET Blobs, acks : SUBSET Blobs, seen : SUBSET Blobs,
        wanted : SUBSET Blobs, acked : SUBSET Blobs, bundle : SUBSET Blobs]]
  /\ pnding \in [Syncs -> Rounds \cup {None}]
  /\ \A s \in Syncs : pnding[s] # None => At(s, "waiting") /\ pnding[s] = sync[s].round
  /\ writes \in [Syncs -> SUBSET Rounds]
  /\ reply \in [Syncs -> [round : Rounds \cup {None}, ids : SUBSET Blobs]]

(* The node purges a message only after the client had it in hand: it was   *)
(* ingested, or it could not be, in this sync, another or an earlier one.   *)
(* A listing alone, a round that failed or a bundle that was cut short      *)
(* acknowledges nothing (pnSyncNow: ackQueue).                              *)
PurgedWasTried == Blobs \ held \subseteq tried

(* Every sync ends and gives the flag back, whatever the node leaves        *)
(* unanswered and whenever the transport goes, so that another can run. Two *)
(* losses are excepted: that of the transport while a link is opened waits  *)
(* for a path, and a write that fails after its answer came, which takes    *)
(* the next request off the link (pnRequest: sendPacket's catch).           *)
SyncEnds ==
  \A s \in Syncs : At(s, "picking") ~> (At(s, "done") \/ At(s, "stuck") \/ late)
=============================================================================
