-------------------------------- MODULE NodeStore --------------------------------
(***************************************************************************)
(* The nodes store and its retention (js/app.js, handleNonLxmfAnnounce,     *)
(* pruneNodeStore, refreshNodesData, the detail sheet; js/store.js). An     *)
(* announce reads the row, then writes it, then counts it if it was new;    *)
(* every PruneEvery counted rows the oldest above the cap are dropped, as   *)
(* they were when the store was read. The handlers and the prunes overlap.  *)
(***************************************************************************)
EXTENDS Naturals, FiniteSets

CONSTANTS
  Nodes,      \* destinations that announce
  Linked,     \* those of a contact there are messages with, or of its identity
  Cap,        \* NODE_STORE_CAP
  PruneEvery, \* 250
  Hearings,   \* calls of handleNonLxmfAnnounce in flight
  Prunes,     \* calls of pruneNodeStore in flight
  MaxClock    \* bound: announces heard

ASSUME NodeStoreAssumption ==
  /\ IsFiniteSet(Nodes) /\ Linked \subseteq Nodes
  /\ Cap \in Nat /\ PruneEvery \in Nat \ {0} /\ MaxClock \in Nat

VARIABLES
  nodes,     \* the nodes store: lastSeen of each row, 0 when there is none
  clock,     \* announces heard so far
  counted,   \* newNodesSincePrune
  hearing,   \* each call of handleNonLxmfAnnounce, and what it read
  pruning,   \* each call of pruneNodeStore, the rows it read and the linked it spares
  listed,    \* _nodeEntries: the rows the lists and sheets were made from
  conversed, \* the linked nodes whose contact there are messages with by now
  failed,    \* history: a prune could not read or delete
  uncounted  \* history: rows that appeared since the last prune began, not counted

nodeVars == <<nodes, clock, counted, hearing, pruning, listed, conversed, failed, uncounted>>

Stored == {n \in Nodes : nodes[n] > 0}

Idle == [at |-> "no", node |-> "none", seen |-> 0, was |-> FALSE]

NoPrune == [on |-> FALSE, rows |-> [n \in Nodes |-> 0], spared |-> {}]

ReadNow == [on |-> TRUE, rows |-> nodes, spared |-> conversed]

NodesInit ==
  /\ nodes = [n \in Nodes |-> 0]
  /\ clock = 0 /\ counted = 0
  /\ hearing = [h \in Hearings |-> Idle]
  /\ pruning = [j \in Prunes |-> NoPrune]
  /\ listed = [n \in Nodes |-> 0]
  /\ conversed \in SUBSET Linked
  /\ failed = FALSE /\ uncounted = {}

heldVars == <<hearing, pruning, listed>>

-----------------------------------------------------------------------------
(* pruneNodeStore reads all rows and chooses the victims; the counter is at *)
(* zero by then, the deletion still to come.                                *)
PruneBegins ==
  /\ \E j \in Prunes :
       /\ ~pruning[j].on
       /\ pruning' = [pruning EXCEPT ![j] = ReadNow]
  /\ counted' = 0 /\ uncounted' = {}

Rows(j) == {n \in Nodes : pruning[j].rows[n] > 0}

ExcessOf(rows) == IF Cardinality(rows) > Cap THEN Cardinality(rows) - Cap ELSE 0

(* The rows linked by the time of the read are spared, but count.           *)
Candidates(j) == Rows(j) \ pruning[j].spared

Victims(j) ==
  LET older(n) == {m \in Candidates(j) : pruning[j].rows[m] < pruning[j].rows[n]}
  IN {n \in Candidates(j) : Cardinality(older(n)) < ExcessOf(Rows(j))}

PruneDeletes(j) ==
  /\ pruning[j].on
  /\ pruning' = [pruning EXCEPT ![j] = NoPrune]
  /\ nodes' = [n \in Nodes |-> IF n \in Victims(j) THEN 0 ELSE nodes[n]]
  /\ UNCHANGED <<clock, counted, hearing, listed, conversed, failed, uncounted>>

PruneFails(j) ==
  /\ pruning[j].on /\ failed' = TRUE
  /\ pruning' = [pruning EXCEPT ![j] = NoPrune]
  /\ UNCHANGED <<nodes, clock, counted, hearing, listed, conversed, uncounted>>

-----------------------------------------------------------------------------
(* handleNonLxmfAnnounce: lastSeen is set and the row read.                 *)
AnnounceHeard(h, n) ==
  /\ hearing[h].at = "no" /\ clock < MaxClock
  /\ clock' = clock + 1
  /\ hearing' = [hearing EXCEPT ![h] =
       [at |-> "read", node |-> n, seen |-> clock', was |-> n \in Stored]]
  /\ UNCHANGED <<nodes, counted, pruning, listed, conversed, failed, uncounted>>

NodeSaved(h) ==
  LET n == hearing[h].node IN
  /\ hearing[h].at = "read"
  /\ nodes' = [nodes EXCEPT ![n] = hearing[h].seen]
  /\ uncounted' = IF n \in Stored THEN uncounted ELSE uncounted \cup {n}
  /\ hearing' = [hearing EXCEPT ![h].at = "saved"]
  /\ UNCHANGED <<clock, counted, pruning, listed, conversed, failed>>

IsNewSaved(h) == hearing[h].was

IsNew(h) == ~hearing[h].was

(* A row that was not there is counted, and every so often starts a prune   *)
(* that nobody awaits.                                                      *)
NodeCounted(h) ==
  /\ hearing[h].at = "saved"
  /\ hearing' = [hearing EXCEPT ![h] = Idle]
  /\ IF IsNew(h) /\ counted + 1 >= PruneEvery
       THEN PruneBegins
       ELSE /\ counted' = IF IsNew(h) THEN counted + 1 ELSE counted
            /\ uncounted' = IF ~hearing[h].was THEN uncounted \ {hearing[h].node} ELSE uncounted
            /\ UNCHANGED pruning
  /\ UNCHANGED <<nodes, clock, listed, conversed, failed>>

-----------------------------------------------------------------------------
(* refreshNodesData: what is listed is what the store holds now.            *)
ListRefreshed ==
  /\ listed' = nodes
  /\ UNCHANGED <<nodes, clock, counted, hearing, pruning, conversed, failed, uncounted>>

(* A nickname is written into the listed row, and that one is saved: the    *)
(* store's own may have gone, or be newer.                                  *)
Renamed(n) ==
  /\ listed[n] > 0
  /\ nodes' = [nodes EXCEPT ![n] = listed[n]]
  /\ uncounted' = IF n \in Stored THEN uncounted ELSE uncounted \cup {n}
  /\ UNCHANGED <<clock, counted, heldVars, conversed, failed>>

NodeDeleted(n) ==
  /\ listed[n] > 0
  /\ nodes' = [nodes EXCEPT ![n] = 0]
  /\ UNCHANGED <<clock, counted, heldVars, conversed, failed, uncounted>>

NodesCleared ==
  /\ nodes' = [n \in Nodes |-> 0]
  /\ UNCHANGED <<clock, counted, heldVars, conversed, failed, uncounted>>

(* A message to or from a linked node's contact.                            *)
Converses(n) ==
  /\ n \in Linked /\ conversed' = conversed \cup {n}
  /\ UNCHANGED <<nodes, clock, counted, heldVars, failed, uncounted>>

(* A reload forgets the count, and prunes as it loads.                      *)
NodesReload ==
  /\ hearing' = [h \in Hearings |-> Idle]
  /\ listed' = [n \in Nodes |-> 0]
  /\ counted' = 0 /\ uncounted' = {}
  /\ \E j \in Prunes :
       pruning' = [k \in Prunes |-> IF k = j THEN ReadNow ELSE NoPrune]
  /\ UNCHANGED <<nodes, clock, conversed, failed>>

NodesNext ==
  \/ \E h \in Hearings : (\E n \in Nodes : AnnounceHeard(h, n)) \/ NodeSaved(h) \/ NodeCounted(h)
  \/ \E j \in Prunes : PruneDeletes(j) \/ PruneFails(j)
  \/ \E n \in Nodes : Renamed(n) \/ NodeDeleted(n) \/ Converses(n)
  \/ ListRefreshed \/ NodesCleared \/ NodesReload

NodesSpec == NodesInit /\ [][NodesNext]_nodeVars

-----------------------------------------------------------------------------
(* Properties.                                                              *)

NodesTypeOK ==
  /\ nodes \in [Nodes -> 0..MaxClock]
  /\ clock \in 0..MaxClock /\ counted \in 0..(PruneEvery - 1)
  /\ listed \in [Nodes -> 0..MaxClock]
  /\ conversed \subseteq Linked /\ uncounted \subseteq Nodes

(* The store stays bounded however announces, prunes, renames and reloads   *)
(* overlap: when no prune is under way it holds no more than the cap, or    *)
(* the linked rows if those are more, the rows counted since the last prune *)
(* and those that came in past the count: not yet counted, renamed after    *)
(* they had gone, or written again by an announce that had read them before *)
(* (pruneNodeStore; "the nodes store is otherwise unbounded"). A prune that *)
(* fails is made up for by none until the next PruneEvery rows.             *)
StoreBounded ==
  ~failed /\ (\A j \in Prunes : ~pruning[j].on) =>
    Cardinality(Stored) <=
      (IF Cap > Cardinality(conversed) THEN Cap ELSE Cardinality(conversed))
        + counted + Cardinality(uncounted)
=============================================================================
