------------------------------- MODULE AlnRouter -------------------------------
(***************************************************************************)
(* Reticulum over an agnostic-LoRa-Net node (js/aln-router.js,              *)
(* js/aln-interface.js): packets are addressed to mesh nodes, from tables   *)
(* learned from the node's console lines and from the frames that arrive.   *)
(* One consumer handles lines and frames in their order; it and the callers *)
(* of sendPacket suspend at every hash and every BLE write and share the    *)
(* tables and the queue of packets that have no route yet.                  *)
(***************************************************************************)
EXTENDS Naturals, Sequences, FiniteSets

CONSTANTS
  Packets,     \* what the page sends in one session, each at most once
  KindOf,      \* their kinds
  DestOf,      \* what each is for: an id, a link or a hash
  Ids,         \* directory ids of peers
  Links,       \* links that peers open
  Hashes,      \* truncated hashes of received data packets
  Nodes,       \* mesh nodes
  Nobody,      \* not a node, not a packet
  MaxPending,  \* MAX_PENDING
  MaxReverse,  \* MAX_REVERSE_ROUTES
  MaxSends,    \* bound: packets sent in a session
  MaxItems     \* bound: lines and frames that arrive

Kinds == {"announce", "plain", "data", "linkreq", "link", "proof"}

OfKind(k) == {p \in Packets : KindOf[p] = k}

(* A link has its LINKREQUEST's hash as id, whoever sent that.              *)
LinkIds == Links \cup OfKind("linkreq")

ASSUME AlnAssumption ==
  /\ MaxPending \in Nat \ {0} /\ MaxReverse \in Nat \ {0}
  /\ MaxSends \in Nat /\ MaxItems \in Nat
  /\ Nobody \notin Nodes \cup Packets
  /\ KindOf \in [Packets -> Kinds]
  /\ \A p \in OfKind("data") \cup OfKind("linkreq") : DestOf[p] \in Ids
  /\ \A p \in OfKind("link") : DestOf[p] \in LinkIds
  /\ \A p \in OfKind("proof") : DestOf[p] \in Hashes

VARIABLES
  up,        \* the BLE link is up
  attached,  \* attachedNodeHex
  fallback,  \* fallbackUplinkHex
  bound,     \* _bindings: id to node
  pinned,    \* _linkRoutes: link id to node
  back,      \* _reverseRoutes, oldest first
  pending,   \* _pending
  cached,    \* _cachedSelfAnnounce
  toldTo,    \* _announcedTo
  inbox,     \* _inboundQueue
  pump,      \* where _drainInbound is, and what it holds
  send,      \* where each packet's sendPacket call is, and its targets
  sent,      \* history: the frames written, a packet and its node each
  lost,      \* history: packets a write of which failed, or that were evicted
  arrived    \* counter of lines and frames, for the bound

tableVars == <<attached, fallback, bound, pinned, back>>
queueVars == <<pending, cached, toldTo>>
ioVars    == <<inbox, arrived>>
outVars   == <<sent, lost>>
alnVars   == <<up, tableVars, queueVars, ioVars, pump, send, outVars>>

SeqSet(s) == {s[i] : i \in DOMAIN s}

PumpIdle == [at |-> "idle", item |-> Nobody, pkt |-> Nobody, node |-> Nobody,
             routes |-> FALSE, keep |-> <<>>, out |-> <<>>]

AlnInit ==
  /\ up = TRUE
  /\ attached = Nobody /\ fallback \in Nodes \cup {Nobody}
  /\ bound = [x \in Ids |-> Nobody]
  /\ pinned = [l \in LinkIds |-> Nobody]
  /\ back = <<>>
  /\ pending = <<>> /\ cached = Nobody /\ toldTo = {}
  /\ inbox = <<>> /\ arrived = 0
  /\ pump = PumpIdle
  /\ send = [p \in Packets |-> [at |-> "no", targets |-> {}]]
  /\ sent = {} /\ lost = {}

-----------------------------------------------------------------------------
(* Routes. The attached node is never an answer: a frame to it comes back.  *)

UsableFallback == IF fallback # attached THEN fallback ELSE Nobody

(* The node of a reverse route, with b the table.                           *)
BackNode(h, b) ==
  LET found == {n \in Nodes : [hash |-> h, node |-> n] \in SeqSet(b)}
  IN IF found = {} THEN Nobody ELSE CHOOSE n \in found : TRUE

Learned(p, bnd, b) ==
  CASE KindOf[p] = "link"  -> pinned[DestOf[p]]
    [] KindOf[p] = "proof" -> BackNode(DestOf[p], b)
    [] OTHER               -> bnd[DestOf[p]]

(* _resolveNodeFor, with the tables bnd and b.                              *)
NodeFor(p, bnd, b) ==
  IF Learned(p, bnd, b) \notin {Nobody, attached}
    THEN Learned(p, bnd, b) ELSE UsableFallback

Fanout(bnd) ==
  ({bnd[x] : x \in Ids} \cup {UsableFallback}) \ {Nobody, attached}

(* Any binding may have passed its ten minutes, and of the reverse routes   *)
(* the oldest.                                                              *)
Prune ==
  /\ \E old \in SUBSET Ids :
       bound' = [x \in Ids |-> IF x \in old THEN Nobody ELSE bound[x]]
  /\ \E n \in 0..Len(back) : back' = SubSeq(back, n + 1, Len(back))

-----------------------------------------------------------------------------
(* sendPacket.                                                              *)

CalledSends == {p \in Packets : send[p].at # "no"}

Sending(p, at, targets) ==
  send' = [send EXCEPT ![p] = [at |-> at, targets |-> targets]]

FanOut(p, targets) ==
  Sending(p, IF targets = {} THEN "deferred" ELSE "writing", targets)

(* An announce of ours supersedes the cached one; who got that is           *)
(* forgotten.                                                               *)
RouteAnnounceUncleared(p) ==
  /\ cached' = p
  /\ toldTo' = toldTo \cup Fanout(bound')
  /\ FanOut(p, Fanout(bound'))
  /\ UNCHANGED <<pending, lost>>

RouteAnnounce(p) ==
  /\ cached' = p
  /\ toldTo' = Fanout(bound')
  /\ FanOut(p, Fanout(bound'))
  /\ UNCHANGED <<pending, lost>>

(* No route: a proof is dropped, since only the peer's retry can make one;  *)
(* the rest waits, and the oldest is dropped when the queue is full.        *)
Buffer(p) ==
  IF KindOf[p] = "proof"
    THEN Sending(p, "deferred", {}) /\ UNCHANGED <<pending, lost>>
    ELSE /\ Sending(p, "buffered", {})
         /\ IF Len(pending) >= MaxPending
              THEN /\ pending' = Append(Tail(pending), p)
                   /\ lost' = lost \cup {Head(pending)}
              ELSE pending' = Append(pending, p) /\ UNCHANGED lost

(* routeOutbound up to its await.                                           *)
RouteOutbound(p) ==
  /\ up /\ send[p].at = "no"
  /\ Cardinality(CalledSends) < MaxSends
  /\ Prune
  /\ CASE KindOf[p] = "announce" -> RouteAnnounce(p)
       [] KindOf[p] = "plain" -> FanOut(p, Fanout(bound')) /\ UNCHANGED <<queueVars, lost>>
       [] OTHER ->
            /\ IF NodeFor(p, bound', back') = Nobody
                 THEN Buffer(p)
                 ELSE /\ Sending(p, "recording", {NodeFor(p, bound', back')})
                      /\ UNCHANGED <<pending, lost>>
            /\ UNCHANGED <<cached, toldTo>>
  /\ UNCHANGED <<up, attached, fallback, pinned, ioVars, pump, sent>>

(* A LINKREQUEST pins its link to the node it goes to, known by now or not  *)
(* to be the attached one.                                                  *)
Pin(p, n) ==
  IF KindOf[p] = "linkreq" THEN pinned' = [pinned EXCEPT ![p] = n]
                           ELSE UNCHANGED pinned

RecordLinkRequest(p) ==
  /\ send[p].at = "recording"
  /\ \E n \in send[p].targets : Pin(p, n)
  /\ Sending(p, "writing", send[p].targets)
  /\ UNCHANGED <<up, attached, fallback, bound, back, queueVars, ioVars, pump,
                 outVars>>

(* One target after the other; the first write that fails ends the call.    *)
WriteTo(p) ==
  /\ send[p].at = "writing"
  /\ \/ /\ up
        /\ \E n \in send[p].targets :
             /\ sent' = sent \cup {<<p, n>>}
             /\ Sending(p, IF send[p].targets = {n} THEN "done" ELSE "writing",
                        send[p].targets \ {n})
        /\ UNCHANGED lost
     \/ /\ lost' = lost \cup {p}
        /\ Sending(p, "done", {})
        /\ UNCHANGED sent
  /\ UNCHANGED <<up, tableVars, queueVars, ioVars, pump>>

-----------------------------------------------------------------------------
(* The reverse routes less some: SelectSeq as a recursive function, which   *)
(* proofs can reason about.                                                 *)
Without(b, gone) ==
  LET left[k \in 0..Len(b)] ==
        IF k = 0 THEN <<>> ELSE IF b[k] \in gone THEN left[k - 1] ELSE Append(left[k - 1], b[k])
  IN left[Len(b)]

-----------------------------------------------------------------------------
(* The consumer.                                                            *)

Item(type, key, node) == [type |-> type, key |-> key, node |-> node]

(* What the node sends: answers to resolve and rows of the directory, our   *)
(* own row, acknowledgements and heartbeats with its own id, and frames.    *)
Lines == {Item("loc", x, n) : x \in Ids, n \in Nodes}
       \cup {Item("self", Nobody, n) : n \in Nodes}
       \cup {Item("registered", Nobody, n) : n \in Nodes}
Frames == {Item("announce", x, n) : x \in Ids, n \in Nodes}
       \cup {Item("linkreq", l, n) : l \in LinkIds, n \in Nodes}
       \cup {Item("data", h, n) : h \in Hashes, n \in Nodes}

(* A frame of our own node is dropped at once.                              *)
Arrive ==
  /\ up /\ arrived < MaxItems
  /\ arrived' = arrived + 1
  /\ \E i \in Lines \cup Frames :
       inbox' = IF i \in Frames /\ i.node = attached THEN inbox ELSE Append(inbox, i)
  /\ UNCHANGED <<up, tableVars, queueVars, pump, send, outVars>>

Drop == pump' = PumpIdle /\ UNCHANGED <<tableVars, toldTo>>

(* A node we are attached to is scrubbed from the tables.                   *)
LearnAttached(n) ==
  /\ pump' = PumpIdle /\ UNCHANGED <<toldTo, fallback>>
  /\ IF n = attached THEN UNCHANGED <<attached, bound, pinned, back>>
     ELSE /\ attached' = n
          /\ bound' = [x \in Ids |-> IF bound[x] = n THEN Nobody ELSE bound[x]]
          /\ pinned' = [l \in LinkIds |-> IF pinned[l] = n THEN Nobody ELSE pinned[l]]
          /\ back' = Without(back, [hash : Hashes, node : {n}])

Unmet(n) == n \notin toldTo /\ \A x \in Ids : bound[x] # n

(* _handleDirectoryEvent up to its first await: greet a new node with the   *)
(* announce it does not have, then look for packets that have a route now.  *)
HandleEvent(new, n, changed) ==
  IF new /\ cached # Nobody /\ n \notin toldTo
    THEN /\ pump' = [PumpIdle EXCEPT !.at = "greet", !.pkt = cached, !.node = n,
                                     !.routes = changed]
         /\ toldTo' = toldTo \cup {n}
    ELSE /\ pump' = IF changed THEN [PumpIdle EXCEPT !.at = "drain"] ELSE PumpIdle
         /\ UNCHANGED toldTo

ChangedIfUnmet(x, n) == Unmet(n)

Changed(x, n) == bound[x] # n

Upsert(x, n) ==
  IF n = attached THEN Drop
  ELSE /\ bound' = [bound EXCEPT ![x] = n]
       /\ HandleEvent(Unmet(n), n, Changed(x, n))
       /\ UNCHANGED <<attached, fallback, pinned, back>>

(* An item is taken; the hash of a LINKREQUEST or a DATA packet is awaited, *)
(* anything else is handled at once.                                        *)
TakeItem ==
  /\ pump.at = "idle" /\ inbox # <<>>
  /\ inbox' = Tail(inbox)
  /\ LET i == Head(inbox) IN
       CASE i.type \in {"linkreq", "data"} ->
              /\ pump' = IF i.node = attached THEN PumpIdle
                         ELSE [PumpIdle EXCEPT !.at = "hash", !.item = i]
              /\ UNCHANGED <<tableVars, toldTo>>
         [] i.type = "registered" -> LearnAttached(i.node)
         [] i.type = "self" -> IF attached = Nobody THEN LearnAttached(i.node) ELSE Drop
         [] OTHER -> Upsert(i.key, i.node)
  /\ UNCHANGED <<up, pending, cached, arrived, send, outVars>>

(* The newest is moved to the end, and the oldest go.                       *)
NewestPeers(b) == IF Len(b) > MaxReverse
               THEN SubSeq(b, Len(b) - MaxReverse + 1, Len(b)) ELSE b

ItemHashed ==
  /\ pump.at = "hash"
  /\ LET i == pump.item IN
       IF i.type = "linkreq"
         THEN /\ pinned' = [pinned EXCEPT ![i.key] = i.node]
              /\ pump' = [PumpIdle EXCEPT !.at = "drain"]
              /\ UNCHANGED back
         ELSE /\ back' = NewestPeers(Append(Without(back, [hash : {i.key}, node : Nodes]),
                                       [hash |-> i.key, node |-> i.node]))
              /\ pump' = PumpIdle
              /\ UNCHANGED pinned
  /\ UNCHANGED <<up, attached, fallback, bound, queueVars, ioVars, send, outVars>>

(* A write of the consumer's succeeds or fails; both are only logged.       *)
Written(p, n) ==
  \/ up /\ sent' = sent \cup {<<p, n>>} /\ UNCHANGED lost
  \/ lost' = lost \cup {p} /\ UNCHANGED sent

Greeted ==
  /\ pump.at = "greet"
  /\ Written(pump.pkt, pump.node)
  /\ pump' = IF pump.routes THEN [PumpIdle EXCEPT !.at = "drain"] ELSE PumpIdle
  /\ UNCHANGED <<up, tableVars, queueVars, ioVars, send>>

Routable(p) == NodeFor(p, bound, back) # Nobody

DroppedUnroutable(keep) == <<>>

(* What is kept goes behind what came meanwhile: the bound is not looked at.*)
PutBack(keep) == keep

FlushOrIdle(out) ==
  IF out = <<>> THEN PumpIdle ELSE [PumpIdle EXCEPT !.at = "flush", !.out = out]

(* drainRoutable: the queue is emptied up to the first packet with a route, *)
(* which suspends it; at the end the others are put back.                   *)
DrainRoutable ==
  /\ pump.at = "drain"
  /\ LET routable == {k \in DOMAIN pending : Routable(pending[k])}
         k == CHOOSE j \in routable : \A o \in routable : j <= o
     IN IF routable = {}
          THEN /\ pending' = PutBack(pump.keep \o pending)
               /\ pump' = FlushOrIdle(pump.out)
          ELSE /\ pending' = SubSeq(pending, k + 1, Len(pending))
               /\ pump' = [pump EXCEPT !.at = "record", !.pkt = pending[k],
                                       !.node = NodeFor(pending[k], bound, back),
                                       !.keep = @ \o SubSeq(pending, 1, k - 1)]
  /\ UNCHANGED <<up, tableVars, cached, toldTo, ioVars, send, outVars>>

DrainRecorded ==
  /\ pump.at = "record"
  /\ Pin(pump.pkt, pump.node)
  /\ pump' = [pump EXCEPT !.at = "drain", !.pkt = Nobody, !.node = Nobody,
                          !.out = Append(@, <<pump.pkt, pump.node>>)]
  /\ UNCHANGED <<up, attached, fallback, bound, back, queueVars, ioVars, send,
                 outVars>>

Flush ==
  /\ pump.at = "flush"
  /\ Written(Head(pump.out)[1], Head(pump.out)[2])
  /\ pump' = FlushOrIdle(Tail(pump.out))
  /\ UNCHANGED <<up, tableVars, queueVars, ioVars, send>>

(* The link to the node is lost; the page will make another interface.      *)
Disconnect ==
  /\ up /\ up' = FALSE
  /\ UNCHANGED <<tableVars, queueVars, ioVars, pump, send, outVars>>

AlnNext ==
  \/ \E p \in Packets : RouteOutbound(p) \/ RecordLinkRequest(p) \/ WriteTo(p)
  \/ Arrive \/ TakeItem \/ ItemHashed \/ Greeted
  \/ DrainRoutable \/ DrainRecorded \/ Flush
  \/ Disconnect

AlnSpec == AlnInit /\ [][AlnNext]_alnVars

-----------------------------------------------------------------------------
(* Properties.                                                              *)

(* Well typed; and the consumer holds packets only while it drains or       *)
(* writes (_drainInbound).                                                  *)
AlnTypeOK ==
  /\ up \in BOOLEAN
  /\ attached \in Nodes \cup {Nobody} /\ fallback \in Nodes \cup {Nobody}
  /\ bound \in [Ids -> Nodes \cup {Nobody}]
  /\ pinned \in [LinkIds -> Nodes \cup {Nobody}]
  /\ back \in Seq([hash : Hashes, node : Nodes]) /\ Len(back) <= MaxReverse
  /\ pending \in Seq(Packets)
  /\ cached \in Packets \cup {Nobody} /\ toldTo \subseteq Nodes
  /\ inbox \in Seq(Lines \cup Frames) /\ arrived \in Nat
  /\ pump \in [at : {"idle", "hash", "greet", "drain", "record", "flush"},
               item : Lines \cup Frames \cup {Nobody},
               pkt : Packets \cup {Nobody}, node : Nodes \cup {Nobody},
               routes : BOOLEAN, keep : Seq(Packets),
               out : Seq(Packets \X Nodes)]
  /\ pump.at \in {"idle", "hash", "greet"} => pump.keep = <<>> /\ pump.out = <<>>
  /\ send \in [Packets ->
        [at : {"no", "deferred", "buffered", "recording", "writing", "done"},
         targets : SUBSET Nodes]]
  /\ sent \subseteq Packets \X Nodes /\ lost \subseteq Packets

Times(p, s) == Cardinality({i \in DOMAIN s : s[i] = p})

FlushTimes(p) == Cardinality({i \in DOMAIN pump.out : pump.out[i][1] = p})

(* A packet that sendPacket buffered is in exactly one place for the rest   *)
(* of the session: in the queue, in the consumer's hands, written to one    *)
(* node, or given up, whatever is buffered and evicted while the consumer   *)
(* drains (routeOutbound, drainRoutable, _handleDirectoryEvent).            *)
BufferedInOnePlace ==
  \A p \in Packets : send[p].at = "buffered" =>
    Times(p, pending) + Times(p, pump.keep) + FlushTimes(p)
      + (IF pump.at = "record" /\ pump.pkt = p THEN 1 ELSE 0)
      + Cardinality({n \in Nodes : <<p, n>> \in sent})
      + (IF p \in lost THEN 1 ELSE 0) = 1

Rest == pump.at = "idle"

(* When the consumer rests, no packet waits whose destination the directory *)
(* has bound to a node: every change of a binding looks through the queue,  *)
(* also for what was buffered while an earlier look was suspended (_upsert, *)
(* drainRoutable).                                                          *)
BufferedIsUnresolved ==
  Rest => \A p \in SeqSet(pending) :
            KindOf[p] \in {"data", "linkreq"} => bound[DestOf[p]] = Nobody

(* When the consumer rests and no write has failed, every node that serves  *)
(* a peer has been sent our latest announce, or its write is under way: a   *)
(* new announce forgets who had the last one, and a node that appears is    *)
(* greeted (routeOutbound, _upsert, cachedAnnounceFor).                     *)
PeersGreeted ==
  Rest /\ up /\ lost = {} /\ cached # Nobody =>
    \A x \in Ids : bound[x] # Nobody =>
      <<cached, bound[x]>> \in sent \/ bound[x] \in send[cached].targets
=============================================================================
