------------------------------ MODULE Announcing ------------------------------
(***************************************************************************)
(* Our own announces and the ratchet keys in them (js/app.js, sendAnnounce, *)
(* startAnnounceTimer, handlePathRequest, initIdentity; js/identity.js).    *)
(* Announces start at the timer, on a button and as answers to path         *)
(* requests; nobody waits for an earlier one. A rotation retires the        *)
(* current key into a ring of limited depth, which is saved with the        *)
(* identity, so that what peers encrypt to an older announce can still be   *)
(* read. Keys are numbered as they are generated, and times are compared    *)
(* with the limits only.                                                    *)
(***************************************************************************)
EXTENDS Naturals, Sequences, FiniteSets

CONSTANTS
  Calls,         \* calls of sendAnnounce that can be under way together
  Tags,          \* tags of path requests
  RingDepth,     \* RATCHET_RING_DEPTH
  DedupMax,      \* PATH_REQUEST_DEDUP_MAX
  MaxRotations,  \* bound: rotations
  MaxRestarts    \* bound: reloads of the page

ASSUME AnnouncingAssumption ==
  RingDepth \in Nat \ {0} /\ DedupMax \in Nat \ {0}
  /\ MaxRotations \in Nat /\ MaxRestarts \in Nat

VARIABLES
  radio,      \* radioOn
  ring,       \* ratchetPrivKey, then prevRatchets
  disk,       \* the same in the identity store
  saves,      \* saveIdentity calls in flight, in their order
  rotateDue,  \* RATCHET_ROTATE_MS have passed since lastRatchetRotateAt
  recentTags,     \* kinds of announce sent within their minimum gap
  tags,       \* pathRequestDedup, oldest first
  call,       \* where each sendAnnounce call is
  generated,  \* history: keys generated
  announced,  \* history: keys that went out in an announce
  unsaved,    \* history: keys whose save has not come to its end
  cut,        \* history: keys whose save a reload cut off
  restarts    \* counter, for the bound

announceVars == <<radio, ring, disk, saves, rotateDue, recentTags, tags, call,
                  generated, announced, unsaved, cut, restarts>>

NoCall == [at |-> "no", kind |-> "periodic", key |-> 0]

Keys(s) == {s[i] : i \in DOMAIN s}

(* A generated identity, or a stored one; one without a ratchet gets it     *)
(* before anything is sent.                                                 *)
AnnouncingInit ==
  /\ radio \in BOOLEAN
  /\ ring = <<1>> /\ disk = <<1>> /\ saves = <<>>
  /\ rotateDue \in BOOLEAN /\ recentTags = {} /\ tags = <<>>
  /\ call = [c \in Calls |-> NoCall]
  /\ generated = 1 /\ announced = {} /\ unsaved = {} /\ cut = {}
  /\ restarts = 0

-----------------------------------------------------------------------------
(* sendAnnounce.                                                            *)

Capped(s) == IF Len(s) > RingDepth + 1 THEN SubSeq(s, 1, RingDepth + 1) ELSE s

(* rotateRatchet and the save of what it made.                              *)
RotateRatchet(c) ==
  LET k == generated + 1 IN
  /\ generated' = k
  /\ ring' = Capped(<<k>> \o ring)
  /\ rotateDue' = FALSE
  /\ saves' = Append(saves, [who |-> c, key |-> k, ring |-> ring'])
  /\ unsaved' = unsaved \cup {k}
  /\ call' = [call EXCEPT ![c] = [at |-> "saving", kind |-> "periodic", key |-> k]]

(* The announce is built with the key of this moment.                       *)
Build(c, kind) ==
  call' = [call EXCEPT ![c] = [at |-> "sending", kind |-> kind, key |-> ring[1]]]

(* Radio and rate limit, then the rotation: only an announce of our own     *)
(* accord rotates.                                                          *)
SendAnnounce(c, kind) ==
  /\ radio /\ kind \notin recentTags
  /\ IF kind = "periodic" /\ rotateDue
       THEN generated <= MaxRotations /\ RotateRatchet(c)
       ELSE /\ Build(c, kind)
            /\ UNCHANGED <<ring, saves, rotateDue, generated, unsaved>>

(* The timer fires, or the user asks for an announce.                       *)
PeriodicAnnounce(c) ==
  /\ call[c].at = "no"
  /\ SendAnnounce(c, "periodic")
  /\ UNCHANGED <<radio, disk, recentTags, tags, announced, cut, restarts>>

(* handlePathRequest: a tag is answered once as long as it is in the table, *)
(* where it stays also when the answer is suppressed.                       *)
Entered(t) == IF Len(tags) >= DedupMax THEN Append(Tail(tags), t) ELSE Append(tags, t)

PathRequestArrives(c) ==
  /\ call[c].at = "no"
  /\ \E t \in Tags \ Keys(tags) :
       /\ tags' = Entered(t)
       /\ \/ SendAnnounce(c, "response")
          \/ /\ ~radio \/ "response" \in recentTags
             /\ UNCHANGED <<ring, saves, rotateDue, call, generated, unsaved>>
  /\ UNCHANGED <<radio, disk, recentTags, announced, cut, restarts>>

(* IndexedDB commits the saves in their order; then the call goes on, with  *)
(* the key there is by now.                                                 *)
IdentitySaved ==
  /\ saves # <<>>
  /\ LET s == Head(saves) IN
       /\ disk' = s.ring
       /\ unsaved' = unsaved \ Keys(s.ring)
       /\ Build(s.who, "periodic")
  /\ saves' = Tail(saves)
  /\ UNCHANGED <<radio, ring, rotateDue, recentTags, tags, generated, announced, cut,
                 restarts>>

SaveFails ==
  /\ saves # <<>>
  /\ saves' = Tail(saves)
  /\ call' = [call EXCEPT ![Head(saves).who] = NoCall]
  /\ UNCHANGED <<radio, ring, disk, rotateDue, recentTags, tags, generated, announced,
                 unsaved, cut, restarts>>

(* The packet is sent and the time taken, or sendPacket throws.             *)
AnnounceSent(c) ==
  /\ call[c].at = "sending"
  /\ \/ /\ announced' = announced \cup {call[c].key}
        /\ recentTags' = recentTags \cup {call[c].kind}
     \/ UNCHANGED <<announced, recentTags>>
  /\ call' = [call EXCEPT ![c] = NoCall]
  /\ UNCHANGED <<radio, ring, disk, saves, rotateDue, tags, generated, unsaved, cut,
                 restarts>>

-----------------------------------------------------------------------------
(* Time, the radio and reloads.                                             *)

GapPasses ==
  /\ \E kind \in recentTags : recentTags' = recentTags \ {kind}
  /\ UNCHANGED <<radio, ring, disk, saves, rotateDue, tags, call, generated,
                 announced, unsaved, cut, restarts>>

RotationFallsDue ==
  /\ ~rotateDue /\ rotateDue' = TRUE
  /\ UNCHANGED <<radio, ring, disk, saves, recentTags, tags, call, generated, announced,
                 unsaved, cut, restarts>>

RadioSwitched ==
  /\ radio' = ~radio
  /\ UNCHANGED <<ring, disk, saves, rotateDue, recentTags, tags, call, generated,
                 announced, unsaved, cut, restarts>>

LoadedWithoutRing(s) == <<s[1]>>

(* loadFromPrivateKeys keeps the ring, to its depth.                        *)
Loaded(s) == Capped(s)

(* A reload loses what is not saved, and the gaps; the time of the last     *)
(* rotation is in the local storage.                                        *)
Restart ==
  /\ restarts < MaxRestarts
  /\ restarts' = restarts + 1
  /\ ring' = Loaded(disk) /\ saves' = <<>>
  /\ cut' = cut \cup unsaved /\ unsaved' = {}
  /\ radio' = FALSE /\ recentTags' = {} /\ tags' = <<>>
  /\ call' = [c \in Calls |-> NoCall]
  /\ UNCHANGED <<disk, rotateDue, generated, announced>>

AnnouncingNext ==
  \/ \E c \in Calls : PeriodicAnnounce(c) \/ PathRequestArrives(c) \/ AnnounceSent(c)
  \/ IdentitySaved \/ SaveFails
  \/ GapPasses \/ RotationFallsDue \/ RadioSwitched \/ Restart

AnnouncingSpec == AnnouncingInit /\ [][AnnouncingNext]_announceVars

-----------------------------------------------------------------------------
(* Properties.                                                              *)

(* Well typed; keys are in the ring from the newest to the oldest, and a    *)
(* call that saves has its save in flight (sendAnnounce, rotateRatchet).    *)
AnnouncingTypeOK ==
  /\ radio \in BOOLEAN /\ rotateDue \in BOOLEAN
  /\ {ring, disk} \cup {saves[i].ring : i \in DOMAIN saves} \subseteq
       {s \in Seq(1..generated) : /\ Len(s) \in 1..RingDepth + 1
                                  /\ \A i, j \in DOMAIN s : i < j => s[i] > s[j]}
  /\ \A i \in DOMAIN saves : saves[i].who \in Calls /\ saves[i].key \in unsaved
  /\ \A c \in Calls : call[c].at = "saving" <=> \E i \in DOMAIN saves : saves[i].who = c
  /\ recentTags \subseteq {"periodic", "response"}
  /\ tags \in Seq(Tags) /\ Len(tags) <= DedupMax
  /\ call \in [Calls -> [at : {"no", "saving", "sending"},
                         kind : {"periodic", "response"}, key : 0..generated]]
  /\ generated \in Nat \ {0} /\ restarts \in Nat
  /\ announced \cup unsaved \cup cut \subseteq 1..generated

(* As many newer keys as the ring is deep.                                  *)
Retired(k) == Cardinality({n \in k + 1..generated : n \notin cut}) > RingDepth

(* Every key that was announced can still be used to read what is encrypted *)
(* to it, until the ring has retired it: it is in memory, across any number *)
(* of rotations, overlapping announces and reloads. Only a key whose save   *)
(* had not ended when the page was reloaded is lost; an answer to a path    *)
(* request can have announced that one (sendAnnounce, exportPrivateKeys,    *)
(* loadFromPrivateKeys; handleData tries exactly these keys).               *)
AnnouncedIsKept ==
  \A k \in announced : k \in Keys(ring) \/ Retired(k) \/ k \in cut
=============================================================================
