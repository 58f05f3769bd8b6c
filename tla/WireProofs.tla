---------------------------------- MODULE WireProofs ----------------------------------
(***************************************************************************)
(* Proofs about what goes over the wire: the agnostic-LoRa-Net router, the  *)
(* framings and the transports' writes. Who serves a peer is greeted, no    *)
(* packet waits for a destination that is bound, a buffered packet stays in *)
(* exactly one place, and the router's tables are well typed and bounded; a *)
(* byte that is lost costs at most the packet it was in; and a frame written*)
(* alone arrives. For any peers, nodes, packets, bytes and bounds.          *)
(***************************************************************************)
EXTENDS AlnRouter, Framing, Transports, SequenceTheorems, FiniteSetTheorems,
  WellFoundedInduction, TLAPS

(***************************************************************************)
(* Induction. What a recursive function does for every argument is proved   *)
(* from the least number for which it would not: Induction says so for a    *)
(* set, RecursionDefines that a recursive definition has a value, and       *)
(* RecursionTyped what follows from it.                                     *)
(***************************************************************************)
LEMMA Induction ==
  ASSUME NEW n \in Nat, NEW P, 0 \in P, \A i \in 1..n : i - 1 \in P => i \in P
  PROVE  \A i \in 0..n : i \in P
<1> DEFINE R == OpToRel(<, Nat)
           T == {i \in 0..n : i \notin P}
<1>1. IsWellFoundedOn(R, Nat)
  BY NatLessThanWellFounded
<1>2. \A x, y \in Nat : <<x, y>> \in R <=> x < y
  BY DEF OpToRel
<1> HIDE DEF R
<1>3. ASSUME T # {} PROVE FALSE
  <2>1. T \subseteq Nat
    OBVIOUS
  <2>2. \E m \in T : \A k \in T : ~(<<k, m>> \in R)
    BY <1>1, <1>3, <2>1, WFMin
  <2>3. PICK m \in T : \A k \in T : ~(<<k, m>> \in R)
    BY <2>2
  <2>4. m \in 0..n /\ m \notin P
    OBVIOUS
  <2>5. m # 0
    BY <2>4
  <2>6. m \in 1..n /\ m - 1 \in 0..n /\ m - 1 \in Nat /\ m \in Nat /\ m - 1 < m
    BY <2>4, <2>5
  <2>7. m - 1 \notin T
    BY <1>2, <2>3, <2>6
  <2>8. m - 1 \in P
    BY <2>6, <2>7
  <2> QED
    BY <2>4, <2>6, <2>8
<1> QED
  BY <1>3

(* A function is defined by recursion on the numbers up to n.               *)
Recursive(f, n, b, h) == f = [i \in 0..n |-> IF i = 0 THEN b ELSE h[<<i, f[i - 1]>>]]

LEMMA RecursionDefines ==
  ASSUME NEW n \in Nat, NEW T, NEW b \in T, NEW h \in [(1..n) \X T -> T]
  PROVE  \E f \in [0..n -> T] : Recursive(f, n, b, h)
<1> DEFINE Good(f, k) == /\ f \in [0..k -> T] /\ f[0] = b
                         /\ \A i \in 1..k : f[i] = h[<<i, f[i - 1]>>]
           P == {k \in 0..n : \E f : Good(f, k)}
<1>1. 0 \in P
  <2> DEFINE f == [i \in 0..0 |-> b]
  <2>1. Good(f, 0)
    <3>1. f \in [0..0 -> T] /\ f[0] = b
      OBVIOUS
    <3>2. \A i \in 1..0 : FALSE
      OBVIOUS
    <3> QED
      BY <3>1, <3>2
  <2> HIDE DEF Good
  <2> QED
    BY <2>1
<1>2. ASSUME NEW k \in 1..n, k - 1 \in P PROVE k \in P
  <2>1. PICK f : Good(f, k - 1)
    BY <1>2
  <2> DEFINE g == [i \in 0..k |-> IF i = k THEN h[<<k, f[k - 1]>>] ELSE f[i]]
  <2>2. f[k - 1] \in T
    BY <2>1
  <2>3. h[<<k, f[k - 1]>>] \in T
    BY <2>2
  <2>4. g \in [0..k -> T] /\ g[0] = b
    BY <2>1, <2>3
  <2>5. \A i \in 1..k : g[i] = h[<<i, g[i - 1]>>]
    <3>1. \A i \in 1..k : i # k => i \in 1..(k - 1)
      OBVIOUS
    <3>2. \A i \in 1..k : i - 1 \in 0..k /\ i - 1 # k
      OBVIOUS
    <3>3. \A i \in 1..(k - 1) : f[i] = h[<<i, f[i - 1]>>]
      BY <2>1
    <3>4. \A i \in 0..k : g[i] = IF i = k THEN h[<<k, f[k - 1]>>] ELSE f[i]
      OBVIOUS
    <3> HIDE DEF g
    <3> QED
      BY <3>1, <3>2, <3>3, <3>4
  <2>6. Good(g, k)
    BY <2>4, <2>5
  <2> HIDE DEF Good
  <2> QED
    BY <2>6
<1>3. n \in P
  <2> HIDE DEF P
  <2>1. \A i \in 0..n : i \in P
    BY <1>1, <1>2, Induction
  <2> QED
    BY <2>1
<1>4. PICK f : Good(f, n)
  BY <1>3
<1>5. f = [i \in 0..n |-> IF i = 0 THEN b ELSE h[<<i, f[i - 1]>>]]
  BY <1>4
<1> QED
  BY <1>4, <1>5 DEF Recursive

(* And whatever is defined so is of its type and obeys the recursion.       *)
LEMMA RecursionTyped ==
  ASSUME NEW n \in Nat, NEW T, NEW b \in T, NEW h \in [(1..n) \X T -> T], NEW f,
         Recursive(f, n, b, h)
  PROVE  f \in [0..n -> T] /\ f[0] = b /\ \A i \in 1..n : f[i] = h[<<i, f[i - 1]>>]
<1>0. f = [i \in 0..n |-> IF i = 0 THEN b ELSE h[<<i, f[i - 1]>>]]
  BY DEF Recursive
<1>1. f[0] = b /\ \A i \in 1..n : f[i] = h[<<i, f[i - 1]>>]
  BY <1>0
<1> DEFINE P == {k \in 0..n : f[k] \in T}
<1>2. \A i \in 0..n : i \in P
  <2>1. 0 \in P
    BY <1>1
  <2>2. ASSUME NEW i \in 1..n, i - 1 \in P PROVE i \in P
    <3>1. f[i - 1] \in T /\ i \in 0..n
      BY <2>2
    <3>2. h[<<i, f[i - 1]>>] \in T
      BY <3>1
    <3> QED
      BY <1>1, <3>1, <3>2
  <2> HIDE DEF P
  <2> QED
    BY <2>1, <2>2, Induction
<1> QED
  BY <1>0, <1>1, <1>2

(***************************************************************************)
(* Types, and what the consumer holds at each of its suspensions.           *)
(***************************************************************************)

(* Packets that may wait: they are for one node, and no proofs.             *)
Addressed == {p \in Packets : KindOf[p] \in {"data", "linkreq", "link"}}

Pumps ==
  [at : {"idle", "hash", "greet", "drain", "record", "flush"},
   item : Lines \cup Frames \cup {Nobody},
   pkt : Packets \cup {Nobody}, node : Nodes \cup {Nobody},
   routes : BOOLEAN, keep : Seq(Addressed), out : Seq(Addressed \X Nodes)]

SendCalls ==
  [at : {"no", "deferred", "buffered", "recording", "writing", "done"},
   targets : SUBSET Nodes]

Holds ==
  /\ pump.at \in {"idle", "hash", "greet"} => pump.keep = <<>> /\ pump.out = <<>>
  /\ pump.at = "hash" => pump.item \in Frames
  /\ pump.at \in {"greet", "record"} => pump.pkt \in Packets /\ pump.node \in Nodes
  /\ pump.at = "record" => pump.pkt \in Addressed
  /\ pump.at = "flush" => pump.out # <<>> /\ pump.keep = <<>>

AlnTyped ==
  /\ up \in BOOLEAN
  /\ attached \in Nodes \cup {Nobody} /\ fallback \in Nodes \cup {Nobody}
  /\ bound \in [Ids -> Nodes \cup {Nobody}]
  /\ pinned \in [LinkIds -> Nodes \cup {Nobody}]
  /\ pending \in Seq(Addressed)
  /\ cached \in Packets \cup {Nobody} /\ toldTo \subseteq Nodes
  /\ inbox \in Seq(Lines \cup Frames) /\ arrived \in Nat
  /\ pump \in Pumps
  /\ send \in [Packets -> SendCalls]
  /\ sent \subseteq Packets \X Nodes /\ lost \subseteq Packets

AlnShape == AlnTyped /\ Holds

LEMMA PumpsAreSuch ==
  /\ PumpIdle \in Pumps /\ PumpIdle.at = "idle"
  /\ PumpIdle.keep = <<>> /\ PumpIdle.out = <<>>
  /\ LET q == [PumpIdle EXCEPT !.at = "drain"]
     IN q \in Pumps /\ q.at = "drain" /\ q.keep = <<>> /\ q.out = <<>>
  /\ \A i \in Lines \cup Frames :
       LET q == [PumpIdle EXCEPT !.at = "hash", !.item = i]
       IN q \in Pumps /\ q.at = "hash" /\ q.item = i /\ q.keep = <<>> /\ q.out = <<>>
<1>1. <<>> \in Seq(Addressed) /\ <<>> \in Seq(Addressed \X Nodes)
  BY EmptySeq
<1>2. PumpIdle \in Pumps /\ PumpIdle.at = "idle" /\ PumpIdle.keep = <<>> /\ PumpIdle.out = <<>>
  BY <1>1 DEF PumpIdle, Pumps
<1>3. LET q == [PumpIdle EXCEPT !.at = "drain"]
     IN q \in Pumps /\ q.at = "drain" /\ q.keep = <<>> /\ q.out = <<>>
  BY <1>1 DEF PumpIdle, Pumps
<1>4. ASSUME NEW i \in Lines \cup Frames
      PROVE LET q == [PumpIdle EXCEPT !.at = "hash", !.item = i]
       IN q \in Pumps /\ q.at = "hash" /\ q.item = i /\ q.keep = <<>> /\ q.out = <<>>
  BY <1>1 DEF PumpIdle, Pumps
<1> QED
  BY <1>2, <1>3, <1>4

LEMMA FlushTyped ==
  ASSUME NEW out \in Seq(Addressed \X Nodes)
  PROVE  /\ FlushOrIdle(out) \in Pumps
         /\ FlushOrIdle(out).keep = <<>> /\ FlushOrIdle(out).out = out
         /\ FlushOrIdle(out).at = IF out = <<>> THEN "idle" ELSE "flush"
<1>1. <<>> \in Seq(Addressed)
  BY EmptySeq
<1>2. CASE out = <<>>
  BY <1>2, PumpsAreSuch DEF FlushOrIdle
<1>3. CASE out # <<>>
  <2>1. FlushOrIdle(out) = [at |-> "flush", item |-> Nobody, pkt |-> Nobody, node |-> Nobody,
                            routes |-> FALSE, keep |-> <<>>, out |-> out]
    BY <1>3 DEF FlushOrIdle, PumpIdle
  <2> QED
    BY <1>1, <1>3, <2>1 DEF Pumps
<1> QED
  BY <1>2, <1>3

(* A route is a node, and never the attached one; without one the           *)
(* directory binds the destination to nothing else.                         *)
LEMMA NodeIsTyped ==
  ASSUME attached \in Nodes \cup {Nobody}, fallback \in Nodes \cup {Nobody},
         pinned \in [LinkIds -> Nodes \cup {Nobody}],
         NEW p \in Packets, KindOf[p] \in {"data", "linkreq", "link", "proof"},
         NEW bnd \in [Ids -> Nodes \cup {Nobody}], NEW b
  PROVE  /\ NodeFor(p, bnd, b) \in Nodes \cup {Nobody}
         /\ NodeFor(p, bnd, b) = Nobody \/ NodeFor(p, bnd, b) # attached
         /\ KindOf[p] \in {"data", "linkreq"} /\ NodeFor(p, bnd, b) = Nobody =>
              bnd[DestOf[p]] \in {Nobody, attached} /\ DestOf[p] \in Ids
<1>1. BackNode(DestOf[p], b) \in Nodes \cup {Nobody}
  BY DEF BackNode
<1>2. /\ KindOf[p] = "link" => DestOf[p] \in LinkIds
      /\ KindOf[p] \in {"data", "linkreq"} => DestOf[p] \in Ids
  BY AlnAssumption DEF OfKind
<1>3. Learned(p, bnd, b) \in Nodes \cup {Nobody}
  BY <1>1, <1>2 DEF Learned
<1>4. /\ UsableFallback \in Nodes \cup {Nobody}
      /\ (UsableFallback = Nobody \/ UsableFallback # attached)
  BY DEF UsableFallback
<1>5. KindOf[p] \in {"data", "linkreq"} => Learned(p, bnd, b) = bnd[DestOf[p]]
  BY DEF Learned
<1>6. Nobody \notin Nodes
  BY AlnAssumption
<1> QED
  BY <1>2, <1>3, <1>4, <1>5, <1>6 DEF NodeFor

(* The members of a sequence.                                               *)
LEMMA SeqSets ==
  ASSUME NEW S, NEW s \in Seq(S)
  PROVE  /\ SeqSet(s) \subseteq S
         /\ \A e \in S : SeqSet(Append(s, e)) = SeqSet(s) \cup {e}
         /\ s # <<>> => Head(s) \in SeqSet(s) /\ SeqSet(s) = {Head(s)} \cup SeqSet(Tail(s))
         /\ \A t \in Seq(S) : SeqSet(s \o t) = SeqSet(s) \cup SeqSet(t)
<1>1. DOMAIN s = 1..Len(s) /\ Len(s) \in Nat /\ \A i \in 1..Len(s) : s[i] \in S
  BY LenProperties, ElementOfSeq
<1>2. SeqSet(s) \subseteq S
  BY <1>1 DEF SeqSet
<1>3. ASSUME NEW e \in S PROVE SeqSet(Append(s, e)) = SeqSet(s) \cup {e}
  <2>1. Append(s, e) \in Seq(S) /\ Len(Append(s, e)) = Len(s) + 1
        /\ (\A i \in 1..Len(s) : Append(s, e)[i] = s[i]) /\ Append(s, e)[Len(s) + 1] = e
    BY AppendProperties
  <2>2. DOMAIN Append(s, e) = 1..Len(s) + 1
    BY <2>1, LenProperties
  <2> QED
    BY <1>1, <2>1, <2>2 DEF SeqSet
<1>4. ASSUME s # <<>> PROVE Head(s) \in SeqSet(s) /\ SeqSet(s) = {Head(s)} \cup SeqSet(Tail(s))
  <2>1. Len(s) # 0
    BY <1>4, EmptySeq
  <2>2. Head(s) = s[1]
    BY <1>4
  <2>3. Tail(s) \in Seq(S) /\ Len(Tail(s)) = Len(s) - 1
        /\ \A i \in 1..Len(Tail(s)) : Tail(s)[i] = s[i + 1]
    BY <1>4, HeadTailProperties
  <2>4. DOMAIN Tail(s) = 1..Len(s) - 1
    BY <2>3, LenProperties
  <2>5. \A i \in 1..Len(s) : i = 1 \/ (i - 1 \in 1..Len(s) - 1 /\ Tail(s)[i - 1] = s[i])
    BY <1>1, <2>3
  <2>6. \A i \in 1..Len(s) - 1 : i + 1 \in 1..Len(s) /\ Tail(s)[i] = s[i + 1]
    BY <1>1, <2>3
  <2>7. Head(s) \in SeqSet(s)
    BY <1>1, <2>1, <2>2 DEF SeqSet
  <2>8. SeqSet(Tail(s)) \subseteq SeqSet(s)
    BY <1>1, <2>4, <2>6 DEF SeqSet
  <2>9. ASSUME NEW x \in SeqSet(s), x # Head(s) PROVE x \in SeqSet(Tail(s))
    <3>1. PICK i \in 1..Len(s) : x = s[i]
      BY <1>1 DEF SeqSet
    <3>2. i - 1 \in DOMAIN Tail(s) /\ Tail(s)[i - 1] = x
      BY <2>2, <2>4, <2>5, <2>9, <3>1
    <3> QED
      BY <3>2 DEF SeqSet
  <2> QED
    BY <2>7, <2>8, <2>9
<1>5. ASSUME NEW t \in Seq(S) PROVE SeqSet(s \o t) = SeqSet(s) \cup SeqSet(t)
  <2>1. Len(t) \in Nat /\ DOMAIN t = 1..Len(t)
    BY LenProperties
  <2>2. s \o t \in Seq(S) /\ Len(s \o t) = Len(s) + Len(t)
        /\ \A i \in 1..Len(s) + Len(t) :
             (s \o t)[i] = IF i <= Len(s) THEN s[i] ELSE t[i - Len(s)]
    BY ConcatProperties
  <2>3. DOMAIN (s \o t) = 1..Len(s) + Len(t)
    BY <2>2, LenProperties
  <2>4. \A i \in 1..Len(s) : i \in 1..Len(s) + Len(t) /\ (s \o t)[i] = s[i]
    BY <1>1, <2>1, <2>2
  <2>5. \A i \in 1..Len(t) : i + Len(s) \in 1..Len(s) + Len(t) /\ (s \o t)[i + Len(s)] = t[i]
    BY <1>1, <2>1, <2>2
  <2>6. \A i \in 1..Len(s) + Len(t) :
          \/ i \in 1..Len(s) /\ (s \o t)[i] = s[i]
          \/ i - Len(s) \in 1..Len(t) /\ (s \o t)[i] = t[i - Len(s)]
    BY <1>1, <2>1, <2>2
  <2>7. \A x \in SeqSet(s) \cup SeqSet(t) : x \in SeqSet(s \o t)
    BY <1>1, <2>1, <2>3, <2>4, <2>5 DEF SeqSet
  <2>8. ASSUME NEW x \in SeqSet(s \o t) PROVE x \in SeqSet(s) \cup SeqSet(t)
    <3>1. PICK i \in 1..Len(s) + Len(t) : x = (s \o t)[i]
      BY <2>3, <2>8 DEF SeqSet
    <3>2. CASE i \in 1..Len(s) /\ (s \o t)[i] = s[i]
      BY <1>1, <3>1, <3>2 DEF SeqSet
    <3>3. CASE i - Len(s) \in 1..Len(t) /\ (s \o t)[i] = t[i - Len(s)]
      BY <2>1, <3>1, <3>3 DEF SeqSet
    <3> QED
      BY <2>6, <3>2, <3>3
  <2> QED
    BY <2>7, <2>8
<1> QED
  BY <1>2, <1>3, <1>4, <1>5

(* A sequence split at one of its elements.                                 *)
LEMMA SplitAt ==
  ASSUME NEW S, NEW s \in Seq(S), NEW k \in DOMAIN s
  PROVE  /\ SubSeq(s, 1, k - 1) \in Seq(S) /\ SubSeq(s, k + 1, Len(s)) \in Seq(S)
         /\ k \in 1..Len(s) /\ Len(s) \in Nat /\ s[k] \in S
         /\ DOMAIN SubSeq(s, 1, k - 1) = 1..k - 1
         /\ DOMAIN SubSeq(s, k + 1, Len(s)) = 1..Len(s) - k
         /\ \A i \in 1..k - 1 : SubSeq(s, 1, k - 1)[i] = s[i]
         /\ \A i \in 1..Len(s) - k : SubSeq(s, k + 1, Len(s))[i] = s[k + i]
<1>1. DOMAIN s = 1..Len(s) /\ Len(s) \in Nat /\ \A i \in 1..Len(s) : s[i] \in S
  BY LenProperties, ElementOfSeq
<1>2. k \in 1..Len(s) /\ k \in Int /\ k - 1 \in Int /\ k + 1 \in Int /\ Len(s) \in Int
  BY <1>1
<1>3. (\A i \in 1..k - 1 : s[i] \in S) /\ (\A i \in k + 1..Len(s) : s[i] \in S)
  BY <1>1, <1>2
<1>4. /\ SubSeq(s, 1, k - 1) \in Seq(S)
      /\ Len(SubSeq(s, 1, k - 1)) = IF 1 <= k - 1 THEN k - 1 - 1 + 1 ELSE 0
      /\ \A i \in 1..k - 1 - 1 + 1 : SubSeq(s, 1, k - 1)[i] = s[1 + i - 1]
  BY <1>2, <1>3, SubSeqProperties
<1>5. /\ SubSeq(s, k + 1, Len(s)) \in Seq(S)
      /\ Len(SubSeq(s, k + 1, Len(s))) = IF k + 1 <= Len(s) THEN Len(s) - (k + 1) + 1 ELSE 0
      /\ \A i \in 1..Len(s) - (k + 1) + 1 : SubSeq(s, k + 1, Len(s))[i] = s[k + 1 + i - 1]
  BY <1>2, <1>3, SubSeqProperties
<1>6. Len(SubSeq(s, 1, k - 1)) = k - 1 /\ Len(SubSeq(s, k + 1, Len(s))) = Len(s) - k
  BY <1>1, <1>2, <1>4, <1>5
<1>7. DOMAIN SubSeq(s, 1, k - 1) = 1..k - 1 /\ DOMAIN SubSeq(s, k + 1, Len(s)) = 1..Len(s) - k
  BY <1>4, <1>5, <1>6, LenProperties
<1>8. \A i \in 1..k - 1 : SubSeq(s, 1, k - 1)[i] = s[i]
  BY <1>2, <1>4
<1>9. \A i \in 1..Len(s) - k : SubSeq(s, k + 1, Len(s))[i] = s[k + i]
  BY <1>1, <1>2, <1>5
<1> QED
  BY <1>1, <1>2, <1>4, <1>5, <1>7, <1>8, <1>9

Distinct(s) == \A i, j \in DOMAIN s : s[i] = s[j] => i = j

(* What an operation on a queue whose elements are distinct leaves.         *)
LEMMA SplitSets ==
  ASSUME NEW S, NEW s \in Seq(S), NEW k \in DOMAIN s
  PROVE  /\ SeqSet(s) =
              SeqSet(SubSeq(s, 1, k - 1)) \cup {s[k]} \cup SeqSet(SubSeq(s, k + 1, Len(s)))
         /\ Distinct(s) =>
              /\ Distinct(SubSeq(s, 1, k - 1)) /\ Distinct(SubSeq(s, k + 1, Len(s)))
              /\ s[k] \notin SeqSet(SubSeq(s, 1, k - 1)) \cup SeqSet(SubSeq(s, k + 1, Len(s)))
              /\ SeqSet(SubSeq(s, 1, k - 1)) \cap SeqSet(SubSeq(s, k + 1, Len(s))) = {}
<1> DEFINE a == SubSeq(s, 1, k - 1)
           b == SubSeq(s, k + 1, Len(s))
<1>1. /\ k \in 1..Len(s) /\ Len(s) \in Nat /\ DOMAIN s = 1..Len(s)
      /\ DOMAIN a = 1..k - 1 /\ DOMAIN b = 1..Len(s) - k
      /\ \A i \in 1..k - 1 : a[i] = s[i]
      /\ \A i \in 1..Len(s) - k : b[i] = s[k + i]
  BY SplitAt, LenProperties, SMTT(20)
<1> HIDE DEF a, b
<1>2. \A i \in DOMAIN a : i \in DOMAIN s /\ i < k /\ a[i] = s[i]
  BY <1>1
<1>3. \A i \in DOMAIN b : k + i \in DOMAIN s /\ k + i > k /\ b[i] = s[k + i] /\ i \in Nat
  BY <1>1
<1>4. \A i \in DOMAIN s : \/ i \in DOMAIN a /\ a[i] = s[i]
                          \/ i = k
                          \/ i - k \in DOMAIN b /\ b[i - k] = s[i]
  <2> SUFFICES ASSUME NEW i \in DOMAIN s
               PROVE  \/ i \in DOMAIN a /\ a[i] = s[i]
                      \/ i = k
                      \/ i - k \in DOMAIN b /\ b[i - k] = s[i]
    OBVIOUS
  <2>1. i \in Nat /\ 1 <= i /\ i <= Len(s) /\ k \in Nat /\ 1 <= k /\ k <= Len(s)
    BY <1>1
  <2>2. CASE i < k
    <3>1. i \in 1..k - 1
      BY <2>1, <2>2
    <3> QED
      BY <1>1, <3>1
  <2>3. CASE i > k
    <3>1. i - k \in 1..Len(s) - k /\ k + (i - k) = i
      BY <1>1, <2>1, <2>3
    <3> QED
      BY <1>1, <3>1
  <2> QED
    BY <2>1, <2>2, <2>3
<1>5. SeqSet(s) \subseteq SeqSet(a) \cup {s[k]} \cup SeqSet(b)
  BY <1>4 DEF SeqSet
<1>6. SeqSet(a) \cup {s[k]} \cup SeqSet(b) \subseteq SeqSet(s)
  BY <1>2, <1>3 DEF SeqSet
<1>7. ASSUME Distinct(s)
      PROVE  /\ Distinct(a) /\ Distinct(b)
             /\ s[k] \notin SeqSet(a) /\ s[k] \notin SeqSet(b) /\ SeqSet(a) \cap SeqSet(b) = {}
  <2>1. Distinct(a)
    BY <1>2, <1>7 DEF Distinct
  <2>2. ASSUME NEW i \in DOMAIN b, NEW j \in DOMAIN b, b[i] = b[j] PROVE i = j
    <3>1. k + i = k + j
      BY <1>3, <1>7, <2>2 DEF Distinct
    <3> QED
      BY <1>1, <1>3, <3>1
  <2>3. \A i \in DOMAIN a : a[i] # s[k]
    BY <1>1, <1>2, <1>7 DEF Distinct
  <2>4. \A i \in DOMAIN b : b[i] # s[k]
    BY <1>1, <1>3, <1>7 DEF Distinct
  <2>5. \A i \in DOMAIN a, j \in DOMAIN b : a[i] # b[j]
    BY <1>1, <1>2, <1>3, <1>7 DEF Distinct
  <2> QED
    BY <2>1, <2>2, <2>3, <2>4, <2>5 DEF Distinct, SeqSet
<1> QED
  BY <1>5, <1>6, <1>7 DEF a, b

(* sendPacket moves one packet.                                             *)
LEMMA SendingTyped ==
  ASSUME send \in [Packets -> SendCalls], NEW p \in Packets,
         NEW at \in {"no", "deferred", "buffered", "recording", "writing", "done"},
         NEW targets \in SUBSET Nodes, Sending(p, at, targets)
  PROVE  /\ send' \in [Packets -> SendCalls]
         /\ send'[p].at = at /\ send'[p].targets = targets
         /\ \A q \in Packets : q # p => send'[q] = send[q]
<1> DEFINE next == [at |-> at, targets |-> targets]
<1>1. next \in SendCalls /\ next.at = at /\ next.targets = targets
  BY DEF SendCalls
<1>2. send' = [send EXCEPT ![p] = next]
  BY DEF Sending
<1> HIDE DEF next
<1> QED
  BY <1>1, <1>2

LEMMA FanoutTyped ==
  ASSUME bound' \in [Ids -> Nodes \cup {Nobody}], fallback \in Nodes \cup {Nobody}
  PROVE  Fanout(bound') \in SUBSET Nodes
BY DEF Fanout, UsableFallback

LEMMA PruneTyped ==
  ASSUME AlnTyped, Prune
  PROVE  /\ bound' \in [Ids -> Nodes \cup {Nobody}]
         /\ \A x \in Ids : bound'[x] \in {bound[x], Nobody}
BY DEF AlnTyped, Prune

LEMMA AlnInitial == AlnInit => AlnShape
<1> SUFFICES ASSUME AlnInit PROVE AlnShape
  OBVIOUS
<1>1. pending \in Seq(Addressed) /\ inbox \in Seq(Lines \cup Frames)
  BY EmptySeq DEF AlnInit
<1>2. pump \in Pumps /\ pump.at = "idle" /\ pump.keep = <<>> /\ pump.out = <<>>
  BY PumpsAreSuch DEF AlnInit
<1>3. send \in [Packets -> SendCalls]
  BY DEF AlnInit, SendCalls
<1>4. /\ up \in BOOLEAN
      /\ attached \in Nodes \cup {Nobody} /\ fallback \in Nodes \cup {Nobody}
      /\ bound \in [Ids -> Nodes \cup {Nobody}]
      /\ pinned \in [LinkIds -> Nodes \cup {Nobody}]
      /\ cached \in Packets \cup {Nobody} /\ toldTo \subseteq Nodes
      /\ sent \subseteq Packets \X Nodes /\ lost \subseteq Packets
      /\ arrived \in Nat
  BY DEF AlnInit
<1> QED
  BY <1>1, <1>2, <1>3, <1>4 DEF AlnShape, AlnTyped, Holds

(* What routeOutbound does with a packet, by its kind.                      *)
LEMMA RoutesTyped ==
  ASSUME AlnShape, NEW p \in Packets, RouteOutbound(p)
  PROVE  /\ AlnTyped'
         /\ UNCHANGED <<up, attached, fallback, pinned, ioVars, pump, sent>>
         /\ send[p].at = "no" /\ send'[p].at # "no"
         /\ \A q \in Packets : q # p => send'[q] = send[q]
         /\ \A x \in Ids : bound'[x] \in {bound[x], Nobody}
         /\ \/ /\ KindOf[p] = "announce" /\ cached' = p /\ toldTo' = Fanout(bound')
               /\ send'[p].at # "buffered" /\ send'[p].targets = toldTo'
               /\ UNCHANGED <<pending, lost>>
            \/ /\ send'[p].at # "buffered" /\ UNCHANGED <<pending, lost, cached, toldTo>>
            \/ /\ p \in Addressed /\ NodeFor(p, bound', back') = Nobody
               /\ send'[p].at = "buffered"
               /\ UNCHANGED <<cached, toldTo>>
               /\ \/ pending' = Append(pending, p) /\ UNCHANGED lost
                  \/ /\ pending # <<>> /\ pending' = Append(Tail(pending), p)
                     /\ lost' = lost \cup {Head(pending)}
<1>1. /\ bound' \in [Ids -> Nodes \cup {Nobody}]
      /\ \A x \in Ids : bound'[x] \in {bound[x], Nobody}
  BY PruneTyped DEF AlnShape, RouteOutbound
<1>2. /\ UNCHANGED <<up, attached, fallback, pinned, ioVars, pump, sent>>
      /\ send[p].at = "no"
  BY DEF RouteOutbound
<1>3. KindOf[p] \in Kinds
  BY AlnAssumption
<1>4. CASE KindOf[p] = "announce"
  <2>1. RouteAnnounce(p)
    BY <1>4 DEF RouteOutbound
  <2> DEFINE targets == Fanout(bound')
             at == IF targets = {} THEN "deferred" ELSE "writing"
  <2>2. targets \in SUBSET Nodes /\ at \in {"deferred", "writing"}
    BY <1>1, FanoutTyped DEF AlnShape, AlnTyped
  <2>3. /\ Sending(p, at, targets) /\ cached' = p /\ toldTo' = targets
        /\ UNCHANGED <<pending, lost>>
    BY <2>1 DEF RouteAnnounce, FanOut
  <2> HIDE DEF targets, at
  <2>4. /\ send' \in [Packets -> SendCalls] /\ send'[p].at = at /\ send'[p].targets = targets
        /\ \A q \in Packets : q # p => send'[q] = send[q]
    BY <2>2, <2>3, SendingTyped DEF AlnShape, AlnTyped
  <2>5. AlnTyped'
    BY <1>1, <1>2, <2>2, <2>3, <2>4 DEF AlnShape, AlnTyped, ioVars
  <2> QED
    BY <1>1, <1>2, <1>4, <2>2, <2>3, <2>4, <2>5 DEF targets
<1>5. CASE KindOf[p] = "plain"
  <2> DEFINE targets == Fanout(bound')
             at == IF targets = {} THEN "deferred" ELSE "writing"
  <2>1. targets \in SUBSET Nodes /\ at \in {"deferred", "writing"}
    BY <1>1, FanoutTyped DEF AlnShape, AlnTyped
  <2>2. Sending(p, at, targets) /\ UNCHANGED <<cached, toldTo, pending, lost>>
    BY <1>5 DEF RouteOutbound, FanOut, queueVars
  <2> HIDE DEF targets, at
  <2>3. /\ send' \in [Packets -> SendCalls] /\ send'[p].at = at /\ send'[p].targets = targets
        /\ \A q \in Packets : q # p => send'[q] = send[q]
    BY <2>1, <2>2, SendingTyped DEF AlnShape, AlnTyped
  <2>4. AlnTyped'
    BY <1>1, <1>2, <2>1, <2>2, <2>3 DEF AlnShape, AlnTyped, ioVars
  <2> QED
    BY <1>1, <1>2, <2>1, <2>2, <2>3, <2>4
<1>6. CASE KindOf[p] \notin {"announce", "plain"}
  <2>1. KindOf[p] \in {"data", "linkreq", "link", "proof"}
    BY <1>3, <1>6 DEF Kinds
  <2> DEFINE n == NodeFor(p, bound', back')
  <2>2. n \in Nodes \cup {Nobody}
    BY <1>1, <2>1, NodeIsTyped DEF AlnShape, AlnTyped
  <2>3. /\ IF n = Nobody THEN Buffer(p)
           ELSE Sending(p, "recording", {n}) /\ UNCHANGED <<pending, lost>>
        /\ UNCHANGED <<cached, toldTo>>
    BY <1>6 DEF RouteOutbound
  <2> HIDE DEF n
  <2>4. CASE n # Nobody
    <3>1. /\ send' \in [Packets -> SendCalls] /\ send'[p].at = "recording"
          /\ \A q \in Packets : q # p => send'[q] = send[q]
      BY <2>2, <2>3, <2>4, SendingTyped DEF AlnShape, AlnTyped
    <3>2. AlnTyped'
      BY <1>1, <1>2, <2>3, <2>4, <3>1 DEF AlnShape, AlnTyped, ioVars
    <3> QED
      BY <1>1, <1>2, <2>3, <2>4, <3>1, <3>2
  <2>5. CASE n = Nobody /\ KindOf[p] = "proof"
    <3>1. Sending(p, "deferred", {}) /\ UNCHANGED <<pending, lost>>
      BY <2>3, <2>5 DEF Buffer
    <3>2. /\ send' \in [Packets -> SendCalls] /\ send'[p].at = "deferred"
          /\ \A q \in Packets : q # p => send'[q] = send[q]
      BY <3>1, SendingTyped DEF AlnShape, AlnTyped
    <3>3. AlnTyped'
      BY <1>1, <1>2, <2>3, <3>1, <3>2 DEF AlnShape, AlnTyped, ioVars
    <3> QED
      BY <1>1, <1>2, <2>3, <3>1, <3>2, <3>3
  <2>6. CASE n = Nobody /\ KindOf[p] # "proof"
    <3>1. /\ Sending(p, "buffered", {}) /\ p \in Addressed
          /\ IF Len(pending) >= MaxPending
               THEN /\ pending' = Append(Tail(pending), p)
                    /\ lost' = lost \cup {Head(pending)}
               ELSE pending' = Append(pending, p) /\ UNCHANGED lost
      BY <2>1, <2>3, <2>6 DEF Buffer, Addressed
    <3>2. /\ send' \in [Packets -> SendCalls] /\ send'[p].at = "buffered"
          /\ \A q \in Packets : q # p => send'[q] = send[q]
      BY <3>1, SendingTyped DEF AlnShape, AlnTyped
    <3>3. pending \in Seq(Addressed) /\ Addressed \subseteq Packets /\ lost \subseteq Packets
      BY DEF AlnShape, AlnTyped, Addressed
    <3>4. Len(pending) >= MaxPending => pending # <<>>
      BY <3>3, EmptySeq, AlnAssumption
    <3>5. pending # <<>> => Head(pending) \in Addressed /\ Tail(pending) \in Seq(Addressed)
      BY <3>3, HeadTailProperties
    <3>6. pending' \in Seq(Addressed)
      BY <3>1, <3>3, <3>4, <3>5, AppendProperties
    <3>7. lost' \subseteq Packets /\ pending' \in Seq(Addressed)
      BY <3>1, <3>3, <3>4, <3>5, <3>6
    <3>8. AlnTyped'
      BY <1>1, <1>2, <2>3, <3>2, <3>7 DEF AlnShape, AlnTyped, ioVars
    <3> QED
      BY <1>1, <1>2, <2>3, <2>6, <3>1, <3>2, <3>4, <3>8 DEF n
  <2> QED
    BY <2>4, <2>5, <2>6
<1> QED
  BY <1>4, <1>5, <1>6

(* A set of numbers that is not empty has a smallest one.                   *)
LEMMA Smallest ==
  ASSUME NEW T \in SUBSET Nat, T # {}
  PROVE  \E x \in T : \A y \in T : x <= y
<1>1. PICK R : IsWellFoundedOn(R, Nat) /\ \A x, y \in Nat : y < x => <<y, x>> \in R
  <2>1. \A x, y \in Nat : y < x => <<y, x>> \in OpToRel(<, Nat)
    BY DEF OpToRel
  <2> QED
    BY <2>1, NatLessThanWellFounded
<1>2. PICK x \in T : \A y \in T : ~ (<<y, x>> \in R)
  BY <1>1, WFMin
<1>3. \A y \in T : ~ (y < x)
  BY <1>1, <1>2
<1> QED
  BY <1>3

(* Lines and frames.                                                        *)
LEMMA ItemsTyped ==
  /\ \A i \in Lines \cup Frames : i.node \in Nodes
  /\ \A i \in Lines \cup Frames : i.type \in {"loc", "announce"} => i.key \in Ids
  /\ \A i \in Lines \cup Frames : i.type \in {"linkreq", "data"} => i \in Frames
  /\ \A i \in Lines \cup Frames :
       i.type \in {"loc", "announce", "linkreq", "data", "registered", "self"}
  /\ \A i \in Frames : i.type = "linkreq" => i.key \in LinkIds
BY DEF Lines, Frames, Item

(* Handling an event: a node that is new is greeted, and a binding that     *)
(* changed makes the consumer drain.                                        *)
LEMMA EventTyped ==
  ASSUME AlnShape, NEW new \in BOOLEAN, NEW n \in Nodes, NEW changed \in BOOLEAN,
         HandleEvent(new, n, changed)
  PROVE  /\ pump' \in Pumps /\ pump'.keep = <<>> /\ pump'.out = <<>>
         /\ \/ /\ pump'.at = "greet" /\ new /\ cached # Nobody /\ n \notin toldTo
               /\ pump'.pkt = cached /\ pump'.node = n /\ pump'.routes = changed
               /\ toldTo' = toldTo \cup {n}
            \/ /\ ~new \/ cached = Nobody \/ n \in toldTo
               /\ pump'.at = IF changed THEN "drain" ELSE "idle"
               /\ UNCHANGED toldTo
<1>1. CASE new /\ cached # Nobody /\ n \notin toldTo
  <2>1. pump' = [PumpIdle EXCEPT !.at = "greet", !.pkt = cached, !.node = n, !.routes = changed]
        /\ toldTo' = toldTo \cup {n}
    BY <1>1 DEF HandleEvent
  <2>2. cached \in Packets \cup {Nobody} /\ n \in Nodes \cup {Nobody}
    BY DEF AlnShape, AlnTyped
  <2>3. <<>> \in Seq(Addressed) /\ <<>> \in Seq(Addressed \X Nodes)
    BY EmptySeq
  <2>4. /\ pump' \in Pumps /\ pump'.keep = <<>> /\ pump'.out = <<>>
        /\ pump'.at = "greet" /\ pump'.pkt = cached /\ pump'.node = n /\ pump'.routes = changed
    BY <2>1, <2>2, <2>3 DEF PumpIdle, Pumps
  <2> QED
    BY <1>1, <2>1, <2>4
<1>2. CASE ~(new /\ cached # Nobody /\ n \notin toldTo)
  <2>1. /\ pump' = (IF changed THEN [PumpIdle EXCEPT !.at = "drain"] ELSE PumpIdle)
        /\ UNCHANGED toldTo
    BY <1>2 DEF HandleEvent
  <2> QED
    BY <1>2, <2>1, PumpsAreSuch
<1> QED
  BY <1>1, <1>2

(* What the consumer does with an item.                                     *)
LEMMA TakesTyped ==
  ASSUME AlnShape, TakeItem
  PROVE  /\ AlnTyped' /\ Holds'
         /\ pump.at = "idle" /\ pump'.keep = <<>> /\ pump'.out = <<>>
         /\ UNCHANGED <<up, pending, cached, arrived, send, sent, lost, fallback>>
         /\ \/ /\ pump'.at \in {"idle", "hash"} /\ UNCHANGED <<attached, bound, toldTo>>
            \/ /\ pump'.at = "idle" /\ attached' \in Nodes /\ UNCHANGED toldTo
               /\ bound' = [x \in Ids |-> IF bound[x] = attached' THEN Nobody ELSE bound[x]]
            \/ \E x \in Ids, n \in Nodes :
                 /\ n # attached /\ UNCHANGED attached
                 /\ bound' = [bound EXCEPT ![x] = n]
                 /\ \/ /\ pump'.at = "greet" /\ cached # Nobody /\ n \notin toldTo
                       /\ pump'.pkt = cached /\ pump'.node = n
                       /\ pump'.routes = (bound[x] # n) /\ toldTo' = toldTo \cup {n}
                    \/ /\ ~Unmet(n) \/ cached = Nobody \/ n \in toldTo
                       /\ pump'.at = IF bound[x] # n THEN "drain" ELSE "idle"
                       /\ UNCHANGED toldTo
<1> DEFINE i == Head(inbox)
<1>1. i \in Lines \cup Frames /\ Tail(inbox) \in Seq(Lines \cup Frames)
  <2> DEFINE I == Lines \cup Frames
  <2>1. inbox \in Seq(I) /\ inbox # <<>>
    BY DEF AlnShape, AlnTyped, TakeItem
  <2> HIDE DEF I
  <2>2. Head(inbox) \in I /\ Tail(inbox) \in Seq(I)
    BY <2>1, HeadTailProperties
  <2> QED
    BY <2>2 DEF I
<1>2. /\ pump.at = "idle" /\ inbox' = Tail(inbox)
      /\ UNCHANGED <<up, pending, cached, arrived, send, sent, lost>>
      /\ \/ /\ i.type \in {"linkreq", "data"} /\ UNCHANGED <<tableVars, toldTo>>
            /\ pump' = IF i.node = attached THEN PumpIdle
                       ELSE [PumpIdle EXCEPT !.at = "hash", !.item = i]
         \/ LearnAttached(i.node)
         \/ Drop
         \/ i.type \in {"loc", "announce"} /\ Upsert(i.key, i.node)
  BY <1>1, ItemsTyped DEF TakeItem, outVars
<1> HIDE DEF i
<1>3. i.node \in Nodes
  BY <1>1, ItemsTyped
<1>4. AlnTyped /\ Holds
  BY DEF AlnShape
<1>5. CASE /\ i.type \in {"linkreq", "data"} /\ UNCHANGED <<tableVars, toldTo>>
           /\ pump' = IF i.node = attached THEN PumpIdle
                      ELSE [PumpIdle EXCEPT !.at = "hash", !.item = i]
  <2>1. /\ pump' \in Pumps /\ pump'.at \in {"idle", "hash"} /\ pump'.keep = <<>> /\ pump'.out = <<>>
        /\ pump'.at = "hash" => pump'.item = i
    BY <1>1, <1>5, PumpsAreSuch
  <2>2. i \in Frames
    BY <1>1, <1>5, ItemsTyped
  <2>3. Holds'
    BY <2>1, <2>2 DEF Holds
  <2>4. AlnTyped'
    BY <1>1, <1>2, <1>4, <1>5, <2>1 DEF AlnTyped, tableVars
  <2> QED
    BY <1>2, <1>5, <2>1, <2>3, <2>4 DEF tableVars
<1>6. CASE Drop
  <2>1. pump' \in Pumps /\ pump'.at = "idle" /\ pump'.keep = <<>> /\ pump'.out = <<>>
    BY <1>6, PumpsAreSuch DEF Drop
  <2>2. Holds'
    BY <2>1 DEF Holds
  <2>3. AlnTyped'
    BY <1>1, <1>2, <1>4, <1>6, <2>1 DEF AlnTyped, tableVars, Drop
  <2> QED
    BY <1>2, <1>6, <2>1, <2>2, <2>3 DEF tableVars, Drop
<1>7. CASE LearnAttached(i.node)
  <2>1. pump' \in Pumps /\ pump'.at = "idle" /\ pump'.keep = <<>> /\ pump'.out = <<>>
    BY <1>7, PumpsAreSuch DEF LearnAttached
  <2>2. Holds'
    BY <2>1 DEF Holds
  <2>3. /\ UNCHANGED <<toldTo, fallback>>
        /\ \/ UNCHANGED <<attached, bound, pinned>>
           \/ /\ attached' = i.node
              /\ bound' = [x \in Ids |-> IF bound[x] = i.node THEN Nobody ELSE bound[x]]
              /\ pinned' = [l \in LinkIds |-> IF pinned[l] = i.node THEN Nobody ELSE pinned[l]]
    BY <1>7 DEF LearnAttached
  <2>4. AlnTyped'
    BY <1>1, <1>2, <1>3, <1>4, <2>1, <2>3 DEF AlnTyped
  <2> QED
    BY <1>2, <1>3, <2>1, <2>2, <2>3, <2>4
<1>8. CASE i.type \in {"loc", "announce"} /\ Upsert(i.key, i.node)
  <2>1. CASE i.node = attached
    BY <1>6, <1>8, <2>1 DEF Upsert
  <2>2. CASE i.node # attached
    <3>1. PICK x \in Ids, n \in Nodes : x = i.key /\ n = i.node
      BY <1>1, <1>3, <1>8, ItemsTyped
    <3>2. /\ n # attached /\ bound' = [bound EXCEPT ![x] = n]
          /\ HandleEvent(Unmet(n), n, Changed(x, n))
          /\ UNCHANGED <<attached, fallback, pinned, back>>
      BY <1>8, <2>2, <3>1 DEF Upsert
    <3>3. Unmet(n) \in BOOLEAN /\ Changed(x, n) \in BOOLEAN /\ Changed(x, n) = (bound[x] # n)
      BY DEF Unmet, Changed
    <3>4. /\ pump' \in Pumps /\ pump'.keep = <<>> /\ pump'.out = <<>>
         /\ \/ /\ pump'.at = "greet" /\ Unmet(n) /\ cached # Nobody /\ n \notin toldTo
               /\ pump'.pkt = cached /\ pump'.node = n /\ pump'.routes = Changed(x, n)
               /\ toldTo' = toldTo \cup {n}
            \/ /\ ~Unmet(n) \/ cached = Nobody \/ n \in toldTo
               /\ pump'.at = IF Changed(x, n) THEN "drain" ELSE "idle"
               /\ UNCHANGED toldTo
      BY <3>2, <3>3, EventTyped
    <3>5. toldTo' \subseteq Nodes /\ bound' \in [Ids -> Nodes \cup {Nobody}]
      BY <1>4, <3>2, <3>4 DEF AlnTyped
    <3>6. Holds'
      BY <1>2, <1>4, <3>4 DEF Holds, AlnTyped
    <3>7. AlnTyped'
      BY <1>1, <1>2, <1>4, <3>2, <3>4, <3>5 DEF AlnTyped
    <3> QED
      BY <1>2, <3>2, <3>3, <3>4, <3>6, <3>7
  <2> QED
    BY <2>1, <2>2
<1> QED
  BY <1>2, <1>5, <1>6, <1>7, <1>8

(* The packet that gets a route is the first one that has one, so that      *)
(* those before it have none.                                               *)
LEMMA DrainTyped ==
  ASSUME AlnShape, DrainRoutable
  PROVE  /\ AlnTyped' /\ Holds' /\ pump.at = "drain"
         /\ UNCHANGED <<up, attached, fallback, bound, pinned, cached, toldTo>>
         /\ UNCHANGED <<ioVars, send, sent, lost>>
         /\ \/ /\ pending' = pump.keep \o pending /\ pump'.out = pump.out /\ pump'.keep = <<>>
               /\ pump'.at = IF pump.out = <<>> THEN "idle" ELSE "flush"
               /\ \A j \in DOMAIN pending : ~Routable(pending[j])
            \/ \E k \in DOMAIN pending :
                 /\ pending' = SubSeq(pending, k + 1, Len(pending))
                 /\ pump'.at = "record" /\ pump'.pkt = pending[k] /\ pump'.out = pump.out
                 /\ pump'.keep = pump.keep \o SubSeq(pending, 1, k - 1)
                 /\ \A j \in DOMAIN pending : j < k => ~Routable(pending[j])
<1> DEFINE routable == {k \in DOMAIN pending : Routable(pending[k])}
           k == CHOOSE j \in routable : \A o \in routable : j <= o
<1>1. /\ pump.at = "drain"
      /\ UNCHANGED <<up, attached, fallback, bound, pinned, cached, toldTo>>
      /\ UNCHANGED <<ioVars, send, sent, lost>>
  BY DEF DrainRoutable, tableVars, outVars
<1>2. AlnTyped /\ Holds /\ pump \in Pumps /\ pump.keep \in Seq(Addressed)
      /\ pump.out \in Seq(Addressed \X Nodes) /\ pending \in Seq(Addressed)
  BY DEF AlnShape, AlnTyped, Pumps
<1>3. CASE routable = {}
  <2>1. pending' = pump.keep \o pending /\ pump' = FlushOrIdle(pump.out)
    BY <1>3 DEF DrainRoutable, PutBack
  <2>2. pending' \in Seq(Addressed)
    BY <1>2, <2>1, ConcatProperties
  <2>3. /\ pump' \in Pumps /\ pump'.keep = <<>> /\ pump'.out = pump.out
        /\ pump'.at = IF pump.out = <<>> THEN "idle" ELSE "flush"
    BY <1>2, <2>1, FlushTyped
  <2>4. Holds'
    BY <2>3 DEF Holds
  <2>5. AlnTyped'
    BY <1>1, <1>2, <2>2, <2>3 DEF AlnTyped, ioVars
  <2>6. \A j \in DOMAIN pending : ~Routable(pending[j])
    BY <1>3
  <2> QED
    BY <1>1, <2>1, <2>3, <2>4, <2>5, <2>6
<1>4. CASE routable # {}
  <2>1. routable \subseteq Nat
    BY <1>2, LenProperties
  <2>2. k \in routable /\ \A o \in routable : k <= o
    BY <1>4, <2>1, Smallest
  <2>3. /\ pending' = SubSeq(pending, k + 1, Len(pending))
        /\ pump' = [pump EXCEPT !.at = "record", !.pkt = pending[k],
                                !.node = NodeFor(pending[k], bound, back),
                                !.keep = pump.keep \o SubSeq(pending, 1, k - 1)]
    BY <1>4 DEF DrainRoutable
  <2>4. k \in DOMAIN pending /\ NodeFor(pending[k], bound, back) # Nobody
        /\ \A j \in DOMAIN pending : j < k => ~Routable(pending[j])
    <3>1. k \in DOMAIN pending /\ Routable(pending[k])
      BY <2>2
    <3>2. ASSUME NEW j \in DOMAIN pending, j < k, Routable(pending[j]) PROVE FALSE
      <4>1. j \in routable /\ k <= j /\ j \in Nat /\ k \in Nat
        BY <2>1, <2>2, <3>2
      <4> QED
        BY <3>2, <4>1
    <3> QED
      BY <3>1, <3>2 DEF Routable
  <2> HIDE DEF k, routable
  <2>5. /\ pending' \in Seq(Addressed) /\ SubSeq(pending, 1, k - 1) \in Seq(Addressed)
        /\ pending[k] \in Addressed
    BY <1>2, <2>3, <2>4, SplitAt
  <2>6. pump.keep \o SubSeq(pending, 1, k - 1) \in Seq(Addressed)
    BY <1>2, <2>5, ConcatProperties
  <2>7. NodeFor(pending[k], bound, back) \in Nodes
    <3>1. pending[k] \in Packets /\ KindOf[pending[k]] \in {"data", "linkreq", "link", "proof"}
      BY <2>5 DEF Addressed
    <3>2. NodeFor(pending[k], bound, back) \in Nodes \cup {Nobody}
      BY <1>2, <3>1, NodeIsTyped DEF AlnTyped
    <3> QED
      BY <2>4, <3>2
  <2>8. /\ pump' \in Pumps /\ pump'.at = "record" /\ pump'.pkt = pending[k]
        /\ pump'.node \in Nodes
        /\ pump'.keep = pump.keep \o SubSeq(pending, 1, k - 1) /\ pump'.out = pump.out
    BY <1>2, <2>3, <2>5, <2>6, <2>7 DEF Pumps, Addressed
  <2>9. Holds'
    BY <2>5, <2>8 DEF Holds, Addressed
  <2>10. AlnTyped'
    BY <1>1, <1>2, <2>5, <2>8 DEF AlnTyped, ioVars
  <2> QED
    BY <1>1, <2>3, <2>4, <2>8, <2>9, <2>10
<1> QED
  BY <1>3, <1>4

LEMMA AlnStepShaped == AlnShape /\ [AlnNext]_alnVars => AlnShape'
<1> SUFFICES ASSUME AlnShape, [AlnNext]_alnVars PROVE AlnShape'
  OBVIOUS
<1>1. AlnTyped /\ Holds /\ pump \in Pumps
  BY DEF AlnShape, AlnTyped
<1>2. ASSUME NEW p \in Packets, RouteOutbound(p) PROVE AlnShape'
  BY <1>1, <1>2, RoutesTyped DEF AlnShape, Holds
<1>3. ASSUME NEW p \in Packets, RecordLinkRequest(p) PROVE AlnShape'
  <2>1. PICK n \in send[p].targets : Pin(p, n)
    BY <1>3 DEF RecordLinkRequest
  <2>2. send[p] \in SendCalls /\ send[p].targets \in SUBSET Nodes /\ n \in Nodes
    BY <1>1 DEF AlnTyped, SendCalls
  <2>3. Sending(p, "writing", send[p].targets)
    BY <1>3 DEF RecordLinkRequest
  <2>4. send' \in [Packets -> SendCalls]
    BY <1>1, <2>2, <2>3, SendingTyped DEF AlnTyped
  <2>5. pinned' \in [LinkIds -> Nodes \cup {Nobody}]
    BY <1>1, <2>1, <2>2 DEF AlnTyped, Pin
  <2> QED
    BY <1>1, <1>3, <2>4, <2>5 DEF RecordLinkRequest, queueVars, ioVars, outVars, AlnShape, AlnTyped, Holds
<1>4. ASSUME NEW p \in Packets, WriteTo(p) PROVE AlnShape'
  <2>1. send[p] \in SendCalls /\ send[p].targets \in SUBSET Nodes
    BY <1>1 DEF AlnTyped, SendCalls
  <2>2. UNCHANGED <<up, tableVars, queueVars, ioVars, pump>>
    BY <1>4 DEF WriteTo
  <2>3. CASE /\ \E n \in send[p].targets :
                  /\ sent' = sent \cup {<<p, n>>}
                  /\ Sending(p, IF send[p].targets = {n} THEN "done" ELSE "writing",
                             send[p].targets \ {n})
             /\ UNCHANGED lost
    <3>1. PICK n \in send[p].targets :
            /\ sent' = sent \cup {<<p, n>>}
            /\ Sending(p, IF send[p].targets = {n} THEN "done" ELSE "writing", send[p].targets \ {n})
      BY <2>3
    <3>2. send' \in [Packets -> SendCalls]
      BY <1>1, <2>1, <3>1, SendingTyped DEF AlnTyped
    <3>3. sent' \subseteq Packets \X Nodes
      BY <1>1, <2>1, <3>1 DEF AlnTyped
    <3> QED
      BY <1>1, <2>2, <2>3, <3>2, <3>3 DEF tableVars, queueVars, ioVars, AlnShape, AlnTyped, Holds
  <2>4. CASE lost' = lost \cup {p} /\ Sending(p, "done", {}) /\ UNCHANGED sent
    <3>1. send' \in [Packets -> SendCalls]
      BY <1>1, <2>4, SendingTyped DEF AlnTyped
    <3> QED
      BY <1>1, <2>2, <2>4, <3>1 DEF tableVars, queueVars, ioVars, AlnShape, AlnTyped, Holds
  <2> QED
    BY <1>4, <2>3, <2>4 DEF WriteTo
<1>5. CASE Arrive
  <2> DEFINE I == Lines \cup Frames
  <2>1. PICK i \in I : inbox' = IF i \in Frames /\ i.node = attached THEN inbox ELSE Append(inbox, i)
    BY <1>5 DEF Arrive
  <2>2. inbox \in Seq(I)
    BY <1>1 DEF AlnTyped
  <2> HIDE DEF I
  <2>3. inbox' \in Seq(I)
    BY <2>1, <2>2, AppendProperties
  <2>4. inbox' \in Seq(Lines \cup Frames)
    BY <2>3 DEF I
  <2> QED
    BY <1>1, <1>5, <2>4 DEF Arrive, tableVars, queueVars, outVars, AlnShape, AlnTyped, Holds
<1>6. CASE TakeItem
  BY <1>6, TakesTyped DEF AlnShape
<1>7. CASE ItemHashed
  <2>1. pump.item \in Frames /\ pump.item.node \in Nodes
    BY <1>1, <1>7, ItemsTyped DEF ItemHashed, Holds
  <2>2. /\ pump' \in Pumps /\ pump'.at \in {"idle", "drain"} /\ pump'.keep = <<>> /\ pump'.out = <<>>
    BY <1>7, PumpsAreSuch DEF ItemHashed
  <2>3. pinned' \in [LinkIds -> Nodes \cup {Nobody}]
    BY <1>1, <1>7, <2>1 DEF ItemHashed, AlnTyped
  <2> QED
    BY <1>1, <1>7, <2>2, <2>3 DEF ItemHashed, queueVars, ioVars, outVars, AlnShape, AlnTyped, Holds
<1>8. CASE Greeted
  <2>1. pump.pkt \in Packets /\ pump.node \in Nodes /\ Written(pump.pkt, pump.node)
    BY <1>1, <1>8 DEF Greeted, Holds
  <2>2. sent' \subseteq Packets \X Nodes /\ lost' \subseteq Packets
    BY <1>1, <2>1 DEF Written, AlnTyped
  <2>3. /\ pump' \in Pumps /\ pump'.at \in {"idle", "drain"} /\ pump'.keep = <<>> /\ pump'.out = <<>>
    BY <1>8, PumpsAreSuch DEF Greeted
  <2> QED
    BY <1>1, <1>8, <2>2, <2>3 DEF Greeted, tableVars, queueVars, ioVars, AlnShape, AlnTyped, Holds
<1>9. CASE DrainRoutable
  BY <1>9, DrainTyped DEF AlnShape
<1>10. CASE DrainRecorded
  <2> DEFINE taken == <<pump.pkt, pump.node>>
             next == [pump EXCEPT !.at = "drain", !.pkt = Nobody, !.node = Nobody,
                                  !.out = Append(pump.out, taken)]
  <2>1. taken \in Addressed \X Nodes /\ pump.node \in Nodes
    BY <1>1, <1>10 DEF DrainRecorded, Holds
  <2>2. pump' = next /\ Pin(pump.pkt, pump.node)
    BY <1>10 DEF DrainRecorded
  <2>3. pump.out \in Seq(Addressed \X Nodes)
    BY <1>1 DEF Pumps
  <2>4. Append(pump.out, taken) \in Seq(Addressed \X Nodes)
    <3> DEFINE T == Addressed \X Nodes
    <3>1. pump.out \in Seq(T) /\ taken \in T
      BY <2>1, <2>3
    <3> HIDE DEF T, taken
    <3>2. Append(pump.out, taken) \in Seq(T)
      BY <3>1, AppendProperties
    <3> QED
      BY <3>2 DEF T
  <2> HIDE DEF taken
  <2>5. next \in Pumps /\ next.at = "drain"
    BY <1>1, <2>4 DEF Pumps
  <2> HIDE DEF next
  <2>6. pinned' \in [LinkIds -> Nodes \cup {Nobody}]
    BY <1>1, <2>1, <2>2 DEF AlnTyped, Pin
  <2> QED
    BY <1>1, <1>10, <2>2, <2>5, <2>6
       DEF DrainRecorded, queueVars, ioVars, outVars, AlnShape, AlnTyped, Holds
<1>11. CASE Flush
  <2> DEFINE T == Addressed \X Nodes
  <2>1. pump.out \in Seq(T) /\ pump.out # <<>>
    BY <1>1, <1>11 DEF Flush, Holds, Pumps
  <2> HIDE DEF T
  <2>2. Head(pump.out) \in T /\ Tail(pump.out) \in Seq(T)
    BY <2>1, HeadTailProperties
  <2>3. /\ Head(pump.out)[1] \in Packets /\ Head(pump.out)[2] \in Nodes
        /\ Tail(pump.out) \in Seq(Addressed \X Nodes)
    BY <2>2 DEF T, Addressed
  <2>4. Written(Head(pump.out)[1], Head(pump.out)[2]) /\ pump' = FlushOrIdle(Tail(pump.out))
    BY <1>11 DEF Flush
  <2>5. sent' \subseteq Packets \X Nodes /\ lost' \subseteq Packets
    BY <1>1, <2>3, <2>4 DEF Written, AlnTyped
  <2>6. /\ pump' \in Pumps /\ pump'.keep = <<>> /\ pump'.out = Tail(pump.out)
        /\ pump'.at = IF Tail(pump.out) = <<>> THEN "idle" ELSE "flush"
    BY <2>3, <2>4, FlushTyped
  <2> QED
    BY <1>1, <1>11, <2>5, <2>6 DEF Flush, tableVars, queueVars, ioVars, AlnShape, AlnTyped, Holds
<1>12. CASE Disconnect
  BY <1>1, <1>12 DEF Disconnect, tableVars, queueVars, ioVars, outVars, AlnShape, AlnTyped, Holds
<1>13. CASE UNCHANGED alnVars
  BY <1>1, <1>13 DEF alnVars, tableVars, queueVars, ioVars, outVars, AlnShape, AlnTyped, Holds
<1> QED
  BY <1>2, <1>3, <1>4, <1>5, <1>6, <1>7, <1>8, <1>9, <1>10, <1>11, <1>12, <1>13 DEF AlnNext

(***************************************************************************)
(* Greeting the peers. A binding never names the node we are attached to;   *)
(* whoever serves a peer is noted as told; and who is noted as told was     *)
(* sent the latest announce, or the write to it is to come.                 *)
(***************************************************************************)
Scrubbed == \A x \in Ids : bound[x] = Nobody \/ bound[x] # attached

ToldOrToBe(n) ==
  \/ <<cached, n>> \in sent \/ n \in send[cached].targets
  \/ pump.at = "greet" /\ pump.pkt = cached /\ pump.node = n

Greeting ==
  cached # Nobody =>
    /\ KindOf[cached] = "announce" /\ send[cached].at # "no"
    /\ \A x \in Ids : bound[x] # Nobody => bound[x] \in toldTo
    /\ lost = {} => \A n \in toldTo : ToldOrToBe(n)

GreetInv == AlnShape /\ Scrubbed /\ Greeting

LEMMA GreetInitial == AlnInit => GreetInv
<1> SUFFICES ASSUME AlnInit PROVE GreetInv
  OBVIOUS
<1>1. Scrubbed /\ Greeting
  BY DEF AlnInit, Scrubbed, Greeting
<1> QED
  BY <1>1, AlnInitial DEF GreetInv

LEMMA ScrubbedKept == AlnShape /\ Scrubbed /\ [AlnNext]_alnVars => Scrubbed'
<1> SUFFICES ASSUME AlnShape, Scrubbed, [AlnNext]_alnVars PROVE Scrubbed'
  OBVIOUS
<1> USE DEF Scrubbed
<1>1. ASSUME NEW p \in Packets, RouteOutbound(p) PROVE Scrubbed'
  BY <1>1, RoutesTyped
<1>2. CASE TakeItem
  <2>1. bound \in [Ids -> Nodes \cup {Nobody}]
    BY DEF AlnShape, AlnTyped
  <2>2. \/ UNCHANGED <<attached, bound>>
        \/ bound' = [x \in Ids |-> IF bound[x] = attached' THEN Nobody ELSE bound[x]]
        \/ \E x \in Ids, n \in Nodes :
             n # attached /\ UNCHANGED attached /\ bound' = [bound EXCEPT ![x] = n]
    BY <1>2, TakesTyped
  <2> QED
    BY <2>1, <2>2
<1>3. CASE UNCHANGED <<attached, bound>>
  BY <1>3
<1> QED
  BY <1>1, <1>2, <1>3
     DEF AlnNext, RecordLinkRequest, WriteTo, Arrive, ItemHashed, Greeted, DrainRoutable,
         DrainRecorded, Flush, Disconnect, alnVars, tableVars

LEMMA GreetKept == GreetInv /\ [AlnNext]_alnVars => GreetInv'
<1> SUFFICES ASSUME GreetInv, [AlnNext]_alnVars PROVE Greeting'
  BY AlnStepShaped, ScrubbedKept DEF GreetInv
<1>1. AlnShape /\ AlnTyped /\ Holds /\ Scrubbed /\ Greeting
  BY DEF GreetInv, AlnShape
<1>2. ASSUME NEW p \in Packets, RouteOutbound(p) PROVE Greeting'
  <2>1. /\ UNCHANGED <<attached, fallback, pump, sent>>
        /\ send[p].at = "no" /\ send'[p].at # "no"
        /\ \A q \in Packets : q # p => send'[q] = send[q]
        /\ \A x \in Ids : bound'[x] \in {bound[x], Nobody}
        /\ \/ /\ KindOf[p] = "announce" /\ cached' = p /\ toldTo' = Fanout(bound')
              /\ send'[p].targets = toldTo' /\ UNCHANGED lost
           \/ UNCHANGED <<cached, toldTo>> /\ (lost' = {} => lost = {})
    BY <1>1, <1>2, RoutesTyped
  <2>2. CASE /\ KindOf[p] = "announce" /\ cached' = p /\ toldTo' = Fanout(bound')
             /\ send'[p].targets = toldTo' /\ UNCHANGED lost
    <3>1. \A x \in Ids : bound'[x] # Nobody => bound'[x] \in Fanout(bound')
      BY <1>1, <2>1 DEF Scrubbed, Fanout
    <3>2. \A n \in toldTo' : n \in send'[cached'].targets
      BY <2>2
    <3> QED
      BY <2>1, <2>2, <3>1, <3>2 DEF Greeting, ToldOrToBe
  <2>3. CASE UNCHANGED <<cached, toldTo>> /\ (lost' = {} => lost = {})
    <3>1. CASE cached # Nobody
      <4>1. cached \in Packets /\ cached # p /\ send'[cached] = send[cached]
        BY <1>1, <2>1, <3>1 DEF AlnTyped, Greeting
      <4> QED
        BY <1>1, <2>1, <2>3, <4>1 DEF Greeting, ToldOrToBe
    <3>2. CASE cached = Nobody
      BY <2>3, <3>2 DEF Greeting
    <3> QED
      BY <3>1, <3>2
  <2> QED
    BY <2>1, <2>2, <2>3
<1>3. ASSUME NEW p \in Packets, RecordLinkRequest(p) PROVE Greeting'
  <2>1. /\ UNCHANGED <<bound, cached, toldTo, pump, sent, lost>>
        /\ Sending(p, "writing", send[p].targets) /\ send[p].targets \in SUBSET Nodes
        /\ send \in [Packets -> SendCalls]
    BY <1>1, <1>3 DEF RecordLinkRequest, queueVars, outVars, AlnTyped, SendCalls
  <2>2. \A q \in Packets : send'[q].targets = send[q].targets
                           /\ (send[q].at # "no" => send'[q].at # "no")
    BY <2>1, SendingTyped
  <2> QED
    BY <1>1, <2>1, <2>2 DEF Greeting, ToldOrToBe, AlnTyped
<1>4. ASSUME NEW p \in Packets, WriteTo(p) PROVE Greeting'
  <2>1. UNCHANGED <<bound, cached, toldTo, pump>> /\ send \in [Packets -> SendCalls]
        /\ send[p].targets \in SUBSET Nodes
    BY <1>1, <1>4 DEF WriteTo, tableVars, queueVars, AlnTyped, SendCalls
  <2>2. CASE lost' = lost \cup {p} /\ Sending(p, "done", {})
    <3>1. \A q \in Packets : send[q].at # "no" => send'[q].at # "no"
      BY <2>1, <2>2, SendingTyped
    <3> QED
      BY <1>1, <2>1, <2>2, <3>1 DEF Greeting, AlnTyped
  <2>3. ASSUME NEW n \in send[p].targets, UNCHANGED lost, sent' = sent \cup {<<p, n>>},
               Sending(p, IF send[p].targets = {n} THEN "done" ELSE "writing", send[p].targets \ {n})
        PROVE  Greeting'
    <3> DEFINE at == IF send[p].targets = {n} THEN "done" ELSE "writing"
               left == send[p].targets \ {n}
    <3>1. Sending(p, at, left) /\ at \in {"done", "writing"} /\ left \in SUBSET Nodes
      BY <2>1, <2>3
    <3> HIDE DEF at, left
    <3>2. /\ send'[p].at = at /\ send'[p].targets = left
          /\ \A q \in Packets : q # p => send'[q] = send[q]
      BY <2>1, <3>1, SendingTyped
    <3>3. \A q \in Packets : /\ send[q].at # "no" => send'[q].at # "no"
                             /\ send'[q].targets = IF q = p THEN send[q].targets \ {n}
                                                            ELSE send[q].targets
      BY <3>1, <3>2 DEF left
    <3> QED
      BY <1>1, <2>1, <2>3, <3>3 DEF Greeting, ToldOrToBe, AlnTyped
  <2> QED
    BY <1>4, <2>2, <2>3 DEF WriteTo
<1>5. CASE TakeItem
  <2>1. /\ pump.at = "idle" /\ UNCHANGED <<cached, send, sent, lost>>
        /\ bound \in [Ids -> Nodes \cup {Nobody}]
    BY <1>1, <1>5, TakesTyped DEF AlnTyped
  <2>2. CASE UNCHANGED <<attached, bound, toldTo>>
    BY <1>1, <2>1, <2>2 DEF Greeting, ToldOrToBe
  <2>3. CASE /\ UNCHANGED toldTo
             /\ bound' = [x \in Ids |-> IF bound[x] = attached' THEN Nobody ELSE bound[x]]
    BY <1>1, <2>1, <2>3 DEF Greeting, ToldOrToBe
  <2>4. ASSUME NEW x \in Ids, NEW n \in Nodes, bound' = [bound EXCEPT ![x] = n],
               \/ /\ pump'.at = "greet" /\ pump'.pkt = cached /\ pump'.node = n
                  /\ toldTo' = toldTo \cup {n}
               \/ (~Unmet(n) \/ cached = Nobody \/ n \in toldTo) /\ UNCHANGED toldTo
        PROVE  Greeting'
    <3>1. CASE cached = Nobody
      BY <2>1, <3>1 DEF Greeting
    <3>2. CASE cached # Nobody
      <4>1. \A y \in Ids : bound[y] # Nobody => bound[y] \in toldTo
        BY <1>1, <3>2 DEF Greeting
      <4>2. n \in toldTo' /\ toldTo \subseteq toldTo'
        BY <2>4, <3>2, <4>1, AlnAssumption DEF Unmet
      <4>3. \A y \in Ids : bound'[y] # Nobody => bound'[y] \in toldTo'
        BY <2>1, <2>4, <4>1, <4>2
      <4>4. lost = {} => \A m \in toldTo' : ToldOrToBe(m)'
        BY <1>1, <2>1, <2>4, <3>2 DEF Greeting, ToldOrToBe
      <4> QED
        BY <1>1, <2>1, <3>2, <4>3, <4>4 DEF Greeting
    <3> QED
      BY <3>1, <3>2
  <2> QED
    BY <1>1, <1>5, <2>2, <2>3, <2>4, TakesTyped
<1>6. CASE Greeted
  <2>1. UNCHANGED <<bound, cached, toldTo, send>> /\ Written(pump.pkt, pump.node)
    BY <1>6 DEF Greeted, tableVars, queueVars
  <2> QED
    BY <1>1, <2>1 DEF Written, Greeting, ToldOrToBe
<1>7. CASE Flush
  <2>1. UNCHANGED <<bound, cached, toldTo, send>> /\ pump.at = "flush"
        /\ sent \subseteq sent' /\ (lost' = {} => lost = {})
    BY <1>7 DEF Flush, tableVars, queueVars, Written
  <2> QED
    BY <1>1, <2>1 DEF Greeting, ToldOrToBe
<1>8. CASE UNCHANGED <<bound, cached, toldTo, send, sent, lost>> /\ pump.at # "greet"
  BY <1>1, <1>8 DEF Greeting, ToldOrToBe
<1>9. CASE UNCHANGED <<bound, cached, toldTo, send, sent, lost, pump>>
  BY <1>1, <1>9 DEF Greeting, ToldOrToBe
<1>10. CASE ItemHashed \/ DrainRoutable \/ DrainRecorded
  BY <1>8, <1>10 DEF ItemHashed, DrainRoutable, DrainRecorded, tableVars, queueVars, outVars
<1>11. CASE Arrive \/ Disconnect \/ UNCHANGED alnVars
  BY <1>9, <1>11 DEF Arrive, Disconnect, alnVars, tableVars, queueVars, outVars
<1> QED
  BY <1>2, <1>3, <1>4, <1>5, <1>6, <1>7, <1>10, <1>11 DEF AlnNext

(* When the consumer rests and no write has failed, every node that serves  *)
(* a peer was sent our latest announce, or its write is under way, for any  *)
(* peers, nodes, lines and frames (routeOutbound, cachedAnnounceFor).       *)
THEOREM PeersAreGreeted == AlnSpec => []PeersGreeted
<1>1. GreetInv => PeersGreeted
  BY DEF GreetInv, Greeting, ToldOrToBe, PeersGreeted, Rest
<1> QED
  BY <1>1, GreetInitial, GreetKept, PTL DEF AlnSpec

(***************************************************************************)
(* Waiting packets. While no drain is due the directory binds no node for   *)
(* the destination of any of them, nor ever for those a drain has passed.   *)
(***************************************************************************)
Unresolved(p) == KindOf[p] \in {"data", "linkreq"} => bound[DestOf[p]] = Nobody

NoDrainDue ==
  pump.at \in {"idle", "hash", "flush"} \/ (pump.at = "greet" /\ pump.routes = FALSE)

WaitInv ==
  /\ AlnShape /\ Scrubbed
  /\ NoDrainDue => \A p \in SeqSet(pending) : Unresolved(p)
  /\ \A p \in SeqSet(pump.keep) : Unresolved(p)

LEMMA WaitInitial == AlnInit => WaitInv
<1> SUFFICES ASSUME AlnInit PROVE WaitInv
  OBVIOUS
<1>1. Scrubbed /\ pending = <<>> /\ pump.keep = <<>>
  BY DEF AlnInit, Scrubbed, PumpIdle
<1>2. SeqSet(<<>>) = {}
  BY DEF SeqSet
<1> QED
  BY <1>1, <1>2, AlnInitial DEF WaitInv

(* A packet without a route has no binding.                                 *)
LEMMA NoRouteNoBinding ==
  ASSUME AlnShape, NEW p \in Addressed, NEW bnd \in [Ids -> Nodes \cup {Nobody}], NEW b,
         \A x \in Ids : bnd[x] = Nobody \/ bnd[x] # attached,
         NodeFor(p, bnd, b) = Nobody, KindOf[p] \in {"data", "linkreq"}
  PROVE  bnd[DestOf[p]] = Nobody
<1>1. p \in Packets
  BY DEF Addressed
<1>2. bnd[DestOf[p]] \in {Nobody, attached} /\ DestOf[p] \in Ids
  BY <1>1, NodeIsTyped DEF AlnShape, AlnTyped
<1> QED
  BY <1>2

LEMMA DestinationsTyped ==
  \A p \in Addressed : KindOf[p] \in {"data", "linkreq"} => DestOf[p] \in Ids
BY AlnAssumption DEF Addressed, OfKind

LEMMA WaitKept == WaitInv /\ [AlnNext]_alnVars => WaitInv'
<1> SUFFICES ASSUME WaitInv, [AlnNext]_alnVars
             PROVE  /\ NoDrainDue' => \A p \in SeqSet(pending') : Unresolved(p)'
                    /\ \A p \in SeqSet(pump'.keep) : Unresolved(p)'
  BY AlnStepShaped, ScrubbedKept DEF WaitInv
<1>1. /\ AlnShape /\ AlnTyped /\ Holds /\ Scrubbed /\ AlnShape' /\ Scrubbed'
      /\ pending \in Seq(Addressed) /\ pump \in Pumps /\ pump.keep \in Seq(Addressed)
      /\ bound \in [Ids -> Nodes \cup {Nobody}] /\ bound' \in [Ids -> Nodes \cup {Nobody}]
      /\ SeqSet(pending) \subseteq Addressed /\ SeqSet(pump.keep) \subseteq Addressed
      /\ NoDrainDue => \A p \in SeqSet(pending) : Unresolved(p)
      /\ \A p \in SeqSet(pump.keep) : Unresolved(p)
  <2>1. AlnShape /\ AlnTyped /\ Holds /\ Scrubbed /\ AlnShape' /\ AlnTyped' /\ Scrubbed'
    BY AlnStepShaped, ScrubbedKept DEF WaitInv, AlnShape
  <2>2. pending \in Seq(Addressed) /\ pump \in Pumps /\ pump.keep \in Seq(Addressed)
    BY <2>1 DEF AlnTyped, Pumps
  <2>3. SeqSet(pending) \subseteq Addressed /\ SeqSet(pump.keep) \subseteq Addressed
    BY <2>2, SeqSets
  <2> QED
    BY <2>1, <2>2, <2>3 DEF AlnTyped, WaitInv
<1>d. /\ pump.at \in {"idle", "hash", "flush"} => NoDrainDue
      /\ pump.at = "greet" /\ pump.routes = FALSE => NoDrainDue
      /\ NoDrainDue' => pump'.at \notin {"drain", "record"}
      /\ NoDrainDue' => pump'.at # "greet" \/ pump'.routes # TRUE
  BY DEF NoDrainDue
<1>r. pump.routes \in BOOLEAN
  BY <1>1 DEF Pumps
<1>e. SeqSet(<<>>) = {}
  BY DEF SeqSet
<1>u. ASSUME NEW p \in Addressed, Unresolved(p), \A x \in Ids : bound'[x] \in {bound[x], Nobody}
      PROVE  Unresolved(p)'
  BY <1>u, DestinationsTyped DEF Unresolved
<1>2. ASSUME NEW p \in Packets, RouteOutbound(p)
      PROVE  /\ NoDrainDue' => \A q \in SeqSet(pending') : Unresolved(q)'
             /\ \A q \in SeqSet(pump'.keep) : Unresolved(q)'
  <2>1. /\ UNCHANGED <<attached, pump>>
        /\ \A x \in Ids : bound'[x] \in {bound[x], Nobody}
        /\ \/ UNCHANGED pending
           \/ /\ p \in Addressed /\ NodeFor(p, bound', back') = Nobody
              /\ \/ pending' = Append(pending, p)
                 \/ pending # <<>> /\ pending' = Append(Tail(pending), p)
    BY <1>1, <1>2, RoutesTyped
  <2>2. \A q \in SeqSet(pending') :
          q \in SeqSet(pending) \/ (q = p /\ p \in Addressed /\ Unresolved(p)')
    <3>1. CASE UNCHANGED pending
      BY <3>1
    <3>2. CASE /\ p \in Addressed /\ NodeFor(p, bound', back') = Nobody
               /\ \/ pending' = Append(pending, p)
                  \/ pending # <<>> /\ pending' = Append(Tail(pending), p)
      <4>1. Unresolved(p)'
        <5>1. \A x \in Ids : bound'[x] = Nobody \/ bound'[x] # attached
          BY <1>1, <2>1 DEF Scrubbed
        <5>2. KindOf[p] \in {"data", "linkreq"} => bound'[DestOf[p]] = Nobody
          BY <1>1, <3>2, <5>1, NoRouteNoBinding
        <5> QED
          BY <5>2 DEF Unresolved
      <4>2. pending # <<>> => /\ Tail(pending) \in Seq(Addressed)
                              /\ SeqSet(Tail(pending)) \subseteq SeqSet(pending)
        BY <1>1, SeqSets, HeadTailProperties
      <4>3. p \in Addressed /\ pending \in Seq(Addressed)
        BY <1>1, <3>2
      <4>4. SeqSet(Append(pending, p)) = SeqSet(pending) \cup {p}
        BY <4>3, SeqSets
      <4>5. ASSUME pending # <<>>
            PROVE  SeqSet(Append(Tail(pending), p)) = SeqSet(Tail(pending)) \cup {p}
        <5> DEFINE rest == Tail(pending)
        <5>1. rest \in Seq(Addressed)
          BY <4>2, <4>5
        <5> HIDE DEF rest
        <5>2. SeqSet(Append(rest, p)) = SeqSet(rest) \cup {p}
          BY <4>3, <5>1, SeqSets
        <5> QED
          BY <5>2 DEF rest
      <4>6. SeqSet(pending') \subseteq SeqSet(pending) \cup {p}
        BY <3>2, <4>2, <4>4, <4>5
      <4> QED
        BY <3>2, <4>1, <4>6
    <3> QED
      BY <2>1, <3>1, <3>2
  <2>3. NoDrainDue' => \A q \in SeqSet(pending') : Unresolved(q)'
    BY <1>1, <1>u, <2>1, <2>2 DEF NoDrainDue
  <2> QED
    BY <1>1, <1>u, <2>1, <2>3
<1>3. CASE TakeItem
  <2>1. pump.at = "idle" /\ pump'.keep = <<>> /\ pending' = pending
    BY <1>1, <1>3, TakesTyped
  <2>2. \A p \in SeqSet(pending) : p \in Addressed /\ Unresolved(p)
    BY <1>1, <1>d, <2>1
  <2>3. CASE UNCHANGED bound
    BY <1>e, <2>1, <2>2, <2>3 DEF Unresolved
  <2>4. CASE bound' = [x \in Ids |-> IF bound[x] = attached' THEN Nobody ELSE bound[x]]
    <3>1. \A x \in Ids : bound'[x] \in {bound[x], Nobody}
      BY <2>4
    <3> QED
      BY <1>e, <1>u, <2>1, <2>2, <3>1
  <2>5. ASSUME NEW x \in Ids, NEW n \in Nodes, bound' = [bound EXCEPT ![x] = n],
               \/ pump'.at = "greet" /\ pump'.routes = (bound[x] # n)
               \/ pump'.at = IF bound[x] # n THEN "drain" ELSE "idle"
        PROVE  /\ NoDrainDue' => \A p \in SeqSet(pending') : Unresolved(p)'
               /\ \A p \in SeqSet(pump'.keep) : Unresolved(p)'
    <3>1. CASE bound[x] = n
      <4>1. bound' = bound
        BY <1>1, <2>5, <3>1
      <4> QED
        BY <1>e, <2>1, <2>2, <4>1 DEF Unresolved
    <3>2. CASE bound[x] # n
      BY <1>d, <1>e, <2>1, <2>5, <3>2
    <3> QED
      BY <3>1, <3>2
  <2> QED
    BY <1>1, <1>3, <2>3, <2>4, <2>5, TakesTyped
<1>4. CASE ItemHashed
  <2>1. pump.at = "hash" /\ UNCHANGED <<bound, pending>> /\ pump'.keep = <<>>
    BY <1>4, PumpsAreSuch DEF ItemHashed, queueVars
  <2> QED
    BY <1>1, <1>d, <1>e, <2>1 DEF Unresolved
<1>5. CASE Greeted
  <2>1. /\ pump.at = "greet" /\ UNCHANGED <<bound, pending>> /\ pump'.keep = <<>>
        /\ pump.routes => pump'.at = "drain"
    BY <1>5, PumpsAreSuch DEF Greeted, tableVars, queueVars
  <2> QED
    BY <1>1, <1>d, <1>e, <1>r, <2>1 DEF Unresolved
<1>6. CASE DrainRoutable
  <2>1. UNCHANGED <<attached, bound>> /\ pump.at = "drain"
    BY <1>1, <1>6, DrainTyped
  <2>2. \A j \in DOMAIN pending : ~Routable(pending[j]) => Unresolved(pending[j])
    <3>1. \A x \in Ids : bound[x] = Nobody \/ bound[x] # attached
      BY <1>1 DEF Scrubbed
    <3>2. ASSUME NEW p \in Addressed, ~Routable(p) PROVE Unresolved(p)
      BY <1>1, <3>1, <3>2, NoRouteNoBinding DEF Routable, Unresolved
    <3>3. \A j \in DOMAIN pending : pending[j] \in Addressed
      BY <1>1 DEF SeqSet
    <3> QED
      BY <3>2, <3>3
  <2>3. CASE /\ pending' = pump.keep \o pending /\ pump'.keep = <<>>
             /\ \A j \in DOMAIN pending : ~Routable(pending[j])
    <3>1. SeqSet(pending') = SeqSet(pump.keep) \cup SeqSet(pending)
      BY <1>1, <2>3, SeqSets
    <3>2. \A p \in SeqSet(pending) : Unresolved(p)
      BY <2>2, <2>3 DEF SeqSet
    <3> QED
      BY <1>1, <1>e, <2>1, <2>3, <3>1, <3>2 DEF Unresolved
  <2>4. ASSUME NEW k \in DOMAIN pending, pump'.at = "record",
               pump'.keep = pump.keep \o SubSeq(pending, 1, k - 1),
               \A j \in DOMAIN pending : j < k => ~Routable(pending[j])
        PROVE  /\ NoDrainDue' => \A p \in SeqSet(pending') : Unresolved(p)'
               /\ \A p \in SeqSet(pump'.keep) : Unresolved(p)'
    <3> DEFINE before == SubSeq(pending, 1, k - 1)
    <3>1. /\ before \in Seq(Addressed) /\ DOMAIN before = 1..k - 1
          /\ \A i \in 1..k - 1 : before[i] = pending[i]
          /\ k \in 1..Len(pending) /\ Len(pending) \in Nat /\ DOMAIN pending = 1..Len(pending)
      BY <1>1, SplitAt, LenProperties, SMTT(20)
    <3> HIDE DEF before
    <3>2. \A i \in DOMAIN before : i \in DOMAIN pending /\ i < k /\ before[i] = pending[i]
      BY <3>1
    <3>3. \A p \in SeqSet(before) : Unresolved(p)
      BY <2>2, <2>4, <3>2 DEF SeqSet
    <3>4. SeqSet(pump'.keep) = SeqSet(pump.keep) \cup SeqSet(before)
      <4>1. pump'.keep = pump.keep \o before
        BY <2>4 DEF before
      <4> QED
        BY <1>1, <3>1, <4>1, SeqSets
    <3> QED
      BY <1>1, <1>d, <2>1, <2>4, <3>3, <3>4 DEF Unresolved
  <2> QED
    BY <1>1, <1>6, <2>3, <2>4, DrainTyped
<1>7. CASE DrainRecorded
  <2>1. /\ pump.at = "record" /\ UNCHANGED <<bound, pending>>
        /\ pump'.at = "drain" /\ pump'.keep = pump.keep
    BY <1>1, <1>7 DEF DrainRecorded, queueVars, Pumps
  <2> QED
    BY <1>1, <1>d, <2>1 DEF Unresolved
<1>8. CASE Flush
  <2>1. UNCHANGED <<bound, pending>> /\ pump.at = "flush" /\ pump'.keep = <<>>
    BY <1>8, PumpsAreSuch DEF Flush, tableVars, queueVars, FlushOrIdle, PumpIdle
  <2> QED
    BY <1>1, <1>d, <1>e, <2>1 DEF Unresolved
<1>9. CASE UNCHANGED <<bound, pending, pump>>
  BY <1>1, <1>9 DEF NoDrainDue, Unresolved
<1>10. CASE \/ \E p \in Packets : RecordLinkRequest(p) \/ WriteTo(p)
           \/ Arrive \/ Disconnect \/ UNCHANGED alnVars
  BY <1>9, <1>10 DEF RecordLinkRequest, WriteTo, Arrive, Disconnect, alnVars, tableVars, queueVars
<1> QED
  BY <1>2, <1>3, <1>4, <1>5, <1>6, <1>7, <1>8, <1>10 DEF AlnNext

(* When the consumer rests no packet waits whose destination the directory  *)
(* has bound to a node, for any queue, whatever is buffered or learned      *)
(* while a drain is suspended (_upsert, drainRoutable).                     *)
THEOREM NothingResolvedWaits == AlnSpec => []BufferedIsUnresolved
<1>1. WaitInv => BufferedIsUnresolved
  BY DEF WaitInv, NoDrainDue, Unresolved, BufferedIsUnresolved, Rest
<1> QED
  BY <1>1, WaitInitial, WaitKept, PTL DEF AlnSpec

(***************************************************************************)
(* One place. A buffered packet is in the queue, kept by the drain, in its  *)
(* hands, on its list of routed packets, written or lost; in one of these,  *)
(* once; and what was not buffered is in none of the first four.            *)
(***************************************************************************)
Firsts(s) == {s[i][1] : i \in DOMAIN s}

DistinctFirsts(s) == \A i, j \in DOMAIN s : s[i][1] = s[j][1] => i = j

Queued(p)   == p \in SeqSet(pending)
Kept(p)     == p \in SeqSet(pump.keep)
Routed(p)   == p \in Firsts(pump.out)
Recorded(p) == pump.at = "record" /\ pump.pkt = p
Sent(p)     == \E n \in Nodes : <<p, n>> \in sent
Lost(p)     == p \in lost
Buffered(p) == send[p].at = "buffered"

Held(p) == Queued(p) \/ Kept(p) \/ Routed(p) \/ Recorded(p)

InOnePlace(p) ==
  /\ Held(p) => Buffered(p) /\ ~Sent(p) /\ ~Lost(p)
  /\ Queued(p) => ~Kept(p) /\ ~Routed(p) /\ ~Recorded(p)
  /\ Kept(p) => ~Routed(p) /\ ~Recorded(p)
  /\ Routed(p) => ~Recorded(p)
  /\ Buffered(p) => /\ Held(p) \/ Sent(p) \/ Lost(p)
                    /\ Sent(p) => ~Lost(p)
                    /\ \A n, m \in Nodes : <<p, n>> \in sent /\ <<p, m>> \in sent => n = m
                    /\ KindOf[p] # "announce"
  /\ Sent(p) \/ Lost(p) => send[p].at # "no"

OwnAnnounce(p) == KindOf[p] = "announce" /\ send[p].at # "no"

PlaceInv ==
  /\ AlnShape
  /\ Distinct(pending) /\ Distinct(pump.keep) /\ DistinctFirsts(pump.out)
  /\ \A p \in Packets : InOnePlace(p)
  /\ cached # Nobody => OwnAnnounce(cached)
  /\ pump.at = "greet" => OwnAnnounce(pump.pkt)

LEMMA Nothing == /\ SeqSet(<<>>) = {} /\ Firsts(<<>>) = {}
                 /\ Distinct(<<>>) /\ DistinctFirsts(<<>>)
BY DEF SeqSet, Firsts, Distinct, DistinctFirsts

LEMMA PlaceInitial == AlnInit => PlaceInv
<1> SUFFICES ASSUME AlnInit PROVE PlaceInv
  OBVIOUS
<1>1. /\ pending = <<>> /\ pump.at = "idle" /\ pump.keep = <<>> /\ pump.out = <<>>
      /\ cached = Nobody /\ sent = {} /\ lost = {} /\ \A p \in Packets : send[p].at = "no"
  BY DEF AlnInit, PumpIdle
<1>2. \A p \in Packets : InOnePlace(p)
  BY <1>1, Nothing
     DEF InOnePlace, Held, Queued, Kept, Routed, Recorded, Sent, Lost, Buffered
<1> QED
  BY <1>1, <1>2, Nothing, AlnInitial DEF PlaceInv

(* Adding to a queue, taking from it, and joining two.                      *)
LEMMA DistinctQueues ==
  ASSUME NEW S, NEW s \in Seq(S), Distinct(s)
  PROVE  /\ \A e \in S : e \notin SeqSet(s) => Distinct(Append(s, e))
         /\ s # <<>> => Distinct(Tail(s)) /\ Head(s) \notin SeqSet(Tail(s))
         /\ \A t \in Seq(S) : Distinct(t) /\ SeqSet(s) \cap SeqSet(t) = {} => Distinct(s \o t)
<1>1. DOMAIN s = 1..Len(s) /\ Len(s) \in Nat
  BY LenProperties
<1>2. ASSUME NEW e \in S, e \notin SeqSet(s) PROVE Distinct(Append(s, e))
  <2> DEFINE a == Append(s, e)
  <2>1. a \in Seq(S) /\ Len(a) = Len(s) + 1 /\ (\A i \in 1..Len(s) : a[i] = s[i])
        /\ a[Len(s) + 1] = e
    BY AppendProperties
  <2>2. DOMAIN a = 1..Len(s) + 1
    BY <2>1, LenProperties
  <2> HIDE DEF a
  <2>3. \A i \in DOMAIN a : i \in DOMAIN s \/ i = Len(s) + 1
    BY <1>1, <2>2
  <2>4. \A i \in DOMAIN s : a[i] = s[i] /\ a[i] # e
    BY <1>1, <1>2, <2>1 DEF SeqSet
  <2>5. Distinct(a)
    BY <2>1, <2>3, <2>4 DEF Distinct
  <2> QED
    BY <2>5 DEF a
<1>3. ASSUME s # <<>> PROVE Distinct(Tail(s)) /\ Head(s) \notin SeqSet(Tail(s))
  <2> DEFINE t == Tail(s)
  <2>1. Len(s) # 0 /\ Head(s) = s[1]
    BY <1>3, EmptySeq
  <2>2. t \in Seq(S) /\ Len(t) = Len(s) - 1 /\ \A i \in 1..Len(t) : t[i] = s[i + 1]
    BY <1>3, HeadTailProperties
  <2>3. DOMAIN t = 1..Len(s) - 1
    BY <2>2, LenProperties
  <2> HIDE DEF t
  <2>4. \A i \in DOMAIN t : i \in Nat /\ i + 1 \in DOMAIN s /\ i + 1 # 1 /\ t[i] = s[i + 1]
    BY <1>1, <2>2, <2>3
  <2>5. 1 \in DOMAIN s
    BY <1>1, <2>1
  <2>6. Head(s) \notin SeqSet(t)
    BY <2>1, <2>4, <2>5 DEF SeqSet, Distinct
  <2>7. ASSUME NEW i \in DOMAIN t, NEW j \in DOMAIN t, t[i] = t[j] PROVE i = j
    <3>1. i + 1 = j + 1
      BY <2>4, <2>7 DEF Distinct
    <3> QED
      BY <2>4, <3>1
  <2> QED
    BY <2>6, <2>7 DEF t, Distinct
<1>4. ASSUME NEW t \in Seq(S), Distinct(t), SeqSet(s) \cap SeqSet(t) = {} PROVE Distinct(s \o t)
  <2> DEFINE c == s \o t
  <2>1. Len(t) \in Nat /\ DOMAIN t = 1..Len(t)
    BY LenProperties
  <2>2. c \in Seq(S) /\ Len(c) = Len(s) + Len(t)
        /\ \A i \in 1..Len(s) + Len(t) : c[i] = IF i <= Len(s) THEN s[i] ELSE t[i - Len(s)]
    BY ConcatProperties
  <2>3. DOMAIN c = 1..Len(s) + Len(t)
    BY <2>2, LenProperties
  <2> HIDE DEF c
  <2>4. \A i \in DOMAIN c : /\ i \in Nat
                            /\ \/ i \in DOMAIN s /\ c[i] = s[i]
                               \/ i - Len(s) \in DOMAIN t /\ c[i] = t[i - Len(s)]
    BY <1>1, <2>1, <2>2, <2>3
  <2>5. \A i \in DOMAIN s, j \in DOMAIN t : s[i] # t[j]
    BY <1>4 DEF SeqSet
  <2>6. ASSUME NEW i \in DOMAIN c, NEW j \in DOMAIN c, c[i] = c[j] PROVE i = j
    <3>1. CASE i \in DOMAIN s /\ c[i] = s[i] /\ j \in DOMAIN s /\ c[j] = s[j]
      BY <2>6, <3>1 DEF Distinct
    <3>2. CASE /\ i - Len(s) \in DOMAIN t /\ c[i] = t[i - Len(s)]
               /\ j - Len(s) \in DOMAIN t /\ c[j] = t[j - Len(s)]
      <4>1. i - Len(s) = j - Len(s)
        BY <1>4, <2>6, <3>2 DEF Distinct
      <4> QED
        BY <1>1, <2>4, <4>1
    <3> QED
      BY <2>4, <2>5, <2>6, <3>1, <3>2
  <2>7. Distinct(c)
    BY <2>6 DEF Distinct
  <2> QED
    BY <2>7 DEF c
<1> QED
  BY <1>2, <1>3, <1>4

LEMMA FirstsOfQueue ==
  ASSUME NEW S, NEW s \in Seq(S), DistinctFirsts(s)
  PROVE  /\ \A e \in S : /\ Firsts(Append(s, e)) = Firsts(s) \cup {e[1]}
                         /\ e[1] \notin Firsts(s) => DistinctFirsts(Append(s, e))
         /\ s # <<>> => /\ Firsts(s) = {Head(s)[1]} \cup Firsts(Tail(s))
                        /\ Head(s)[1] \notin Firsts(Tail(s)) /\ DistinctFirsts(Tail(s))
<1>1. DOMAIN s = 1..Len(s) /\ Len(s) \in Nat
  BY LenProperties
<1>2. ASSUME NEW e \in S
      PROVE  /\ Firsts(Append(s, e)) = Firsts(s) \cup {e[1]}
             /\ e[1] \notin Firsts(s) => DistinctFirsts(Append(s, e))
  <2> DEFINE a == Append(s, e)
  <2>1. a \in Seq(S) /\ Len(a) = Len(s) + 1 /\ (\A i \in 1..Len(s) : a[i] = s[i])
        /\ a[Len(s) + 1] = e
    BY AppendProperties
  <2>2. DOMAIN a = 1..Len(s) + 1
    BY <2>1, LenProperties
  <2> HIDE DEF a
  <2>3. \A i \in DOMAIN a : i \in DOMAIN s \/ i = Len(s) + 1
    BY <1>1, <2>2
  <2>4. \A i \in DOMAIN s : i \in DOMAIN a /\ a[i] = s[i]
    BY <1>1, <2>1, <2>2
  <2>5. Len(s) + 1 \in DOMAIN a
    BY <1>1, <2>2
  <2>6. Firsts(a) = Firsts(s) \cup {e[1]}
    BY <2>1, <2>3, <2>4, <2>5 DEF Firsts
  <2>7. e[1] \notin Firsts(s) => DistinctFirsts(a)
    BY <2>1, <2>3, <2>4 DEF Firsts, DistinctFirsts
  <2> QED
    BY <2>6, <2>7 DEF a
<1>3. ASSUME s # <<>>
      PROVE  /\ Firsts(s) = {Head(s)[1]} \cup Firsts(Tail(s))
             /\ Head(s)[1] \notin Firsts(Tail(s)) /\ DistinctFirsts(Tail(s))
  <2> DEFINE t == Tail(s)
  <2>1. Len(s) # 0 /\ Head(s) = s[1]
    BY <1>3, EmptySeq
  <2>2. t \in Seq(S) /\ Len(t) = Len(s) - 1 /\ \A i \in 1..Len(t) : t[i] = s[i + 1]
    BY <1>3, HeadTailProperties
  <2>3. DOMAIN t = 1..Len(s) - 1
    BY <2>2, LenProperties
  <2> HIDE DEF t
  <2>4. \A i \in DOMAIN t : i \in Nat /\ i + 1 \in DOMAIN s /\ i + 1 # 1 /\ t[i] = s[i + 1]
    BY <1>1, <2>2, <2>3
  <2>5. 1 \in DOMAIN s
    BY <1>1, <2>1
  <2>6. \A i \in DOMAIN s : i = 1 \/ (i - 1 \in DOMAIN t /\ t[i - 1] = s[i])
    BY <1>1, <2>2, <2>3
  <2>7. Head(s)[1] \notin Firsts(t)
    BY <2>1, <2>4, <2>5 DEF Firsts, DistinctFirsts
  <2>8. ASSUME NEW i \in DOMAIN t, NEW j \in DOMAIN t, t[i][1] = t[j][1] PROVE i = j
    <3>1. i + 1 = j + 1
      BY <2>4, <2>8 DEF DistinctFirsts
    <3> QED
      BY <2>4, <3>1
  <2>9. Firsts(t) \subseteq Firsts(s) /\ Head(s)[1] \in Firsts(s)
    BY <2>1, <2>4, <2>5 DEF Firsts
  <2>10. Firsts(s) \subseteq {Head(s)[1]} \cup Firsts(t)
    BY <2>1, <2>6 DEF Firsts
  <2> QED
    BY <2>7, <2>8, <2>9, <2>10 DEF t, DistinctFirsts
<1> QED
  BY <1>2, <1>3

LEMMA PlaceKept == PlaceInv /\ [AlnNext]_alnVars => PlaceInv'
<1> SUFFICES ASSUME PlaceInv, [AlnNext]_alnVars
             PROVE  /\ Distinct(pending') /\ Distinct(pump'.keep) /\ DistinctFirsts(pump'.out)
                    /\ \A p \in Packets : InOnePlace(p)'
                    /\ cached' # Nobody => OwnAnnounce(cached)'
                    /\ pump'.at = "greet" => OwnAnnounce(pump.pkt)'
  BY AlnStepShaped DEF PlaceInv
<1> DEFINE Goal == /\ Distinct(pending') /\ Distinct(pump'.keep) /\ DistinctFirsts(pump'.out)
                   /\ \A p \in Packets : InOnePlace(p)'
                   /\ cached' # Nobody => OwnAnnounce(cached)'
                   /\ pump'.at = "greet" => OwnAnnounce(pump.pkt)'
<1>1. /\ AlnShape /\ AlnTyped /\ Holds
      /\ pending \in Seq(Addressed) /\ pump \in Pumps /\ pump.keep \in Seq(Addressed)
      /\ pump.out \in Seq(Addressed \X Nodes) /\ send \in [Packets -> SendCalls]
      /\ cached \in Packets \cup {Nobody} /\ Addressed \subseteq Packets
  BY DEF PlaceInv, AlnShape, AlnTyped, Pumps, Addressed
<1>i. /\ Distinct(pending) /\ Distinct(pump.keep) /\ DistinctFirsts(pump.out)
      /\ \A p \in Packets : InOnePlace(p)
      /\ cached # Nobody => OwnAnnounce(cached)
      /\ pump.at = "greet" => OwnAnnounce(pump.pkt) /\ pump.pkt \in Packets
  BY <1>1 DEF PlaceInv, Holds
<1>2. ASSUME NEW p \in Packets, RouteOutbound(p) PROVE Goal
  <2>1. /\ UNCHANGED <<pump, sent>> /\ send[p].at = "no" /\ send'[p].at # "no"
        /\ \A q \in Packets : q # p => send'[q] = send[q]
        /\ (UNCHANGED cached \/ (cached' = p /\ KindOf[p] = "announce"))
        /\ \/ send'[p].at # "buffered" /\ UNCHANGED <<pending, lost>>
           \/ /\ p \in Addressed /\ send'[p].at = "buffered"
              /\ \/ pending' = Append(pending, p) /\ UNCHANGED lost
                 \/ /\ pending # <<>> /\ pending' = Append(Tail(pending), p)
                    /\ lost' = lost \cup {Head(pending)}
    BY <1>1, <1>2, RoutesTyped
  <2>2. ~Held(p) /\ ~Sent(p) /\ ~Lost(p)
    BY <1>i, <2>1 DEF InOnePlace, Buffered
  <2>3. /\ cached' # Nobody => OwnAnnounce(cached)'
        /\ pump'.at = "greet" => OwnAnnounce(pump.pkt)'
    BY <1>1, <1>i, <2>1 DEF OwnAnnounce
  <2>4. CASE send'[p].at # "buffered" /\ UNCHANGED <<pending, lost>>
    <3>1. \A q \in Packets : InOnePlace(q)'
      BY <1>i, <2>1, <2>2, <2>4
         DEF InOnePlace, Held, Queued, Kept, Routed, Recorded, Sent, Lost, Buffered
    <3> QED
      BY <1>i, <2>1, <2>3, <2>4, <3>1
  <2>5. CASE /\ p \in Addressed /\ send'[p].at = "buffered"
             /\ pending' = Append(pending, p) /\ UNCHANGED lost
    <3>1. SeqSet(pending') = SeqSet(pending) \cup {p}
      BY <1>1, <2>5, SeqSets
    <3>2. Distinct(pending')
      BY <1>1, <1>i, <2>2, <2>5, DistinctQueues DEF Held, Queued
    <3>3. \A q \in Packets : InOnePlace(q)'
      BY <1>i, <2>1, <2>2, <2>5, <3>1
         DEF InOnePlace, Held, Queued, Kept, Routed, Recorded, Sent, Lost, Buffered, Addressed
    <3> QED
      BY <1>i, <2>1, <2>3, <3>2, <3>3
  <2>6. CASE /\ p \in Addressed /\ send'[p].at = "buffered"
             /\ pending # <<>> /\ pending' = Append(Tail(pending), p)
             /\ lost' = lost \cup {Head(pending)}
    <3> DEFINE rest == Tail(pending)
               first == Head(pending)
    <3>1. /\ rest \in Seq(Addressed) /\ first \in Addressed
          /\ Distinct(rest) /\ first \notin SeqSet(rest)
          /\ SeqSet(pending) = {first} \cup SeqSet(rest)
      BY <1>1, <1>i, <2>6, SeqSets, DistinctQueues, HeadTailProperties
    <3>2. pending' = Append(rest, p) /\ lost' = lost \cup {first} /\ p \in Addressed
      BY <2>6
    <3> HIDE DEF rest, first
    <3>3. SeqSet(pending') = SeqSet(rest) \cup {p}
      BY <3>1, <3>2, SeqSets
    <3>4. p # first /\ p \notin SeqSet(rest)
      BY <2>2, <3>1 DEF Held, Queued
    <3>5. Distinct(pending')
      BY <3>1, <3>2, <3>4, DistinctQueues
    <3>6. \A q \in Packets : InOnePlace(q)'
      BY <1>i, <2>1, <2>2, <2>6, <3>1, <3>2, <3>3, <3>4, ZenonT(40)
         DEF InOnePlace, Held, Queued, Kept, Routed, Recorded, Sent, Lost, Buffered, Addressed
    <3> QED
      BY <1>i, <2>1, <2>3, <3>5, <3>6
  <2> QED
    BY <2>1, <2>4, <2>5, <2>6
<1>3. ASSUME NEW p \in Packets, RecordLinkRequest(p) PROVE Goal
  <2>1. /\ UNCHANGED <<pending, cached, pump, sent, lost>> /\ send[p].at = "recording"
        /\ Sending(p, "writing", send[p].targets) /\ send[p].targets \in SUBSET Nodes
    BY <1>1, <1>3 DEF RecordLinkRequest, queueVars, outVars, SendCalls
  <2>2. send'[p].at = "writing" /\ \A q \in Packets : q # p => send'[q] = send[q]
    BY <1>1, <2>1, SendingTyped
  <2>3. \A q \in Packets : InOnePlace(q)'
    BY <1>i, <2>1, <2>2
       DEF InOnePlace, Held, Queued, Kept, Routed, Recorded, Sent, Lost, Buffered
  <2> QED
    BY <1>1, <1>i, <2>1, <2>2, <2>3 DEF OwnAnnounce
<1>4. ASSUME NEW p \in Packets, WriteTo(p) PROVE Goal
  <2>1. UNCHANGED <<pending, cached, pump>> /\ send[p].at = "writing"
        /\ send[p].targets \in SUBSET Nodes
    BY <1>1, <1>4 DEF WriteTo, queueVars, SendCalls
  <2>2. PICK at \in {"done", "writing"}, left \in SUBSET Nodes : Sending(p, at, left)
    BY <1>4, <2>1 DEF WriteTo
  <2>3. send'[p].at \in {"done", "writing"} /\ \A q \in Packets : q # p => send'[q] = send[q]
    BY <1>1, <2>2, SendingTyped
  <2>4. /\ \A q \in Packets, n \in Nodes : q # p => (<<q, n>> \in sent' <=> <<q, n>> \in sent)
        /\ \A q \in Packets : q # p => (q \in lost' <=> q \in lost)
    BY <1>4 DEF WriteTo
  <2>5. \A q \in Packets : InOnePlace(q)'
    BY <1>i, <2>1, <2>3, <2>4, ZenonT(40)
       DEF InOnePlace, Held, Queued, Kept, Routed, Recorded, Sent, Lost, Buffered
  <2> QED
    BY <1>1, <1>i, <2>1, <2>3, <2>5 DEF OwnAnnounce
<1>5. CASE TakeItem
  <2>1. /\ pump.at = "idle" /\ pump'.keep = <<>> /\ pump'.out = <<>> /\ pump'.at # "record"
        /\ UNCHANGED <<pending, cached, send, sent, lost>>
        /\ pump'.at = "greet" => cached # Nobody /\ pump'.pkt = cached
    BY <1>1, <1>5, TakesTyped
  <2>2. pump.keep = <<>> /\ pump.out = <<>>
    BY <1>1, <2>1 DEF Holds
  <2>3. \A q \in Packets : InOnePlace(q)'
    BY <1>i, <2>1, <2>2
       DEF InOnePlace, Held, Queued, Kept, Routed, Recorded, Sent, Lost, Buffered
  <2> QED
    BY <1>i, <2>1, <2>3, Nothing DEF OwnAnnounce
<1>6. CASE ItemHashed
  <2>1. /\ pump.at = "hash" /\ pump'.keep = <<>> /\ pump'.out = <<>> /\ pump'.at \in {"idle", "drain"}
        /\ UNCHANGED <<pending, cached, send, sent, lost>>
    BY <1>6, PumpsAreSuch DEF ItemHashed, queueVars, outVars
  <2>2. pump.keep = <<>> /\ pump.out = <<>>
    BY <1>1, <2>1 DEF Holds
  <2>3. \A q \in Packets : InOnePlace(q)'
    BY <1>i, <2>1, <2>2
       DEF InOnePlace, Held, Queued, Kept, Routed, Recorded, Sent, Lost, Buffered
  <2> QED
    BY <1>i, <2>1, <2>3, Nothing DEF OwnAnnounce
<1>7. CASE Greeted
  <2>1. /\ pump.at = "greet" /\ pump'.keep = <<>> /\ pump'.out = <<>> /\ pump'.at \in {"idle", "drain"}
        /\ UNCHANGED <<pending, cached, send>> /\ Written(pump.pkt, pump.node)
    BY <1>7, PumpsAreSuch DEF Greeted, queueVars
  <2>2. /\ pump.keep = <<>> /\ pump.out = <<>>
        /\ KindOf[pump.pkt] = "announce" /\ send[pump.pkt].at # "no"
    BY <1>1, <1>i, <2>1 DEF Holds, OwnAnnounce
  <2>3. /\ \A q \in Packets, n \in Nodes :
             q # pump.pkt => (<<q, n>> \in sent' <=> <<q, n>> \in sent)
        /\ \A q \in Packets : q # pump.pkt => (q \in lost' <=> q \in lost)
    BY <2>1 DEF Written
  <2>4. ~Buffered(pump.pkt)
    BY <1>i, <2>1, <2>2 DEF InOnePlace
  <2>5. \A q \in Packets : InOnePlace(q)'
    BY <1>i, <2>1, <2>2, <2>3, <2>4
       DEF InOnePlace, Held, Queued, Kept, Routed, Recorded, Sent, Lost, Buffered
  <2> QED
    BY <1>i, <2>1, <2>5, Nothing DEF OwnAnnounce
<1>8. CASE DrainRoutable
  <2>1. UNCHANGED <<cached, send, sent, lost>> /\ pump.at = "drain"
    BY <1>1, <1>8, DrainTyped
  <2>2. CASE /\ pending' = pump.keep \o pending /\ pump'.out = pump.out /\ pump'.keep = <<>>
             /\ pump'.at \in {"idle", "flush"}
    <3>1. SeqSet(pump.keep) \cap SeqSet(pending) = {}
      <4>1. SeqSet(pending) \subseteq Packets
        BY <1>1, SeqSets
      <4> QED
        BY <1>i, <4>1 DEF InOnePlace, Queued, Kept
    <3>2. SeqSet(pending') = SeqSet(pump.keep) \cup SeqSet(pending)
      BY <1>1, <2>2, SeqSets
    <3>3. Distinct(pending')
      BY <1>1, <1>i, <2>2, <3>1, DistinctQueues
    <3>4. \A q \in Packets : InOnePlace(q)'
      BY <1>i, <2>1, <2>2, <3>2, Nothing
         DEF InOnePlace, Held, Queued, Kept, Routed, Recorded, Sent, Lost, Buffered
    <3> QED
      BY <1>i, <2>1, <2>2, <3>3, <3>4, Nothing DEF OwnAnnounce
  <2>3. ASSUME NEW k \in DOMAIN pending,
               pending' = SubSeq(pending, k + 1, Len(pending)),
               pump'.at = "record", pump'.pkt = pending[k], pump'.out = pump.out,
               pump'.keep = pump.keep \o SubSeq(pending, 1, k - 1)
        PROVE  Goal
    <3> DEFINE before == SubSeq(pending, 1, k - 1)
               after == SubSeq(pending, k + 1, Len(pending))
               taken == pending[k]
    <3>1. before \in Seq(Addressed) /\ taken \in Addressed
      BY <1>1, SplitAt
    <3>2. /\ SeqSet(pending) = SeqSet(before) \cup {taken} \cup SeqSet(after)
          /\ Distinct(before) /\ Distinct(after)
          /\ taken \notin SeqSet(before) \cup SeqSet(after)
          /\ SeqSet(before) \cap SeqSet(after) = {}
      BY <1>1, <1>i, SplitSets
    <3>3. pending' = after /\ pump'.pkt = taken /\ pump'.keep = pump.keep \o before
      BY <2>3
    <3> HIDE DEF before, after, taken
    <3>4. SeqSet(pump'.keep) = SeqSet(pump.keep) \cup SeqSet(before)
      BY <1>1, <3>1, <3>3, SeqSets
    <3>5. SeqSet(pump.keep) \cap SeqSet(before) = {}
      <4>1. SeqSet(before) \subseteq Packets
        BY <1>1, <3>1, SeqSets
      <4> QED
        BY <1>i, <3>2, <4>1 DEF InOnePlace, Queued, Kept
    <3>6. Distinct(pump'.keep)
      BY <1>1, <1>i, <3>1, <3>2, <3>3, <3>5, DistinctQueues
    <3>7. \A q \in Packets : InOnePlace(q)'
      BY <1>i, <2>1, <2>3, <3>2, <3>3, <3>4
         DEF InOnePlace, Held, Queued, Kept, Routed, Recorded, Sent, Lost, Buffered
    <3> QED
      BY <1>i, <2>1, <2>3, <3>2, <3>3, <3>6, <3>7 DEF OwnAnnounce
  <2> QED
    BY <1>1, <1>8, <2>2, <2>3, DrainTyped
<1>9. CASE DrainRecorded
  <2> DEFINE taken == <<pump.pkt, pump.node>>
             T == Addressed \X Nodes
  <2>1. /\ pump.at = "record" /\ UNCHANGED <<pending, cached, send, sent, lost>>
        /\ pump'.at = "drain" /\ pump'.keep = pump.keep /\ pump'.out = Append(pump.out, taken)
    BY <1>1, <1>9 DEF DrainRecorded, queueVars, outVars, Pumps
  <2>2. taken \in T /\ taken[1] = pump.pkt /\ pump.pkt \in Packets /\ pump.out \in Seq(T)
    BY <1>1, <2>1 DEF Holds
  <2> HIDE DEF taken, T
  <2>3. pump.pkt \notin Firsts(pump.out)
    BY <1>i, <2>1, <2>2 DEF InOnePlace, Routed, Recorded
  <2>4. Firsts(pump'.out) = Firsts(pump.out) \cup {pump.pkt} /\ DistinctFirsts(pump'.out)
    BY <1>i, <2>1, <2>2, <2>3, FirstsOfQueue
  <2>5. \A q \in Packets : InOnePlace(q)'
    BY <1>i, <2>1, <2>2, <2>4
       DEF InOnePlace, Held, Queued, Kept, Routed, Recorded, Sent, Lost, Buffered
  <2> QED
    BY <1>i, <2>1, <2>4, <2>5 DEF OwnAnnounce
<1>10. CASE Flush
  <2> DEFINE T == Addressed \X Nodes
             done == Head(pump.out)
  <2>1. pump.at = "flush" /\ pump.out \in Seq(T) /\ pump.out # <<>> /\ pump.keep = <<>>
    BY <1>1, <1>10 DEF Flush, Holds
  <2>2. /\ UNCHANGED <<pending, cached, send>> /\ Written(done[1], done[2])
        /\ pump' = FlushOrIdle(Tail(pump.out))
    BY <1>10 DEF Flush, queueVars
  <2> HIDE DEF T
  <2>3. /\ done \in T /\ Tail(pump.out) \in Seq(T)
        /\ Firsts(pump.out) = {done[1]} \cup Firsts(Tail(pump.out))
        /\ done[1] \notin Firsts(Tail(pump.out)) /\ DistinctFirsts(Tail(pump.out))
    BY <1>i, <2>1, FirstsOfQueue, HeadTailProperties
  <2>4. /\ pump'.keep = <<>> /\ pump'.out = Tail(pump.out) /\ pump'.at \in {"idle", "flush"}
    BY <2>2, <2>3, FlushTyped DEF T
  <2>5. done[1] \in Packets /\ done[2] \in Nodes
    BY <1>1, <2>3 DEF T
  <2> HIDE DEF done
  <2>6. CASE sent' = sent \cup {<<done[1], done[2]>>} /\ UNCHANGED lost
    <3>1. \A q \in Packets : InOnePlace(q)'
      BY <1>i, <2>1, <2>2, <2>3, <2>4, <2>5, <2>6
         DEF InOnePlace, Held, Queued, Kept, Routed, Recorded, Sent, Lost, Buffered
    <3> QED
      BY <1>i, <2>2, <2>3, <2>4, <3>1, Nothing DEF OwnAnnounce
  <2>7. CASE lost' = lost \cup {done[1]} /\ UNCHANGED sent
    <3>1. \A q \in Packets : InOnePlace(q)'
      BY <1>i, <2>1, <2>2, <2>3, <2>4, <2>5, <2>7
         DEF InOnePlace, Held, Queued, Kept, Routed, Recorded, Sent, Lost, Buffered
    <3> QED
      BY <1>i, <2>2, <2>3, <2>4, <3>1, Nothing DEF OwnAnnounce
  <2> QED
    BY <2>2, <2>6, <2>7 DEF Written
<1>11. CASE UNCHANGED <<pending, cached, pump, send, sent, lost>>
  <2>1. \A q \in Packets : InOnePlace(q)'
    BY <1>i, <1>11
       DEF InOnePlace, Held, Queued, Kept, Routed, Recorded, Sent, Lost, Buffered
  <2> QED
    BY <1>i, <1>11, <2>1 DEF OwnAnnounce
<1>12. CASE Arrive \/ Disconnect \/ UNCHANGED alnVars
  BY <1>11, <1>12 DEF Arrive, Disconnect, alnVars, queueVars, outVars
<1> QED
  BY <1>2, <1>3, <1>4, <1>5, <1>6, <1>7, <1>8, <1>9, <1>10, <1>12 DEF AlnNext

(* A set with at most one element has none or one.                          *)
LEMMA AtMostOne ==
  ASSUME NEW C, \A i, j \in C : i = j
  PROVE  Cardinality(C) = IF C = {} THEN 0 ELSE 1
<1>1. CASE C = {}
  BY <1>1, FS_EmptySet
<1>2. CASE C # {}
  <2>1. PICK i \in C : TRUE
    BY <1>2
  <2>2. C = {i}
    BY <2>1
  <2> QED
    BY <1>2, <2>2, FS_Singleton
<1> QED
  BY <1>1, <1>2

(* A packet that was buffered is in exactly one place for the rest of the   *)
(* session, for any queue and any bound on it, whatever is buffered,        *)
(* evicted or drained meanwhile (routeOutbound, drainRoutable).             *)
THEOREM BufferedIsKept == AlnSpec => []BufferedInOnePlace
<1>1. PlaceInv => BufferedInOnePlace
  <2> SUFFICES ASSUME PlaceInv, NEW p \in Packets, send[p].at = "buffered"
               PROVE  Times(p, pending) + Times(p, pump.keep) + FlushTimes(p)
                        + (IF pump.at = "record" /\ pump.pkt = p THEN 1 ELSE 0)
                        + Cardinality({n \in Nodes : <<p, n>> \in sent})
                        + (IF p \in lost THEN 1 ELSE 0) = 1
    BY DEF BufferedInOnePlace
  <2>1. InOnePlace(p) /\ Buffered(p)
        /\ Distinct(pending) /\ Distinct(pump.keep) /\ DistinctFirsts(pump.out)
    BY DEF PlaceInv, Buffered
  <2>2. Times(p, pending) = IF Queued(p) THEN 1 ELSE 0
    BY <2>1, AtMostOne DEF Times, Distinct, Queued, SeqSet
  <2>3. Times(p, pump.keep) = IF Kept(p) THEN 1 ELSE 0
    BY <2>1, AtMostOne DEF Times, Distinct, Kept, SeqSet
  <2>4. FlushTimes(p) = IF Routed(p) THEN 1 ELSE 0
    BY <2>1, AtMostOne DEF FlushTimes, DistinctFirsts, Routed, Firsts
  <2>5. Cardinality({n \in Nodes : <<p, n>> \in sent}) = IF Sent(p) THEN 1 ELSE 0
    BY <2>1, AtMostOne DEF InOnePlace, Sent
  <2>6. /\ (pump.at = "record" /\ pump.pkt = p) <=> Recorded(p)
        /\ p \in lost <=> Lost(p)
    BY DEF Recorded, Lost
  <2> QED
    BY <2>1, <2>2, <2>3, <2>4, <2>5, <2>6 DEF InOnePlace, Held
<1> QED
  BY <1>1, PlaceInitial, PlaceKept, PTL DEF AlnSpec

(***************************************************************************)
(* The reverse routes. What the consumer hashes is a LINKREQUEST or a DATA  *)
(* packet, so that the table holds hashes and nodes only; and whatever is   *)
(* removed from it, by Without, it is cut to its bound.                     *)
(***************************************************************************)

LEMMA WithoutTyped ==
  ASSUME NEW S, NEW q \in Seq(S), NEW gone
  PROVE  Without(q, gone) \in Seq(S) /\ Len(Without(q, gone)) <= Len(q)
<1> DEFINE n == Len(q)
           T == Seq(S)
           h == [x \in (1..n) \X T |-> IF q[x[1]] \in gone THEN x[2] ELSE Append(x[2], q[x[1]])]
           Left(f) == f = [k \in 0..n |-> IF k = 0 THEN <<>>
                                          ELSE IF q[k] \in gone THEN f[k - 1]
                                          ELSE Append(f[k - 1], q[k])]
           left == CHOOSE f : Left(f)
<1>1. n \in Nat /\ <<>> \in T /\ \A i \in 1..n : q[i] \in S
  BY LenProperties, ElementOfSeq
<1>2. h \in [(1..n) \X T -> T]
  <2>1. \A i \in 1..n, t \in T : Append(t, q[i]) \in T
    BY <1>1
  <2> QED
    BY <2>1
<1>3. PICK f \in [0..n -> T] : Recursive(f, n, <<>>, h)
  BY <1>1, <1>2, RecursionDefines
<1>4. \A i \in 1..n, t \in T : h[<<i, t>>] = IF q[i] \in gone THEN t ELSE Append(t, q[i])
  OBVIOUS
<1> HIDE DEF h, T
<1>5. Left(f)
  BY <1>3, <1>4, SMTT(20) DEF Recursive
<1>6. Left(left)
  BY <1>5
<1>7. Without(q, gone) = left[n]
  BY DEF Without
<1> HIDE DEF left
<1>8. /\ left[0] = <<>>
      /\ \A i \in 1..n : left[i] = IF q[i] \in gone THEN left[i - 1] ELSE Append(left[i - 1], q[i])
  <2> HIDE DEF n
  <2>1. 0 \in 0..n /\ \A i \in 1..n : i \in 0..n /\ i # 0
    BY <1>1
  <2> QED
    BY <1>6, <2>1
<1> DEFINE P == {k \in 0..n : left[k] \in Seq(S) /\ Len(left[k]) <= k}
<1>9. \A i \in 0..n : i \in P
  <2>1. 0 \in P
    <3>1. <<>> \in Seq(S) /\ Len(<<>>) = 0
      OBVIOUS
    <3>2. left[0] \in Seq(S) /\ Len(left[0]) <= 0
      BY <1>8, <3>1
    <3>3. 0 \in 0..n
      BY <1>1
    <3> QED
      BY <3>2, <3>3
  <2>2. ASSUME NEW i \in 1..n, i - 1 \in P PROVE i \in P
    <3>1. i - 1 \in 0..n /\ left[i - 1] \in Seq(S) /\ Len(left[i - 1]) <= i - 1
      BY <2>2
    <3>2. /\ Append(left[i - 1], q[i]) \in Seq(S)
          /\ Len(Append(left[i - 1], q[i])) = Len(left[i - 1]) + 1
          /\ Len(left[i - 1]) \in Nat
      BY <1>1, <3>1, AppendProperties, LenProperties
    <3> HIDE DEF n
    <3>3. left[i] \in Seq(S) /\ Len(left[i]) <= i
      <4>1. CASE q[i] \in gone
        <5>1. left[i] = left[i - 1]
          BY <1>8, <4>1
        <5> QED
          BY <1>1, <3>1, <3>2, <5>1
      <4>2. CASE q[i] \notin gone
        <5>1. left[i] = Append(left[i - 1], q[i])
          BY <1>8, <4>2
        <5> QED
          BY <1>1, <3>1, <3>2, <5>1
      <4> QED
        BY <4>1, <4>2
    <3>4. i \in 0..n
      BY <1>1
    <3> QED
      BY <3>3, <3>4
  <2> HIDE DEF P
  <2> QED
    BY <1>1, <2>1, <2>2, Induction
<1> QED
  BY <1>1, <1>7, <1>9

(* What the table holds.                                                    *)
Routes == [hash : Hashes, node : Nodes]

BackTyped == back \in Seq(Routes) /\ Len(back) <= MaxReverse

HashesOnly == pump.at = "hash" => pump.item.type \in {"linkreq", "data"}

BackInv == AlnShape /\ BackTyped /\ HashesOnly

(* The newest entries of a table are entries of it, and no more than asked. *)
LEMMA NewestTyped ==
  ASSUME NEW b \in Seq(Routes)
  PROVE  NewestPeers(b) \in Seq(Routes) /\ Len(NewestPeers(b)) <= MaxReverse
<1>1. Len(b) \in Nat /\ (\A i \in 1..Len(b) : b[i] \in Routes) /\ MaxReverse \in Nat /\ MaxReverse > 0
  BY LenProperties, ElementOfSeq, AlnAssumption
<1>2. CASE Len(b) > MaxReverse
  <2> DEFINE m == Len(b) - MaxReverse + 1
             n == Len(b)
  <2>1. m \in Int /\ n \in Int /\ m <= n /\ n - m + 1 = MaxReverse /\ m \in 1..n
    BY <1>1, <1>2
  <2>2. \A i \in m..n : b[i] \in Routes
    BY <1>1, <2>1
  <2>3. NewestPeers(b) = SubSeq(b, m, n)
    BY <1>2 DEF NewestPeers
  <2> HIDE DEF m, n
  <2>4. /\ SubSeq(b, m, n) \in Seq(Routes)
        /\ Len(SubSeq(b, m, n)) = IF m <= n THEN n - m + 1 ELSE 0
    BY <2>1, <2>2, SubSeqProperties
  <2> QED
    BY <1>1, <2>1, <2>3, <2>4
<1>3. CASE ~(Len(b) > MaxReverse)
  BY <1>1, <1>3 DEF NewestPeers
<1> QED
  BY <1>2, <1>3

(* The oldest go.                                                           *)
LEMMA PruneKeeps ==
  ASSUME BackTyped, Prune PROVE BackTyped'
<1>1. PICK n \in 0..Len(back) : back' = SubSeq(back, n + 1, Len(back))
  BY DEF Prune
<1> DEFINE l == Len(back)
           m == n + 1
<1>2. back \in Seq(Routes) /\ l <= MaxReverse /\ l \in Nat /\ MaxReverse \in Nat
      /\ \A i \in 1..l : back[i] \in Routes
  BY LenProperties, ElementOfSeq, AlnAssumption DEF BackTyped
<1>3. m \in Int /\ l \in Int /\ m >= 1 /\ \A i \in m..l : back[i] \in Routes
  BY <1>2
<1> HIDE DEF m, l
<1>4. SubSeq(back, m, l) \in Seq(Routes) /\ Len(SubSeq(back, m, l)) = IF m <= l THEN l - m + 1 ELSE 0
  BY <1>3, SubSeqProperties
<1>5. back' = SubSeq(back, m, l)
  BY <1>1 DEF m, l
<1>6. Len(back') <= MaxReverse
  BY <1>2, <1>3, <1>4, <1>5
<1> QED
  BY <1>4, <1>5, <1>6 DEF BackTyped

LEMMA WithoutKeeps ==
  ASSUME BackTyped, NEW gone, back' = Without(back, gone) PROVE BackTyped'
<1> DEFINE b == Without(back, gone)
<1>1. b \in Seq(Routes) /\ Len(b) <= Len(back)
  BY WithoutTyped DEF BackTyped
<1>2. Len(b) \in Nat /\ Len(back) \in Nat /\ Len(back) <= MaxReverse /\ MaxReverse \in Nat
  BY <1>1, LenProperties, AlnAssumption DEF BackTyped
<1> HIDE DEF b
<1>3. Len(b) <= MaxReverse
  BY <1>1, <1>2
<1> QED
  BY <1>1, <1>3 DEF BackTyped, b

LEMMA TakeKeepsBack ==
  ASSUME AlnShape, BackTyped, TakeItem PROVE BackTyped' /\ HashesOnly'
<1> DEFINE i == Head(inbox)
<1>1. \/ /\ i.type \in {"linkreq", "data"} /\ UNCHANGED <<tableVars, toldTo>>
         /\ pump' = IF i.node = attached THEN PumpIdle
                    ELSE [PumpIdle EXCEPT !.at = "hash", !.item = i]
      \/ Drop
      \/ LearnAttached(i.node)
      \/ Upsert(i.key, i.node)
  BY DEF TakeItem
<1> HIDE DEF i
<1>2. PumpIdle.at = "idle"
  BY DEF PumpIdle
<1>3. CASE /\ i.type \in {"linkreq", "data"} /\ UNCHANGED <<tableVars, toldTo>>
           /\ pump' = IF i.node = attached THEN PumpIdle
                      ELSE [PumpIdle EXCEPT !.at = "hash", !.item = i]
  <2>1. pump'.at = "hash" => pump'.item = i
    BY <1>2, <1>3 DEF PumpIdle
  <2> QED
    BY <1>3, <2>1 DEF BackTyped, HashesOnly, tableVars
<1>4. CASE Drop
  BY <1>2, <1>4 DEF Drop, BackTyped, HashesOnly, tableVars
<1>5. CASE LearnAttached(i.node)
  <2>1. HashesOnly'
    BY <1>2, <1>5 DEF LearnAttached, HashesOnly
  <2>2. back' = back \/ \E gone : back' = Without(back, gone)
    BY <1>5 DEF LearnAttached
  <2>3. CASE back' = back
    BY <2>1, <2>3 DEF BackTyped
  <2> QED
    BY <2>1, <2>2, <2>3, WithoutKeeps
<1>6. CASE Upsert(i.key, i.node)
  <2>1. CASE i.node = attached
    BY <1>4, <1>6, <2>1 DEF Upsert
  <2>2. CASE i.node # attached
    <3>1. back' = back /\ HandleEvent(Unmet(i.node), i.node, Changed(i.key, i.node))
      BY <1>6, <2>2 DEF Upsert
    <3>2. pump'.at # "hash"
      BY <1>2, <3>1 DEF HandleEvent, PumpIdle
    <3> QED
      BY <3>1, <3>2 DEF BackTyped, HashesOnly
  <2> QED
    BY <2>1, <2>2
<1> QED
  BY <1>1, <1>3, <1>4, <1>5, <1>6

LEMMA HashKeepsBack ==
  ASSUME BackInv, ItemHashed PROVE BackTyped' /\ HashesOnly'
<1> DEFINE i == pump.item
           b == Without(back, [hash : {i.key}, node : Nodes])
           e == [hash |-> i.key, node |-> i.node]
<1>1. i \in Frames /\ i.type \in {"linkreq", "data"}
  BY DEF ItemHashed, BackInv, HashesOnly, AlnShape, Holds
<1>2. HashesOnly'
  BY DEF ItemHashed, HashesOnly, PumpIdle
<1>3. CASE i.type = "linkreq"
  <2>1. back' = back
    BY <1>3 DEF ItemHashed
  <2> QED
    BY <1>2, <2>1 DEF BackInv, BackTyped
<1>4. CASE i.type = "data"
  <2>1. back' = NewestPeers(Append(b, e))
    BY <1>4 DEF ItemHashed
  <2>2. e \in Routes
    BY <1>1, <1>4 DEF Frames, Item, Routes
  <2>3. b \in Seq(Routes)
    BY WithoutTyped DEF BackInv, BackTyped
  <2> HIDE DEF b, e
  <2>4. Append(b, e) \in Seq(Routes)
    BY <2>2, <2>3, AppendProperties
  <2> QED
    BY <1>2, <2>1, <2>4, NewestTyped DEF BackTyped
<1> QED
  BY <1>1, <1>3, <1>4

LEMMA BackKept == BackInv /\ [AlnNext]_alnVars => BackInv'
<1> SUFFICES ASSUME BackInv, [AlnNext]_alnVars PROVE BackTyped' /\ HashesOnly'
  BY AlnStepShaped DEF BackInv
<1>1. AlnShape /\ BackTyped /\ HashesOnly
  BY DEF BackInv
<1>2. ASSUME NEW p \in Packets, RouteOutbound(p) PROVE BackTyped' /\ HashesOnly'
  BY <1>1, <1>2, PruneKeeps DEF RouteOutbound, HashesOnly
<1>3. ASSUME NEW p \in Packets, RecordLinkRequest(p) \/ WriteTo(p) PROVE BackTyped' /\ HashesOnly'
  BY <1>1, <1>3 DEF RecordLinkRequest, WriteTo, tableVars, BackTyped, HashesOnly
<1>4. CASE Arrive \/ Disconnect \/ UNCHANGED alnVars
  BY <1>1, <1>4 DEF Arrive, Disconnect, alnVars, tableVars, BackTyped, HashesOnly
<1>5. CASE TakeItem
  BY <1>1, <1>5, TakeKeepsBack
<1>6. CASE ItemHashed
  BY <1>6, HashKeepsBack
<1>7. CASE Greeted
  BY <1>1, <1>7 DEF Greeted, PumpIdle, tableVars, BackTyped, HashesOnly
<1>8. CASE DrainRoutable
  <2>1. pump'.at # "hash"
    BY <1>1, <1>8, DrainTyped
  <2> QED
    BY <1>1, <1>8, <2>1 DEF DrainRoutable, tableVars, BackTyped, HashesOnly
<1>9. CASE DrainRecorded
  BY <1>1, <1>9 DEF DrainRecorded, BackTyped, HashesOnly, AlnShape, AlnTyped, Pumps
<1>10. CASE Flush
  BY <1>1, <1>10 DEF Flush, FlushOrIdle, PumpIdle, tableVars, BackTyped, HashesOnly
<1> QED
  BY <1>2, <1>3, <1>4, <1>5, <1>6, <1>7, <1>8, <1>9, <1>10 DEF AlnNext

LEMMA BackInitial == AlnInit => BackInv
<1> SUFFICES ASSUME AlnInit PROVE BackInv
  OBVIOUS
<1>1. back = <<>> /\ pump.at = "idle" /\ MaxReverse \in Nat
  BY AlnAssumption DEF AlnInit, PumpIdle
<1> QED
  BY <1>1, AlnInitial DEF BackInv, BackTyped, HashesOnly

LEMMA BackInvTyped == BackInv => AlnTypeOK
<1> SUFFICES ASSUME BackInv PROVE AlnTypeOK
  OBVIOUS
<1>1. AlnTyped /\ Holds /\ BackTyped
  BY DEF BackInv, AlnShape
<1>2. Seq(Addressed) \subseteq Seq(Packets) /\ Seq(Addressed \X Nodes) \subseteq Seq(Packets \X Nodes)
  <2>1. Addressed \subseteq Packets
    BY DEF Addressed
  <2>2. Addressed \X Nodes \subseteq Packets \X Nodes
    BY <2>1
  <2> QED
    BY <2>1, <2>2, SeqMonotonic
<1>3. pending \in Seq(Packets)
  BY <1>1, <1>2 DEF AlnTyped
<1>4. pump \in [at : {"idle", "hash", "greet", "drain", "record", "flush"},
               item : Lines \cup Frames \cup {Nobody},
               pkt : Packets \cup {Nobody}, node : Nodes \cup {Nobody},
               routes : BOOLEAN, keep : Seq(Packets),
               out : Seq(Packets \X Nodes)]
  BY <1>1, <1>2 DEF AlnTyped, Pumps
<1>5. send \in [Packets ->
        [at : {"no", "deferred", "buffered", "recording", "writing", "done"},
         targets : SUBSET Nodes]]
  BY <1>1 DEF AlnTyped, SendCalls
<1>6. back \in Seq([hash : Hashes, node : Nodes]) /\ Len(back) <= MaxReverse
  BY <1>1 DEF BackTyped, Routes
<1> QED
  BY <1>1, <1>3, <1>4, <1>5, <1>6 DEF AlnTypeOK, AlnTyped, Holds

(* The router's tables, queue, calls and consumer are well typed, for any   *)
(* peers, nodes and packets, and the table of reverse routes stays within   *)
(* its bound (onInbound, _learnAttachedNode, _prune).                       *)
THEOREM AlnCorrect == AlnSpec => []AlnTypeOK
  BY BackInitial, BackKept, BackInvTyped, PTL DEF AlnSpec

(***************************************************************************)
(* Framing. The inductive invariant says where in the stream it is: k       *)
(* packets have passed, or k - 1 and j bytes of the next, and the parser    *)
(* holds the bytes of that packet; one of the packets that have passed may  *)
(* be missing or spoiled once a byte is lost. What is left of the stream is *)
(* FlattenSeq of what is left of its frames, which is recursive: that it is *)
(* the next frame before the rest is by induction (RecursionDefines).       *)
(***************************************************************************)
(* What is left of the sequences after the first k, one behind the other.   *)
Rests(seqs) ==
  LET rest[i \in 0..Len(seqs)] == IF i = 0 THEN <<>> ELSE seqs[Len(seqs) - i + 1] \o rest[i - 1]
  IN rest

AfterFirst(seqs, k) == Rests(seqs)[Len(seqs) - k]

LEMMA Concatenated ==
  ASSUME NEW S, NEW s \in Seq(S), NEW t \in Seq(S) PROVE s \o t \in Seq(S)
BY ConcatProperties

(* Joining is associative.                                                  *)
Regrouped(s, t, u) == (s \o t) \o u = s \o (t \o u)

LEMMA Grouped ==
  ASSUME NEW S, NEW s \in Seq(S), NEW t \in Seq(S), NEW u \in Seq(S) PROVE Regrouped(s, t, u)
BY DEF Regrouped

(* What is left after k is the next one before what is left after that.     *)
LEMMA RestsAre ==
  ASSUME NEW S, NEW seqs \in Seq(Seq(S))
  PROVE  /\ AfterFirst(seqs, Len(seqs)) = <<>>
         /\ \A k \in 0..Len(seqs) : AfterFirst(seqs, k) \in Seq(S)
         /\ \A k \in 1..Len(seqs) : AfterFirst(seqs, k - 1) = seqs[k] \o AfterFirst(seqs, k)
<1> DEFINE n == Len(seqs)
           T == Seq(S)
           h == [x \in (1..n) \X T |-> seqs[n - x[1] + 1] \o x[2]]
           Remains(f) == f = [i \in 0..n |-> IF i = 0 THEN <<>> ELSE seqs[n - i + 1] \o f[i - 1]]
           rest == CHOOSE f : Remains(f)
<1>1. n \in Nat /\ <<>> \in T /\ \A i \in 1..n : n - i + 1 \in 1..n /\ seqs[n - i + 1] \in T
  <2>1. n \in Nat /\ <<>> \in T /\ \A i \in 1..n : seqs[i] \in T
    BY LenProperties, ElementOfSeq
  <2>2. \A i \in 1..n : n - i + 1 \in 1..n
    BY <2>1
  <2> QED
    BY <2>1, <2>2
<1>2. h \in [(1..n) \X T -> T]
  <2>1. \A i \in 1..n, t \in T : seqs[n - i + 1] \o t \in T
    BY <1>1, Concatenated
  <2> QED
    BY <2>1
<1>3. PICK f \in [0..n -> T] : Recursive(f, n, <<>>, h)
  BY <1>1, <1>2, RecursionDefines
<1>4. \A i \in 1..n, t \in T : h[<<i, t>>] = seqs[n - i + 1] \o t
  OBVIOUS
<1> HIDE DEF h, T, n
<1>5. Remains(f)
  <2>1. \A i \in 0..n : i # 0 => i \in 1..n /\ i - 1 \in 0..n
    BY <1>1
  <2>2. \A i \in 1..n : h[<<i, f[i - 1]>>] = seqs[n - i + 1] \o f[i - 1]
    <3>1. \A i \in 1..n : f[i - 1] \in T
      BY <1>3, <2>1
    <3> QED
      BY <1>4, <3>1, Zenon
  <2>3. f = [i \in 0..n |-> IF i = 0 THEN <<>> ELSE h[<<i, f[i - 1]>>]]
    BY <1>3 DEF Recursive
  <2>4. ASSUME NEW i \in 0..n
        PROVE  (IF i = 0 THEN <<>> ELSE h[<<i, f[i - 1]>>])
                 = (IF i = 0 THEN <<>> ELSE seqs[n - i + 1] \o f[i - 1])
    BY <2>1, <2>2
  <2> QED
    BY <2>3, <2>4, Zenon
<1>6. Remains(rest)
  BY <1>5
<1>7. Rests(seqs) = rest
  BY DEF Rests, n
<1> HIDE DEF rest
<1>8. rest[0] = <<>> /\ \A i \in 1..n : rest[i] = seqs[n - i + 1] \o rest[i - 1]
  <2>1. 0 \in 0..n /\ \A i \in 1..n : i \in 0..n /\ i # 0
    BY <1>1
  <2> QED
    BY <1>6, <2>1
<1> DEFINE P == {k \in 0..n : rest[k] \in T}
<1>9. \A i \in 0..n : i \in P
  <2>1. 0 \in P
    BY <1>1, <1>8
  <2>2. ASSUME NEW i \in 1..n, i - 1 \in P PROVE i \in P
    <3>1. i \in 0..n /\ rest[i - 1] \in T /\ seqs[n - i + 1] \in T
      BY <1>1, <2>2
    <3>2. seqs[n - i + 1] \o rest[i - 1] \in T
      BY <3>1, Concatenated DEF T
    <3> QED
      BY <1>8, <3>1, <3>2
  <2> HIDE DEF P
  <2> QED
    BY <1>1, <2>1, <2>2, Induction
<1>10. \A k \in 0..n : n - k \in 0..n /\ rest[n - k] \in T
  <2>1. \A k \in 0..n : n - k \in 0..n
    BY <1>1
  <2> QED
    BY <1>9, <2>1
<1>11. \A k \in 1..n : rest[n - (k - 1)] = seqs[k] \o rest[n - k]
  <2> TAKE k \in 1..n
  <2>1. n - (k - 1) \in 1..n /\ n - (n - (k - 1)) + 1 = k /\ n - (k - 1) - 1 = n - k
    BY <1>1
  <2> QED
    BY <1>8, <2>1
<1>12. n - n = 0
  BY <1>1
<1> QED
  BY <1>7, <1>8, <1>10, <1>11, <1>12 DEF AfterFirst, n, T

(* FlattenSeq joins them from the front.                                    *)
LEMMA FlattenIs ==
  ASSUME NEW S, NEW seqs \in Seq(Seq(S))
  PROVE  FlattenSeq(seqs) = AfterFirst(seqs, 0)
<1> DEFINE n == Len(seqs)
           T == Seq(S)
           h == [x \in (1..n) \X T |-> x[2] \o seqs[x[1]]]
           Flat(f) == f = [i \in 1..n |-> IF i = 1 THEN seqs[i] ELSE f[i - 1] \o seqs[i]]
           flat == CHOOSE f : Flat(f)
           Remains(k) == AfterFirst(seqs, k)
<1>1. n \in Nat /\ <<>> \in T /\ \A i \in 1..n : seqs[i] \in T
  BY LenProperties, ElementOfSeq
<1>2. CASE n = 0
  <2>1. seqs = <<>>
    BY <1>2, EmptySeq
  <2>2. AfterFirst(seqs, 0) = <<>>
    BY <1>2, RestsAre
  <2> QED
    BY <1>2, <2>1, <2>2 DEF FlattenSeq
<1>3. CASE n # 0
  <2>1. h \in [(1..n) \X T -> T]
    <3>1. \A i \in 1..n, t \in T : t \o seqs[i] \in T
      BY <1>1, Concatenated
    <3> QED
      BY <3>1
  <2>2. PICK f \in [0..n -> T] : Recursive(f, n, <<>>, h)
    BY <1>1, <2>1, RecursionDefines
  <2>3. \A i \in 1..n, t \in T : h[<<i, t>>] = t \o seqs[i]
    OBVIOUS
  <2>4. /\ Remains(n) = <<>> /\ \A k \in 0..n : Remains(k) \in T
        /\ \A k \in 1..n : Remains(k - 1) = seqs[k] \o Remains(k)
    BY RestsAre
  <2> HIDE DEF h, T, n, Remains
  <2>5. /\ f[0] = <<>> /\ \A i \in 1..n : f[i] = f[i - 1] \o seqs[i]
    <3>0. 0 \in 0..n /\ \A i \in 1..n : i \in 0..n /\ i # 0
      BY <1>1
    <3>1. f[0] = <<>> /\ \A i \in 1..n : f[i] = h[<<i, f[i - 1]>>]
      BY <2>2, <3>0 DEF Recursive
    <3>2. \A i \in 1..n : i - 1 \in 0..n
      BY <1>1
    <3> QED
      BY <2>2, <2>3, <3>1, <3>2
  <2>6. Flat([i \in 1..n |-> f[i]])
    <3>1. \A s \in T : <<>> \o s = s
      BY ConcatEmptySeq DEF T
    <3>2. \A i \in 1..n : f[i] = IF i = 1 THEN seqs[i] ELSE f[i - 1] \o seqs[i]
      <4> TAKE i \in 1..n
      <4>1. CASE i = 1
        <5>1. f[i] = f[0] \o seqs[i]
          <6>1. f[i] = f[i - 1] \o seqs[i]
            BY <2>5
          <6>2. i - 1 = 0
            BY <4>1
          <6> QED
            BY <6>1, <6>2, Zenon
        <5>2. <<>> \o seqs[i] = seqs[i]
          BY <1>1, <3>1
        <5> QED
          BY <2>5, <4>1, <5>1, <5>2, Zenon
      <4>2. CASE i # 1
        BY <2>5, <4>2
      <4> QED
        BY <4>1, <4>2
    <3>3. \A i \in 1..n : i # 1 => i - 1 \in 1..n
      BY <1>1
    <3> QED
      BY <3>2, <3>3
  <2>7. Flat(flat)
    BY <2>6
  <2>8. FlattenSeq(seqs) = flat[n]
    BY <1>3 DEF FlattenSeq, n
  <2> HIDE DEF flat
  <2>9. /\ flat[1] = seqs[1] /\ \A i \in 2..n : flat[i] = flat[i - 1] \o seqs[i]
    <3>1. \A i \in 1..n : flat[i] = IF i = 1 THEN seqs[i] ELSE flat[i - 1] \o seqs[i]
      BY <2>7
    <3>2. 1 \in 1..n /\ \A i \in 2..n : i \in 1..n /\ i # 1
      BY <1>1, <1>3
    <3> QED
      BY <3>1, <3>2
  <2> DEFINE Fits(k) == flat[k] \in T /\ flat[k] \o Remains(k) = Remains(0)
             P == {k \in 0..n : k = 0 \/ Fits(k)}
  <2> HIDE DEF Fits
  <2>10. \A i \in 0..n : i \in P
    <3>1. 0 \in P
      BY <1>1
    <3>2. ASSUME NEW i \in 1..n, i - 1 \in P PROVE i \in P
      <4>0. i \in 0..n /\ i - 1 \in 0..n /\ seqs[i] \in T /\ Remains(i) \in T
            /\ Remains(i - 1) = seqs[i] \o Remains(i)
        BY <1>1, <2>4
      <4>1. CASE i = 1
        <5>1. flat[i] = seqs[i] /\ Remains(0) = seqs[i] \o Remains(i)
          BY <2>9, <4>0, <4>1
        <5>2. Fits(i)
          BY <4>0, <5>1 DEF Fits
        <5> QED
          BY <4>0, <5>2
      <4>2. CASE i # 1
        <5>1. i \in 2..n /\ i - 1 # 0
          BY <1>1, <4>2
        <5>2. flat[i - 1] \in T /\ flat[i - 1] \o Remains(i - 1) = Remains(0)
          BY <3>2, <5>1 DEF Fits
        <5>3. flat[i] = flat[i - 1] \o seqs[i]
          BY <2>9, <5>1
        <5>4. (flat[i - 1] \o seqs[i]) \o Remains(i) = flat[i - 1] \o (seqs[i] \o Remains(i))
          <6>1. Regrouped(flat[i - 1], seqs[i], Remains(i))
            BY <4>0, <5>2, Grouped DEF T
          <6> QED
            BY <6>1 DEF Regrouped
        <5>5. flat[i] \in T
          BY <4>0, <5>2, <5>3, Concatenated DEF T
        <5>6. Fits(i)
          BY <4>0, <5>2, <5>3, <5>4, <5>5, Zenon DEF Fits
        <5> QED
          BY <4>0, <5>6
      <4> QED
        BY <4>1, <4>2
    <3> HIDE DEF P
    <3> QED
      BY <1>1, <3>1, <3>2, Induction
  <2>11. flat[n] \in T /\ flat[n] \o Remains(n) = Remains(0)
    <3>1. n \in 0..n /\ n # 0
      BY <1>1, <1>3
    <3>2. Fits(n)
      BY <2>10, <3>1
    <3> QED
      BY <3>2 DEF Fits
  <2>12. flat[n] \o <<>> = flat[n]
    BY <2>11, ConcatEmptySeq DEF T
  <2> QED
    BY <2>4, <2>8, <2>11, <2>12, Zenon DEF Remains
<1> QED
  BY <1>2, <1>3

(* What is sent.                                                            *)
NonEmpty == Seq(Bytes) \ {<<>>}

(* The next byte is b, and rest what follows it.                            *)
Arriving(w, b, rest) == w # <<>> /\ Head(w) = b /\ Tail(w) = rest

LEMMA ArrivesFirst ==
  ASSUME NEW S, NEW b \in S, NEW s \in Seq(S) PROVE Arriving(<<b>> \o s, b, s)
<1> DEFINE h == <<b>>
           x == h \o s
<1>1. h \in Seq(S) /\ Len(h) = 1 /\ h[1] = b
  OBVIOUS
<1>2. Len(s) \in Nat
  BY LenProperties
<1> HIDE DEF h
<1>3. /\ x \in Seq(S) /\ Len(x) = 1 + Len(s)
      /\ \A i \in 1..(1 + Len(s)) : x[i] = IF i <= 1 THEN b ELSE s[i - 1]
  <2>1. /\ x \in Seq(S) /\ Len(x) = Len(h) + Len(s)
        /\ \A i \in 1..Len(h) + Len(s) : x[i] = IF i <= Len(h) THEN h[i] ELSE s[i - Len(h)]
    BY <1>1, ConcatProperties
  <2> HIDE DEF x
  <2>2. \A i \in 1..(1 + Len(s)) : x[i] = IF i <= 1 THEN h[i] ELSE s[i - 1]
    BY <1>1, <2>1
  <2>3. \A i \in 1..(1 + Len(s)) : i <= 1 => i = 1
    BY <1>2
  <2> QED
    BY <1>1, <2>1, <2>2, <2>3
<1> HIDE DEF x
<1>4. x # <<>> /\ Head(x) = b
  <2>1. Len(x) # 0
    BY <1>2, <1>3
  <2>2. x # <<>>
    BY <2>1
  <2>3. 1 \in 1..(1 + Len(s))
    BY <1>2
  <2>4. x[1] = b
    BY <1>3, <2>3
  <2> QED
    BY <1>3, <2>2, <2>4
<1>5. /\ Tail(x) \in Seq(S) /\ Len(Tail(x)) = Len(s)
      /\ \A i \in 1..Len(s) : Tail(x)[i] = x[i + 1]
  BY <1>2, <1>3, <1>4, HeadTailProperties
<1>6. \A i \in 1..Len(s) : Tail(x)[i] = s[i]
  <2> TAKE i \in 1..Len(s)
  <2>1. i + 1 \in 1..(1 + Len(s)) /\ ~(i + 1 <= 1) /\ i + 1 - 1 = i
    BY <1>2
  <2> QED
    BY <1>3, <1>5, <2>1
<1>7. Tail(x) = s
  BY <1>5, <1>6, SeqEqual
<1> QED
  BY <1>4, <1>7 DEF Arriving, x, h

(* The places of the stream: k packets of it have passed, or k - 1 and j    *)
(* bytes of the next, or of the next byte's escape the first.               *)
Escapes(p) == [i \in DOMAIN p |-> Escape(p[i])]

SentFrames == [i \in DOMAIN packets |-> Frame(framing, packets[i])]

Behind(k) == AfterFirst(SentFrames, k)

Command == IF framing = "kiss" THEN <<"cmd">> ELSE <<>>

Body(k, j) == AfterFirst(Escapes(packets[k]), j) \o (<<"flag">> \o Behind(k))

Second(k, j) == IF packets[k][j] = "flag" THEN "eflag" ELSE "eesc"

Half(k, j) == <<Second(k, j)>> \o Body(k, j)

Escaped(k, j) == packets[k][j] = "flag" \/ packets[k][j] = "esc"

Begun(k) == <<"cmd">> \o Body(k, 0)

StreamTyped == framing \in Framings /\ packets \in Seq(NonEmpty)

LEMMA EscapesTyped ==
  ASSUME NEW p \in Seq(Bytes)
  PROVE  /\ Escapes(p) \in Seq(Seq(Octets)) /\ Len(Escapes(p)) = Len(p)
         /\ \A i \in 1..Len(p) : Escapes(p)[i] = Escape(p[i])
<1>1. \A b \in Bytes : Escape(b) \in Seq(Octets)
  <2> TAKE b \in Bytes
  <2>1. "esc" \in Octets /\ "eflag" \in Octets /\ "eesc" \in Octets /\ b \in Octets
    BY DEF Octets, Bytes
  <2> HIDE DEF Octets
  <2>2. <<"esc", "eflag">> \in Seq(Octets) /\ <<"esc", "eesc">> \in Seq(Octets)
        /\ <<b>> \in Seq(Octets)
    BY <2>1
  <2> QED
    BY <2>2 DEF Escape
<1>2. Len(p) \in Nat /\ DOMAIN p = 1..Len(p) /\ \A i \in 1..Len(p) : p[i] \in Bytes
  BY LenProperties, ElementOfSeq
<1>3. Escapes(p) \in [1..Len(p) -> Seq(Octets)]
  BY <1>1, <1>2 DEF Escapes
<1>4. \A i \in 1..Len(p) : Escapes(p)[i] = Escape(p[i])
  BY <1>2 DEF Escapes
<1>5. Escapes(p) \in Seq(Seq(Octets))
  BY <1>2, <1>3, SeqDef
<1>6. Len(Escapes(p)) = Len(p)
  BY <1>2, <1>3, <1>5, LenProperties
<1> QED
  BY <1>4, <1>5, <1>6

(* A frame: its flag, the command of KISS, the escaped packet and a flag.   *)
LEMMA FrameIs ==
  ASSUME NEW p \in Seq(Bytes), framing \in Framings
  PROVE  /\ AfterFirst(Escapes(p), 0) \in Seq(Octets) /\ Command \in Seq(Octets)
         /\ <<"flag">> \in Seq(Octets)
         /\ Frame(framing, p) = <<"flag">> \o Command \o AfterFirst(Escapes(p), 0) \o <<"flag">>
         /\ Frame(framing, p) \in Seq(Octets)
<1>1. Escapes(p) \in Seq(Seq(Octets))
  BY EscapesTyped
<1>2. FlattenSeq(Escapes(p)) = AfterFirst(Escapes(p), 0)
  BY <1>1, FlattenIs
<1>3. AfterFirst(Escapes(p), 0) \in Seq(Octets)
  <2>1. 0 \in 0..Len(Escapes(p))
    BY <1>1, LenProperties
  <2> QED
    BY <1>1, <2>1, RestsAre
<1>4. "flag" \in Octets /\ "cmd" \in Octets
  BY DEF Octets, Bytes
<1>5. <<"flag">> \in Seq(Octets) /\ <<"cmd">> \in Seq(Octets) /\ <<>> \in Seq(Octets)
  BY <1>4
<1>6. Command \in Seq(Octets)
  BY <1>5 DEF Command
<1>7. Frame(framing, p) = <<"flag">> \o Command \o AfterFirst(Escapes(p), 0) \o <<"flag">>
  BY <1>2 DEF Frame, Command, Escapes
<1>8. Frame(framing, p) \in Seq(Octets)
  <2>1. <<"flag">> \o Command \in Seq(Octets)
    BY <1>5, <1>6, Concatenated
  <2>2. <<"flag">> \o Command \o AfterFirst(Escapes(p), 0) \in Seq(Octets)
    BY <1>3, <2>1, Concatenated
  <2> QED
    BY <1>5, <1>7, <2>2, Concatenated
<1> QED
  BY <1>3, <1>5, <1>6, <1>7, <1>8

LEMMA FramesTyped ==
  ASSUME StreamTyped
  PROVE  /\ SentFrames \in Seq(Seq(Octets)) /\ Len(SentFrames) = Len(packets)
         /\ \A k \in 1..Len(packets) : /\ packets[k] \in Seq(Bytes) /\ packets[k] # <<>>
                                       /\ SentFrames[k] = Frame(framing, packets[k])
<1>1. /\ Len(packets) \in Nat /\ DOMAIN packets = 1..Len(packets)
      /\ \A k \in 1..Len(packets) : packets[k] \in Seq(Bytes) /\ packets[k] # <<>>
  <2>1. \A k \in 1..Len(packets) : packets[k] \in NonEmpty
    BY ElementOfSeq DEF StreamTyped
  <2> QED
    BY <2>1, LenProperties DEF StreamTyped, NonEmpty
<1>2. \A k \in 1..Len(packets) : Frame(framing, packets[k]) \in Seq(Octets)
  BY <1>1, FrameIs DEF StreamTyped
<1>3. SentFrames \in [1..Len(packets) -> Seq(Octets)]
  BY <1>1, <1>2 DEF SentFrames
<1>4. \A k \in 1..Len(packets) : SentFrames[k] = Frame(framing, packets[k])
  BY <1>1 DEF SentFrames
<1>5. SentFrames \in Seq(Seq(Octets))
  BY <1>1, <1>3, SeqDef
<1>6. Len(SentFrames) = Len(packets)
  BY <1>1, <1>3, <1>5, LenProperties
<1> QED
  BY <1>1, <1>4, <1>5, <1>6

(* Behind packet k are the frame of the next and what is behind that.       *)
LEMMA BehindTyped ==
  ASSUME StreamTyped
  PROVE  /\ \A k \in 0..Len(packets) : Behind(k) \in Seq(Octets)
         /\ Behind(Len(packets)) = <<>>
         /\ \A k \in 1..Len(packets) : Behind(k - 1) = Frame(framing, packets[k]) \o Behind(k)
<1> DEFINE n == Len(SentFrames)
<1>1. /\ AfterFirst(SentFrames, n) = <<>>
      /\ \A k \in 0..n : AfterFirst(SentFrames, k) \in Seq(Octets)
      /\ \A k \in 1..n : AfterFirst(SentFrames, k - 1) = SentFrames[k] \o AfterFirst(SentFrames, k)
  BY FramesTyped, RestsAre
<1>2. n = Len(packets) /\ \A k \in 1..n : SentFrames[k] = Frame(framing, packets[k])
  BY FramesTyped
<1> HIDE DEF n
<1> QED
  BY <1>1, <1>2 DEF Behind

(* Nothing has passed at first.                                             *)
LEMMA StreamBegins ==
  ASSUME StreamTyped
  PROVE  Behind(0) = FlattenSeq([i \in DOMAIN packets |-> Frame(framing, packets[i])])
BY FramesTyped, FlattenIs DEF Behind, SentFrames

(* What the bytes of a packet are followed by.                              *)
EndOf(k) == <<"flag">> \o Behind(k)

LEMMA BodyTyped ==
  ASSUME StreamTyped, NEW k \in 1..Len(packets)
  PROVE  /\ EndOf(k) \in Seq(Octets) /\ Body(k, Len(packets[k])) = EndOf(k)
         /\ \A j \in 0..Len(packets[k]) : Body(k, j) \in Seq(Octets)
         /\ \A j \in 1..Len(packets[k]) : Half(k, j) \in Seq(Octets)
         /\ Begun(k) \in Seq(Octets)
<1> DEFINE p == packets[k]
           rest(j) == AfterFirst(Escapes(p), j)
<1>1. p \in Seq(Bytes) /\ Len(p) \in Nat
  BY FramesTyped, LenProperties
<1>2. rest(Len(p)) = <<>> /\ \A j \in 0..Len(p) : rest(j) \in Seq(Octets)
  BY <1>1, EscapesTyped, RestsAre
<1>3. Behind(k) \in Seq(Octets) /\ <<"flag">> \in Seq(Octets)
  <2>1. Len(packets) \in Nat
    BY LenProperties DEF StreamTyped
  <2>2. k \in 0..Len(packets)
    BY <2>1
  <2> QED
    BY <1>1, <2>2, BehindTyped, FrameIs DEF StreamTyped
<1>4. EndOf(k) \in Seq(Octets)
  BY <1>3, Concatenated DEF EndOf
<1>5. \A j : Body(k, j) = rest(j) \o EndOf(k)
  BY DEF Body, EndOf
<1> HIDE DEF rest
<1>6. Body(k, Len(p)) = EndOf(k)
  <2>1. <<>> \o EndOf(k) = EndOf(k)
    BY <1>4, ConcatEmptySeq
  <2> QED
    BY <1>2, <1>5, <2>1
<1>7. \A j \in 0..Len(p) : Body(k, j) \in Seq(Octets)
  <2> TAKE j \in 0..Len(p)
  <2>1. rest(j) \o EndOf(k) \in Seq(Octets)
    BY <1>2, <1>4, Concatenated
  <2> QED
    BY <1>5, <2>1
<1>8. "cmd" \in Octets /\ \A j : Second(k, j) \in Octets
  BY DEF Octets, Bytes, Second
<1>9. \A j \in 1..Len(p) : Half(k, j) \in Seq(Octets)
  <2> TAKE j \in 1..Len(p)
  <2>1. <<Second(k, j)>> \in Seq(Octets)
    BY <1>8
  <2>2. Body(k, j) \in Seq(Octets)
    BY <1>1, <1>7
  <2> QED
    BY <2>1, <2>2, Concatenated DEF Half
<1>10. Begun(k) \in Seq(Octets)
  <2>1. <<"cmd">> \in Seq(Octets)
    BY <1>8
  <2>2. Body(k, 0) \in Seq(Octets)
    BY <1>1, <1>7
  <2> QED
    BY <2>1, <2>2, Concatenated DEF Begun
<1> QED
  BY <1>4, <1>6, <1>7, <1>9, <1>10

(* An escape and what it stands before, a byte each.                        *)
LEMMA PairJoined ==
  ASSUME NEW S, NEW a \in S, NEW b \in S PROVE <<a>> \o <<b>> = <<a, b>>
<1> DEFINE s == <<a>>
           t == <<b>>
           u == <<a, b>>
           w == s \o t
<1>1. s \in Seq(S) /\ Len(s) = 1 /\ s[1] = a
  OBVIOUS
<1>2. t \in Seq(S) /\ Len(t) = 1 /\ t[1] = b
  OBVIOUS
<1>3. u \in Seq(S) /\ Len(u) = 2 /\ u[1] = a /\ u[2] = b
  OBVIOUS
<1> HIDE DEF s, t, u
<1>4. /\ w \in Seq(S) /\ Len(w) = Len(s) + Len(t)
      /\ \A i \in 1..Len(s) + Len(t) : w[i] = IF i <= Len(s) THEN s[i] ELSE t[i - Len(s)]
  BY <1>1, <1>2, ConcatProperties
<1> HIDE DEF w
<1>5. Len(w) = 2 /\ \A i \in 1..2 : w[i] = IF i <= 1 THEN s[i] ELSE t[i - 1]
  BY <1>1, <1>2, <1>4
<1>6. w[1] = a /\ w[2] = b
  BY <1>1, <1>2, <1>5
<1>7. \A i \in 1..2 : i = 1 \/ i = 2
  OBVIOUS
<1>8. \A i \in 1..2 : w[i] = u[i]
  BY <1>3, <1>6, <1>7, Zenon
<1>9. w = u
  BY <1>3, <1>4, <1>5, <1>8, SeqEqual
<1> QED
  BY <1>9 DEF s, t, u, w

(* The next byte of a packet: it, or an escape and what stands for it.      *)
LEMMA BytesOfBody ==
  ASSUME StreamTyped, NEW k \in 1..Len(packets), NEW j \in 1..Len(packets[k])
  PROVE  /\ Escaped(k, j) => /\ Arriving(Body(k, j - 1), "esc", Half(k, j))
                             /\ Arriving(Half(k, j), Second(k, j), Body(k, j))
         /\ ~Escaped(k, j) => Arriving(Body(k, j - 1), packets[k][j], Body(k, j))
<1> DEFINE p == packets[k]
           rest(i) == AfterFirst(Escapes(p), i)
<1>1. p \in Seq(Bytes) /\ Len(p) \in Nat /\ p[j] \in Bytes
  BY FramesTyped, LenProperties, ElementOfSeq
<1>2. /\ Escapes(p) \in Seq(Seq(Octets)) /\ Len(Escapes(p)) = Len(p)
      /\ \A i \in 1..Len(p) : Escapes(p)[i] = Escape(p[i])
  BY <1>1, EscapesTyped
<1>3. /\ \A i \in 0..Len(p) : rest(i) \in Seq(Octets)
      /\ \A i \in 1..Len(p) : rest(i - 1) = Escape(p[i]) \o rest(i)
  BY <1>2, RestsAre
<1>4. Escape(p[j]) \in Seq(Octets)
  BY <1>2, ElementOfSeq
<1>5. rest(j) \in Seq(Octets) /\ rest(j - 1) = Escape(p[j]) \o rest(j)
  <2>1. j \in 0..Len(p)
    BY <1>1
  <2> QED
    BY <1>3, <2>1
<1>6. EndOf(k) \in Seq(Octets) /\ Body(k, j) \in Seq(Octets)
  <2>1. j \in 0..Len(p)
    BY <1>1
  <2> QED
    BY <2>1, BodyTyped
<1>7. \A i : Body(k, i) = rest(i) \o EndOf(k)
  BY DEF Body, EndOf
<1> HIDE DEF rest
<1>8. Body(k, j - 1) = Escape(p[j]) \o Body(k, j)
  <2>1. Regrouped(Escape(p[j]), rest(j), EndOf(k))
    BY <1>4, <1>5, <1>6, Grouped
  <2>2. Body(k, j - 1) = (Escape(p[j]) \o rest(j)) \o EndOf(k)
    BY <1>5, <1>7
  <2>3. Body(k, j) = rest(j) \o EndOf(k)
    BY <1>7
  <2> QED
    BY <2>1, <2>2, <2>3, Zenon DEF Regrouped
<1>9. "esc" \in Octets /\ Second(k, j) \in Octets /\ p[j] \in Octets
  BY <1>1 DEF Octets, Bytes, Second
<1>10. CASE Escaped(k, j)
  <2>1. Escape(p[j]) = <<"esc", Second(k, j)>>
    BY <1>10 DEF Escape, Second, Escaped
  <2>2. <<"esc">> \o <<Second(k, j)>> = <<"esc", Second(k, j)>>
    BY <1>9, PairJoined
  <2>3. <<"esc">> \in Seq(Octets) /\ <<Second(k, j)>> \in Seq(Octets)
    BY <1>9
  <2>4. Regrouped(<<"esc">>, <<Second(k, j)>>, Body(k, j))
    BY <1>6, <2>3, Grouped
  <2>5. Body(k, j - 1) = <<"esc">> \o Half(k, j)
    BY <1>8, <2>1, <2>2, <2>4, Zenon DEF Regrouped, Half
  <2>6. Half(k, j) \in Seq(Octets)
    BY BodyTyped
  <2>7. Arriving(<<"esc">> \o Half(k, j), "esc", Half(k, j))
    BY <1>9, <2>6, ArrivesFirst
  <2>8. Arriving(Half(k, j), Second(k, j), Body(k, j))
    BY <1>6, <1>9, ArrivesFirst DEF Half
  <2> QED
    BY <1>10, <2>5, <2>7, <2>8, Zenon
<1>11. CASE ~Escaped(k, j)
  <2>1. Escape(p[j]) = <<p[j]>>
    BY <1>11 DEF Escape, Escaped
  <2>2. Arriving(<<p[j]>> \o Body(k, j), p[j], Body(k, j))
    BY <1>6, <1>9, ArrivesFirst
  <2> QED
    BY <1>8, <1>11, <2>1, <2>2, Zenon
<1> QED
  BY <1>10, <1>11

(* What a frame begins with, after its flag.                                *)
Opening(k) == IF framing = "kiss" THEN Begun(k) ELSE Body(k, 0)

(* Where the flags are, and the command.                                    *)
LEMMA FlagsOfFrame ==
  ASSUME StreamTyped, NEW k \in 1..Len(packets)
  PROVE  /\ Arriving(EndOf(k), "flag", Behind(k))
         /\ Arriving(Begun(k), "cmd", Body(k, 0))
         /\ Arriving(Behind(k - 1), "flag", Opening(k))
<1> DEFINE p == packets[k]
           f == <<"flag">>
           c == Command
           a == AfterFirst(Escapes(p), 0)
           b == Behind(k)
<1>1. p \in Seq(Bytes) /\ Len(p) \in Nat
  BY FramesTyped, LenProperties
<1>2. /\ a \in Seq(Octets) /\ c \in Seq(Octets) /\ f \in Seq(Octets)
      /\ Frame(framing, p) = f \o c \o a \o f
  BY <1>1, FrameIs DEF StreamTyped
<1>3. b \in Seq(Octets) /\ Behind(k - 1) = Frame(framing, p) \o b
  <2>1. Len(packets) \in Nat
    BY LenProperties DEF StreamTyped
  <2>2. k \in 0..Len(packets)
    BY <2>1
  <2> QED
    BY <2>2, BehindTyped
<1>4. "flag" \in Octets /\ "cmd" \in Octets
  BY DEF Octets, Bytes
<1>5. Arriving(EndOf(k), "flag", b)
  BY <1>3, <1>4, ArrivesFirst DEF EndOf
<1>6. EndOf(k) = f \o b /\ EndOf(k) \in Seq(Octets) /\ Body(k, 0) = a \o EndOf(k)
      /\ Body(k, 0) \in Seq(Octets)
  <2>1. 0 \in 0..Len(p)
    BY <1>1
  <2> QED
    BY <2>1, BodyTyped DEF EndOf, Body
<1>7. Arriving(Begun(k), "cmd", Body(k, 0))
  BY <1>4, <1>6, ArrivesFirst DEF Begun
<1>8. Opening(k) = c \o Body(k, 0)
  <2>1. <<>> \o Body(k, 0) = Body(k, 0)
    BY <1>6, ConcatEmptySeq
  <2> QED
    BY <2>1 DEF Opening, Begun, Command
<1> HIDE DEF f, c, a, b
<1>9. Behind(k - 1) = f \o Opening(k)
  <2>1. f \o c \in Seq(Octets) /\ f \o c \o a \in Seq(Octets)
    BY <1>2, Concatenated
  <2>2. Regrouped(f \o c \o a, f, b)
    BY <1>2, <1>3, <2>1, Grouped
  <2>3. Regrouped(f \o c, a, EndOf(k))
    BY <1>2, <1>6, <2>1, Grouped
  <2>4. Regrouped(f, c, Body(k, 0))
    BY <1>2, <1>6, Grouped
  <2>5. Behind(k - 1) = (f \o c \o a) \o EndOf(k)
    BY <1>2, <1>3, <1>6, <2>2, Zenon DEF Regrouped
  <2>6. (f \o c \o a) \o EndOf(k) = (f \o c) \o Body(k, 0)
    BY <1>6, <2>3, Zenon DEF Regrouped
  <2>7. (f \o c) \o Body(k, 0) = f \o Opening(k)
    BY <1>8, <2>4, Zenon DEF Regrouped
  <2> QED
    BY <2>5, <2>6, <2>7, Zenon
<1>10. Arriving(f \o Opening(k), "flag", Opening(k))
  <2>1. Opening(k) \in Seq(Octets)
    BY <1>2, <1>6, <1>8, Concatenated
  <2> QED
    BY <1>4, <2>1, ArrivesFirst DEF f
<1> QED
  BY <1>5, <1>7, <1>9, <1>10 DEF b

(* An element behind the second of two sequences is behind both.            *)
Extended(s, t, e) == Append(s \o t, e) = s \o Append(t, e)

LEMMA AppendBehind ==
  ASSUME NEW S, NEW s \in Seq(S), NEW t \in Seq(S), NEW e \in S
  PROVE  Extended(s, t, e)
<1>1. s \o t \in Seq(S) /\ <<e>> \in Seq(S)
  BY Concatenated
<1>2. Append(s \o t, e) = (s \o t) \o <<e>> /\ Append(t, e) = t \o <<e>>
  BY <1>1, AppendIsConcat
<1>3. Regrouped(s, t, <<e>>)
  BY <1>1, Grouped
<1> QED
  BY <1>2, <1>3, Zenon DEF Regrouped, Extended

(* A part of a sequence grows by the next element.                          *)
LEMMA Slice ==
  ASSUME NEW S, NEW s \in Seq(S), NEW i \in Nat, NEW k \in Nat, k <= Len(s)
  PROVE  /\ SubSeq(s, i + 1, k) \in Seq(S)
         /\ i >= k => SubSeq(s, i + 1, k) = <<>>
         /\ i < k => SubSeq(s, i + 1, k) = Append(SubSeq(s, i + 1, k - 1), s[k])
<1>1. Len(s) \in Nat /\ i + 1 \in Int /\ k \in Int
  BY LenProperties
<1>2. SubSeq(s, i + 1, k) \in Seq(S)
  <2>1. \A m \in (i + 1)..k : s[m] \in S
    <3> TAKE m \in (i + 1)..k
    <3>1. m \in 1..Len(s)
      BY <1>1
    <3> QED
      BY <3>1, ElementOfSeq
  <2> QED
    BY <1>1, <2>1, SubSeqProperties
<1>3. ASSUME i >= k PROVE SubSeq(s, i + 1, k) = <<>>
  BY <1>1, <1>3, SubSeqEmpty
<1>4. ASSUME i < k PROVE SubSeq(s, i + 1, k) = Append(SubSeq(s, i + 1, k - 1), s[k])
  <2>1. i + 1 \in 1..Len(s) /\ k \in (i + 1)..Len(s) /\ k \in 1..Len(s)
    BY <1>1, <1>4
  <2>2. SubSeq(s, i + 1, k) = SubSeq(s, i + 1, k - 1) \o <<s[k]>>
    BY <2>1, SubSeqRecursiveSecond
  <2>3. SubSeq(s, i + 1, k - 1) \in Seq(S)
    <3>1. \A m \in (i + 1)..(k - 1) : s[m] \in S
      <4> TAKE m \in (i + 1)..(k - 1)
      <4>1. m \in 1..Len(s)
        BY <1>1
      <4> QED
        BY <4>1, ElementOfSeq
    <3>2. k - 1 \in Int
      BY <1>1
    <3> QED
      BY <1>1, <3>1, <3>2, SubSeqProperties
  <2>4. s[k] \in S
    BY <2>1, ElementOfSeq
  <2>5. Append(SubSeq(s, i + 1, k - 1), s[k]) = SubSeq(s, i + 1, k - 1) \o <<s[k]>>
    BY <2>3, <2>4, AppendIsConcat
  <2> QED
    BY <2>2, <2>5
<1> QED
  BY <1>2, <1>3, <1>4

(* What a parser may hold.                                                  *)
Contents == Seq(Octets)

(* The first k packets, and those from the one behind i to k.               *)
First(k) == SubSeq(packets, 1, k)

Later(i, k) == SubSeq(packets, i + 1, k)

LEMMA PacketsTyped ==
  ASSUME StreamTyped
  PROVE  /\ packets \in Seq(Contents) /\ Len(packets) \in Nat
         /\ \A k \in 1..Len(packets) : packets[k] \in Contents
<1>1. Bytes \subseteq Octets
  BY DEF Octets
<1>2. NonEmpty \subseteq Contents
  BY <1>1, SeqMonotonic DEF NonEmpty, Contents
<1>3. packets \in Seq(Contents)
  BY <1>2, SeqMonotonic DEF StreamTyped
<1> QED
  BY <1>3, LenProperties, ElementOfSeq

(* They grow by a packet at a time.                                         *)
LEMMA PacketSlices ==
  ASSUME StreamTyped
  PROVE  /\ First(0) = <<>> /\ First(Len(packets)) = packets
         /\ \A k \in 0..Len(packets) : First(k) \in Seq(Contents)
         /\ \A k \in 1..Len(packets) : First(k) = Append(First(k - 1), packets[k])
         /\ \A k \in 0..Len(packets), i \in Nat : Later(i, k) \in Seq(Contents)
         /\ \A k \in 0..Len(packets), i \in Nat : i >= k => Later(i, k) = <<>>
         /\ \A k \in 1..Len(packets), i \in Nat :
              i < k => Later(i, k) = Append(Later(i, k - 1), packets[k])
<1>1. packets \in Seq(Contents) /\ Len(packets) \in Nat
  BY PacketsTyped
<1> DEFINE n == Len(packets)
<1>2. \A k \in 0..n, i \in Nat :
        /\ Later(i, k) \in Seq(Contents)
        /\ i >= k => Later(i, k) = <<>>
        /\ i < k => Later(i, k) = Append(Later(i, k - 1), packets[k])
  <2> TAKE k \in 0..n, i \in Nat
  <2>1. k \in Nat /\ k <= n
    BY <1>1
  <2> QED
    BY <1>1, <2>1, Slice DEF Later
<1>3. \A k : First(k) = Later(0, k)
  BY DEF First, Later
<1>4. First(n) = packets
  BY <1>1, SubSeqFull DEF First
<1> HIDE DEF n
<1>5. n \in Nat /\ 0 \in Nat /\ 0 \in 0..n /\ 0 >= 0 /\ \A k \in 1..n : k \in 0..n /\ 0 < k
  BY <1>1 DEF n
<1>6. /\ First(0) = <<>>
      /\ \A k \in 0..n : First(k) \in Seq(Contents)
      /\ \A k \in 1..n : First(k) = Append(First(k - 1), packets[k])
  BY <1>2, <1>3, <1>5, Zenon
<1> QED
  BY <1>2, <1>4, <1>5, <1>6 DEF n

(* What the parser has of packet k after j of its bytes.                    *)
Buf(k, j) == Command \o SubSeq(packets[k], 1, j)

(* The parser's buffer grows by a byte of the packet, and is it at the end. *)
LEMMA BufIs ==
  ASSUME StreamTyped, NEW k \in 1..Len(packets)
  PROVE  /\ Buf(k, 0) = Command
         /\ \A j \in 0..Len(packets[k]) : Buf(k, j) \in Contents
         /\ \A j \in 1..Len(packets[k]) : Buf(k, j) = Append(Buf(k, j - 1), packets[k][j])
         /\ Buf(k, Len(packets[k])) = Command \o packets[k]
         /\ Buf(k, Len(packets[k])) # <<>>
         /\ Payload(Buf(k, Len(packets[k]))) = packets[k]
<1> DEFINE p == packets[k]
<1>1. /\ p \in Seq(Bytes) /\ p # <<>> /\ Len(p) \in Nat /\ \A j \in 1..Len(p) : p[j] \in Bytes
  BY FramesTyped, LenProperties, ElementOfSeq
<1>2. Bytes \subseteq Octets /\ "cmd" \in Octets
  BY DEF Octets
<1>3. p \in Seq(Octets) /\ \A j \in 1..Len(p) : p[j] \in Octets
  BY <1>1, <1>2, SeqMonotonic
<1>4. Command \in Seq(Octets)
  BY <1>1, FrameIs DEF StreamTyped
<1> HIDE DEF p
<1>5. /\ SubSeq(p, 1, 0) = <<>> /\ \A j \in 0..Len(p) : SubSeq(p, 1, j) \in Seq(Octets)
      /\ \A j \in 1..Len(p) : SubSeq(p, 1, j) = Append(SubSeq(p, 1, j - 1), p[j])
  <2>1. \A j \in 0..Len(p) : /\ SubSeq(p, 0 + 1, j) \in Seq(Octets)
                             /\ 0 >= j => SubSeq(p, 0 + 1, j) = <<>>
                             /\ 0 < j => SubSeq(p, 0 + 1, j) = Append(SubSeq(p, 0 + 1, j - 1), p[j])
    <3> TAKE j \in 0..Len(p)
    <3>1. j \in Nat /\ j <= Len(p) /\ 0 \in Nat
      BY <1>1
    <3> QED
      BY <1>3, <3>1, Slice
  <2>2. 0 + 1 = 1 /\ 0 \in 0..Len(p) /\ 0 >= 0 /\ \A j \in 1..Len(p) : j \in 0..Len(p) /\ 0 < j
    BY <1>1
  <2> QED
    BY <2>1, <2>2
<1>6. \A j : Buf(k, j) = Command \o SubSeq(p, 1, j)
  BY DEF Buf, p
<1>7. Buf(k, 0) = Command
  BY <1>4, <1>5, <1>6, ConcatEmptySeq
<1>8. \A j \in 0..Len(p) : Buf(k, j) \in Contents
  BY <1>4, <1>5, <1>6, Concatenated DEF Contents
<1>9. \A j \in 1..Len(p) : Buf(k, j) = Append(Buf(k, j - 1), p[j])
  <2> TAKE j \in 1..Len(p)
  <2>1. j - 1 \in 0..Len(p)
    BY <1>1
  <2>2. SubSeq(p, 1, j - 1) \in Seq(Octets)
    BY <1>5, <2>1
  <2>3. Extended(Command, SubSeq(p, 1, j - 1), p[j])
    BY <1>3, <1>4, <2>2, AppendBehind
  <2>4. SubSeq(p, 1, j) = Append(SubSeq(p, 1, j - 1), p[j])
    BY <1>5
  <2> QED
    BY <1>6, <2>3, <2>4, Zenon DEF Extended
<1>10. Buf(k, Len(p)) = Command \o p
  BY <1>3, <1>6, SubSeqFull
<1>11. Command \o p # <<>> /\ Payload(Command \o p) = p
  <2>1. CASE framing = "kiss"
    <3>1. Arriving(<<"cmd">> \o p, "cmd", p)
      BY <1>2, <1>3, ArrivesFirst
    <3> QED
      BY <2>1, <3>1 DEF Command, Arriving, Payload
  <2>2. CASE framing # "kiss"
    <3>1. <<>> \o p = p
      BY <1>3, ConcatEmptySeq
    <3> QED
      BY <1>1, <2>2, <3>1 DEF Command, Payload
  <2> QED
    BY <2>1, <2>2
<1> QED
  BY <1>7, <1>8, <1>9, <1>10, <1>11 DEF p

EveryFlag == framing = "kiss" \/ framing = "hdlc"

(* One packet of the first k is missing or changed.                         *)
Missing(k) ==
  \E i \in 1..k, z \in Seq(Contents) :
     Len(z) <= 1 /\ received = First(i - 1) \o (z \o Later(i, k))

(* All of the first k were received, or all but one.                        *)
ReceivedTo(k) == received = First(k) \/ (dropped /\ EveryFlag /\ Missing(k))

ParserState(in, escape, buf) == [in |-> in, escape |-> escape, buf |-> buf]

(* Where the stream can be. Between two frames, the first k received;       *)
(* behind the first flag of a KISS frame; j bytes into packet k; and        *)
(* between an escape and what it escapes.                                   *)
BetweenAt(k) ==
  /\ wire = Behind(k) /\ ReceivedTo(k)
  /\ parser = ParserState(EveryFlag /\ k > 0, FALSE, <<>>)

BegunAt(k) ==
  /\ framing = "kiss" /\ wire = Begun(k) /\ ReceivedTo(k - 1)
  /\ parser = ParserState(TRUE, FALSE, <<>>)

BodyAt(k, j) ==
  wire = Body(k, j) /\ ReceivedTo(k - 1) /\ parser = ParserState(TRUE, FALSE, Buf(k, j))

HalfAt(k, j) ==
  /\ Escaped(k, j) /\ wire = Half(k, j) /\ ReceivedTo(k - 1)
  /\ parser = ParserState(TRUE, TRUE, Buf(k, j - 1))

(* A byte of packet k is missing: the parser is anywhere, or, where the     *)
(* flag behind the packet is what is missing, still has the packet.         *)
Broken(k) == dropped /\ EveryFlag /\ received = First(k - 1)

WithinAt(k) ==
  \/ framing = "kiss" /\ wire = Begun(k)
  \/ \E j \in 0..Len(packets[k]) : wire = Body(k, j)
  \/ \E j \in 1..Len(packets[k]) : Escaped(k, j) /\ wire = Half(k, j)

UnclosedAt(k) ==
  Broken(k) /\ wire = Behind(k) /\ parser = ParserState(TRUE, FALSE, Buf(k, Len(packets[k])))

(* Where flags come in pairs nothing is known after a loss.                 *)
StreamPlace ==
  \/ dropped /\ ~EveryFlag
  \/ \E k \in 0..Len(packets) : BetweenAt(k)
  \/ \E k \in 1..Len(packets) : BegunAt(k)
  \/ \E k \in 1..Len(packets) : \E j \in 0..Len(packets[k]) : BodyAt(k, j)
  \/ \E k \in 1..Len(packets) : \E j \in 1..Len(packets[k]) : HalfAt(k, j)
  \/ \E k \in 1..Len(packets) : Broken(k) /\ WithinAt(k)
  \/ \E k \in 1..Len(packets) : UnclosedAt(k)

StreamInv ==
  /\ StreamTyped /\ wire \in Seq(Octets) /\ received \in Seq(Contents) /\ dropped \in BOOLEAN
  /\ parser \in [in : BOOLEAN, escape : BOOLEAN, buf : Contents] /\ (parser.escape => parser.in)

FramingInv == StreamInv /\ StreamPlace

(* The stream itself does not change.                                       *)
SameStream == framing' = framing /\ packets' = packets

LEMMA PlacesFixed ==
  ASSUME SameStream
  PROVE  /\ \A k : /\ Behind(k)' = Behind(k) /\ Begun(k)' = Begun(k) /\ First(k)' = First(k)
                   /\ Opening(k)' = Opening(k)
         /\ \A k, j : /\ Body(k, j)' = Body(k, j) /\ Half(k, j)' = Half(k, j)
                      /\ Buf(k, j)' = Buf(k, j) /\ (Escaped(k, j)' <=> Escaped(k, j))
                      /\ Later(k, j)' = Later(k, j)
         /\ (EveryFlag' <=> EveryFlag)
BY DEF SameStream, Behind, SentFrames, Begun, First, Opening, Body, Half, Buf, Escaped, Later,
       EveryFlag, Second, Command

(* A byte leaves the parser well formed.                                    *)
LEMMA ByteTyped ==
  ASSUME StreamInv, NEW b \in Octets
  PROVE  /\ ByteTaken(b) \in [in : BOOLEAN, escape : BOOLEAN, buf : Contents]
         /\ ByteTaken(b).escape => ByteTaken(b).in
<1>1. PICK i \in BOOLEAN, e \in BOOLEAN, f \in Contents :
        parser = [in |-> i, escape |-> e, buf |-> f]
  BY DEF StreamInv
<1>2. Unescape(framing, b) \in Octets
  BY DEF Unescape, Octets, Bytes
<1>3. Append(f, b) \in Contents /\ Append(f, Unescape(framing, b)) \in Contents
  BY <1>2, AppendProperties DEF Contents
<1> QED
  BY <1>1, <1>3 DEF ByteTaken, StreamInv

LEMMA HandedTyped ==
  ASSUME StreamInv
  PROVE  /\ HandedOver \in Seq(Contents)
         /\ HandedOver = received \/ \E z \in Contents : HandedOver = Append(received, z)
<1>1. CASE parser.in /\ parser.buf # <<>>
  <2>1. Payload(parser.buf) \in Contents
    <3>1. parser.buf \in Contents
      BY DEF StreamInv
    <3>2. Tail(parser.buf) \in Contents
      BY <1>1, <3>1, HeadTailProperties DEF Contents
    <3> QED
      BY <3>1, <3>2 DEF Payload
  <2>2. HandedOver = Append(received, Payload(parser.buf))
    BY <1>1 DEF HandedOver
  <2> QED
    BY <2>1, <2>2, AppendProperties DEF StreamInv
<1>2. CASE ~(parser.in /\ parser.buf # <<>>)
  BY <1>2 DEF HandedOver, StreamInv
<1> QED
  BY <1>1, <1>2

LEMMA StreamNext == StreamInv /\ [FramingNext]_framingVars => StreamInv'
<1> SUFFICES ASSUME StreamInv, [FramingNext]_framingVars PROVE StreamInv'
  OBVIOUS
<1>0. wire # <<>> => Head(wire) \in Octets /\ Tail(wire) \in Seq(Octets)
  BY HeadTailProperties DEF StreamInv
<1>1. CASE ByteArrives
  <2>1. /\ StreamTyped' /\ wire' \in Seq(Octets) /\ dropped' \in BOOLEAN
    BY <1>0, <1>1 DEF ByteArrives, StreamInv, StreamTyped
  <2>2. CASE Head(wire) = "flag"
    <3>1. received' = HandedOver /\ parser' = Opened(framing \in {"kiss", "hdlc"} \/ ~parser.in)
      BY <1>1, <2>2 DEF ByteArrives, FlagArrives
    <3>2. parser' \in [in : BOOLEAN, escape : BOOLEAN, buf : Contents] /\ ~parser'.escape
      BY <3>1 DEF Opened, Contents
    <3>3. received' \in Seq(Contents)
      BY <3>1, HandedTyped
    <3> QED
      BY <2>1, <3>2, <3>3 DEF StreamInv
  <2>3. CASE Head(wire) # "flag"
    <3>1. received' = received /\ parser' = ByteTaken(Head(wire)) /\ wire # <<>>
      BY <1>1, <2>3 DEF ByteArrives
    <3>2. /\ parser' \in [in : BOOLEAN, escape : BOOLEAN, buf : Contents]
          /\ parser'.escape => parser'.in
      BY <1>0, <3>1, ByteTyped
    <3> QED
      BY <2>1, <3>1, <3>2 DEF StreamInv
  <2> QED
    BY <2>2, <2>3
<1>2. CASE ByteDropped
  BY <1>0, <1>2 DEF ByteDropped, StreamInv, StreamTyped
<1>3. CASE UNCHANGED framingVars
  BY <1>3 DEF framingVars, StreamInv, StreamTyped
<1> QED
  BY <1>1, <1>2, <1>3 DEF FramingNext

(* What the next byte is decides the step.                                  *)
LEMMA FlagStep ==
  ASSUME ByteArrives, NEW w, Arriving(wire, "flag", w)
  PROVE  /\ SameStream /\ wire' = w /\ dropped' = dropped /\ received' = HandedOver
         /\ parser' = ParserState(EveryFlag \/ ~parser.in, FALSE, <<>>)
BY DEF ByteArrives, FlagArrives, Arriving, SameStream, Opened, EveryFlag, ParserState

LEMMA ByteStep ==
  ASSUME ByteArrives, NEW b, b # "flag", NEW w, Arriving(wire, b, w)
  PROVE  /\ SameStream /\ wire' = w /\ dropped' = dropped /\ received' = received
         /\ parser' = ByteTaken(b)
BY DEF ByteArrives, Arriving, SameStream

LEMMA LossStep ==
  ASSUME ByteDropped, NEW b, NEW w, Arriving(wire, b, w)
  PROVE  /\ SameStream /\ wire' = w /\ ~dropped /\ dropped'
         /\ received' = received /\ parser' = parser
BY DEF ByteDropped, Arriving, SameStream

LEMMA ReceivedFixed ==
  ASSUME SameStream, dropped' = dropped, received' = received, NEW k, ReceivedTo(k)
  PROVE  ReceivedTo(k)'
<1>1. /\ \A i : First(i)' = First(i)
      /\ \A i, j : Later(i, j)' = Later(i, j)
      /\ EveryFlag' <=> EveryFlag
  BY PlacesFixed
<1>2. CASE received = First(k)
  BY <1>1, <1>2 DEF ReceivedTo
<1>3. CASE dropped /\ EveryFlag /\ Missing(k)
  <2>1. PICK i \in 1..k, z \in Seq(Contents) :
          Len(z) <= 1 /\ received = First(i - 1) \o (z \o Later(i, k))
    BY <1>3 DEF Missing
  <2>2. received' = First(i - 1)' \o (z \o Later(i, k)')
    BY <1>1, <2>1
  <2>3. Missing(k)'
    BY <2>1, <2>2 DEF Missing
  <2> QED
    BY <1>1, <1>3, <2>3 DEF ReceivedTo
<1> QED
  BY <1>2, <1>3 DEF ReceivedTo

(* Packet k is handed over as it was sent, or spoiled, or not.              *)
LEMMA ReceivedOneMore ==
  ASSUME StreamInv, SameStream, dropped' = dropped, NEW k \in 1..Len(packets), ReceivedTo(k - 1),
         received' = Append(received, packets[k])
  PROVE  ReceivedTo(k)'
<1>1. /\ \A i : First(i)' = First(i)
      /\ \A i, j : Later(i, j)' = Later(i, j)
      /\ EveryFlag' <=> EveryFlag
  BY PlacesFixed
<1>2. StreamTyped /\ Len(packets) \in Nat /\ packets[k] \in Contents
  BY PacketsTyped DEF StreamInv
<1>3. CASE received = First(k - 1)
  <2>1. received' = First(k)
    BY <1>2, <1>3, PacketSlices
  <2> QED
    BY <1>1, <2>1 DEF ReceivedTo
<1>4. CASE dropped /\ EveryFlag /\ Missing(k - 1)
  <2>1. PICK i \in 1..(k - 1), z \in Seq(Contents) :
          Len(z) <= 1 /\ received = First(i - 1) \o (z \o Later(i, k - 1))
    BY <1>4 DEF Missing
  <2>2. /\ i \in 1..k /\ i \in Nat /\ i < k /\ i - 1 \in 0..Len(packets)
        /\ k - 1 \in 0..Len(packets)
    BY <1>2
  <2>3. First(i - 1) \in Seq(Contents) /\ Later(i, k - 1) \in Seq(Contents)
    BY <1>2, <2>2, PacketSlices
  <2>4. Later(i, k) = Append(Later(i, k - 1), packets[k])
    BY <1>2, <2>2, PacketSlices
  <2>5. z \o Later(i, k - 1) \in Seq(Contents)
    BY <2>3, Concatenated
  <2>6. Extended(First(i - 1), z \o Later(i, k - 1), packets[k])
    BY <1>2, <2>3, <2>5, AppendBehind
  <2>7. Extended(z, Later(i, k - 1), packets[k])
    BY <1>2, <2>3, AppendBehind
  <2>8. received' = First(i - 1) \o (z \o Later(i, k))
    BY <2>1, <2>4, <2>6, <2>7, Zenon DEF Extended
  <2>9. received' = First(i - 1)' \o (z \o Later(i, k)')
    BY <1>1, <2>8, Zenon
  <2>10. Missing(k)'
    BY <2>1, <2>2, <2>9 DEF Missing
  <2> QED
    BY <1>1, <1>4, <2>10 DEF ReceivedTo
<1> QED
  BY <1>3, <1>4 DEF ReceivedTo

LEMMA ReceivedSpoiled ==
  ASSUME StreamInv, SameStream, dropped' = dropped, NEW k \in 1..Len(packets), Broken(k),
         received' = HandedOver
  PROVE  ReceivedTo(k)'
<1>1. /\ \A i : First(i)' = First(i)
      /\ \A i, j : Later(i, j)' = Later(i, j)
      /\ EveryFlag' <=> EveryFlag
  BY PlacesFixed
<1>2. StreamTyped /\ Len(packets) \in Nat
  BY PacketsTyped DEF StreamInv
<1>3. k - 1 \in 0..Len(packets) /\ k \in 0..Len(packets) /\ k \in Nat /\ k >= k /\ k \in 1..k
  BY <1>2
<1>4. First(k - 1) \in Seq(Contents) /\ Later(k, k) = <<>>
  BY <1>2, <1>3, PacketSlices
<1>5. \E z \in Seq(Contents) : Len(z) <= 1 /\ received' = First(k - 1) \o (z \o Later(k, k))
  <2>1. \A z \in Seq(Contents) : z \o Later(k, k) = z
    BY <1>4, ConcatEmptySeq
  <2>2. CASE received' = received
    <3>1. <<>> \in Seq(Contents) /\ Len(<<>>) <= 1
      OBVIOUS
    <3>2. received' = First(k - 1) \o <<>>
      BY <1>4, <2>2, ConcatEmptySeq DEF Broken
    <3> QED
      BY <2>1, <3>1, <3>2
  <2>3. CASE \E y \in Contents : received' = Append(received, y)
    <3>1. PICK y \in Contents : received' = Append(received, y)
      BY <2>3
    <3>2. <<y>> \in Seq(Contents) /\ Len(<<y>>) <= 1
      OBVIOUS
    <3>3. received' = First(k - 1) \o <<y>>
      BY <1>4, <3>1, AppendIsConcat DEF Broken
    <3>4. <<y>> \o Later(k, k) = <<y>>
      BY <2>1, <3>2
    <3> QED
      BY <3>2, <3>3, <3>4
  <2> QED
    BY <2>2, <2>3, HandedTyped
<1>6. PICK z \in Seq(Contents) : Len(z) <= 1 /\ received' = First(k - 1) \o (z \o Later(k, k))
  BY <1>5
<1>7. received' = First(k - 1)' \o (z \o Later(k, k)')
  BY <1>1, <1>6, Zenon
<1>8. Missing(k)'
  BY <1>3, <1>6, <1>7 DEF Missing
<1> QED
  BY <1>1, <1>8 DEF ReceivedTo, Broken

(* A flag that opens the next frame.                                        *)
LEMMA FrameOpens ==
  ASSUME StreamInv, SameStream, NEW k \in 1..Len(packets), wire' = Opening(k),
         parser' = ParserState(TRUE, FALSE, <<>>), ReceivedTo(k - 1)'
  PROVE  StreamPlace'
<1>1. /\ framing' = framing /\ packets' = packets /\ Begun(k)' = Begun(k)
      /\ Body(k, 0)' = Body(k, 0) /\ Buf(k, 0)' = Buf(k, 0)
  BY PlacesFixed DEF SameStream
<1>2. CASE framing = "kiss"
  <2>1. BegunAt(k)'
    BY <1>1, <1>2 DEF BegunAt, Opening
  <2> QED
    BY <1>1, <2>1 DEF StreamPlace
<1>3. CASE framing # "kiss"
  <2>1. Buf(k, 0) = <<>>
    BY <1>3, BufIs DEF StreamInv, Command
  <2>2. BodyAt(k, 0)'
    BY <1>1, <1>3, <2>1 DEF BodyAt, Opening
  <2>3. 0 \in 0..Len(packets[k])
    BY FramesTyped, LenProperties DEF StreamInv
  <2> QED
    BY <1>1, <2>2, <2>3 DEF StreamPlace
<1> QED
  BY <1>2, <1>3

LEMMA NextPacket ==
  ASSUME StreamInv, NEW k \in 0..Len(packets), wire = Behind(k), wire # <<>>
  PROVE  k + 1 \in 1..Len(packets) /\ Arriving(wire, "flag", Opening(k + 1))
<1>1. StreamTyped /\ Len(packets) \in Nat
  BY PacketsTyped DEF StreamInv
<1>2. k # Len(packets)
  BY <1>1, BehindTyped
<1>3. k + 1 \in 1..Len(packets) /\ k + 1 - 1 = k
  BY <1>1, <1>2
<1>4. Arriving(Behind(k + 1 - 1), "flag", Opening(k + 1))
  BY <1>1, <1>3, FlagsOfFrame
<1> QED
  BY <1>3, <1>4

(* Before the loss nothing is missing.                                      *)
LEMMA Exactly ==
  ASSUME ~dropped, SameStream, received' = received, NEW k, ReceivedTo(k)
  PROVE  received' = First(k)' /\ ReceivedTo(k)'
<1>1. First(k)' = First(k)
  BY PlacesFixed
<1> QED
  BY <1>1 DEF ReceivedTo

(* Between two frames a byte arrives, or is lost.                           *)
LEMMA BetweenMoves ==
  ASSUME StreamInv, NEW k \in 0..Len(packets), BetweenAt(k), ByteArrives PROVE StreamPlace'
<1>1. wire = Behind(k) /\ ReceivedTo(k) /\ parser = ParserState(EveryFlag /\ k > 0, FALSE, <<>>)
      /\ wire # <<>>
  BY DEF BetweenAt, ByteArrives
<1>2. k + 1 \in 1..Len(packets) /\ Arriving(wire, "flag", Opening(k + 1)) /\ k + 1 - 1 = k
  BY <1>1, NextPacket
<1>3. /\ SameStream /\ wire' = Opening(k + 1) /\ dropped' = dropped /\ received' = HandedOver
      /\ parser' = ParserState(EveryFlag \/ ~parser.in, FALSE, <<>>)
  BY <1>2, FlagStep
<1>4. parser.in = (EveryFlag /\ k > 0) /\ parser.buf = <<>>
  BY <1>1 DEF ParserState
<1>5. received' = received
  BY <1>3, <1>4 DEF HandedOver
<1>6. (EveryFlag \/ ~parser.in) = TRUE
  BY <1>4
<1>7. parser' = ParserState(TRUE, FALSE, <<>>)
  BY <1>3, <1>6
<1>8. ReceivedTo(k)'
  BY <1>1, <1>3, <1>5, ReceivedFixed
<1> QED
  <2> DEFINE m == k + 1
  <2>1. m \in 1..Len(packets) /\ wire' = Opening(m) /\ m - 1 = k
    BY <1>2, <1>3
  <2> HIDE DEF m
  <2>2. ReceivedTo(m - 1)'
    BY <1>8, <2>1
  <2> QED
    BY <1>3, <1>7, <2>1, <2>2, FrameOpens

LEMMA BetweenLosesOne ==
  ASSUME StreamInv, NEW k \in 0..Len(packets), BetweenAt(k), ByteDropped PROVE StreamPlace'
<1>1. wire = Behind(k) /\ ReceivedTo(k) /\ parser = ParserState(EveryFlag /\ k > 0, FALSE, <<>>)
      /\ wire # <<>>
  BY DEF BetweenAt, ByteDropped
<1>2. k + 1 \in 1..Len(packets) /\ Arriving(wire, "flag", Opening(k + 1)) /\ k + 1 - 1 = k
  BY <1>1, NextPacket
<1>3. /\ SameStream /\ wire' = Opening(k + 1) /\ ~dropped /\ dropped' /\ received' = received
      /\ parser' = parser
  BY <1>2, LossStep
<1>4. received' = First(k)' /\ ReceivedTo(k)'
  BY <1>1, <1>3, Exactly
<1>5. /\ (EveryFlag' <=> EveryFlag) /\ packets' = packets /\ framing' = framing
      /\ Begun(k + 1)' = Begun(k + 1) /\ Body(k + 1, 0)' = Body(k + 1, 0)
  BY <1>3, PlacesFixed DEF SameStream
<1>6. CASE ~EveryFlag
  BY <1>3, <1>5, <1>6 DEF StreamPlace
<1>7. CASE EveryFlag /\ k > 0
  <2>1. parser' = ParserState(TRUE, FALSE, <<>>)
    <3>1. (EveryFlag /\ k > 0) = TRUE
      BY <1>7
    <3> QED
      BY <1>1, <1>3, <3>1
  <2> QED
    BY <1>2, <1>3, <1>4, <2>1, FrameOpens
<1>8. CASE EveryFlag /\ ~(k > 0)
  <2>1. Broken(k + 1)'
    BY <1>2, <1>3, <1>4, <1>5, <1>8 DEF Broken
  <2>2. WithinAt(k + 1)'
    <3>1. 0 \in 0..Len(packets[k + 1])
      BY <1>2, FramesTyped, LenProperties DEF StreamInv
    <3> QED
      BY <1>3, <1>5, <3>1 DEF WithinAt, Opening
  <2> QED
    BY <1>2, <1>5, <2>1, <2>2 DEF StreamPlace
<1> QED
  BY <1>6, <1>7, <1>8

(* Within a frame a byte arrives.                                           *)
LEMMA BegunMoves ==
  ASSUME StreamInv, NEW k \in 1..Len(packets), BegunAt(k), ByteArrives PROVE StreamPlace'
<1>1. /\ framing = "kiss" /\ wire = Begun(k) /\ ReceivedTo(k - 1)
      /\ parser = ParserState(TRUE, FALSE, <<>>)
  BY DEF BegunAt
<1>2. Arriving(wire, "cmd", Body(k, 0))
  BY <1>1, FlagsOfFrame DEF StreamInv
<1>3. /\ SameStream /\ wire' = Body(k, 0) /\ dropped' = dropped /\ received' = received
      /\ parser' = ByteTaken("cmd")
  BY <1>2, ByteStep
<1>4. /\ packets' = packets /\ Body(k, 0)' = Body(k, 0) /\ Buf(k, 0)' = Buf(k, 0)
  BY <1>3, PlacesFixed DEF SameStream
<1>5. Buf(k, 0) = <<"cmd">>
  BY <1>1, BufIs DEF StreamInv, Command
<1>6. ByteTaken("cmd") = ParserState(TRUE, FALSE, <<"cmd">>)
  <2>1. Append(<<>>, "cmd") = <<"cmd">>
    OBVIOUS
  <2> QED
    BY <1>1, <2>1 DEF ByteTaken, ParserState
<1>7. ReceivedTo(k - 1)'
  BY <1>1, <1>3, ReceivedFixed
<1>8. BodyAt(k, 0)'
  BY <1>3, <1>4, <1>5, <1>6, <1>7 DEF BodyAt
<1>9. 0 \in 0..Len(packets[k])
  BY FramesTyped, LenProperties DEF StreamInv
<1> QED
  BY <1>4, <1>8, <1>9 DEF StreamPlace

LEMMA BodyMoves ==
  ASSUME StreamInv, NEW k \in 1..Len(packets), NEW j \in 0..Len(packets[k]), BodyAt(k, j),
         ByteArrives
  PROVE  StreamPlace'
<1> DEFINE n == Len(packets[k])
<1>1. wire = Body(k, j) /\ ReceivedTo(k - 1) /\ parser = ParserState(TRUE, FALSE, Buf(k, j))
  BY DEF BodyAt
<1>2. StreamTyped /\ n \in Nat
  BY FramesTyped, LenProperties DEF StreamInv
<1>3. CASE j = n
  <2>1. Arriving(wire, "flag", Behind(k))
    BY <1>1, <1>2, <1>3, BodyTyped, FlagsOfFrame
  <2>2. /\ SameStream /\ wire' = Behind(k) /\ dropped' = dropped /\ received' = HandedOver
        /\ parser' = ParserState(EveryFlag \/ ~parser.in, FALSE, <<>>)
    BY <2>1, FlagStep
  <2>3. parser.in = TRUE /\ parser.buf = Buf(k, n)
    BY <1>1, <1>3 DEF ParserState
  <2>4. received' = Append(received, packets[k])
    BY <1>2, <2>2, <2>3, BufIs DEF HandedOver
  <2>5. ReceivedTo(k)'
    BY <1>1, <2>2, <2>4, ReceivedOneMore
  <2>6. packets' = packets /\ Behind(k)' = Behind(k) /\ (EveryFlag' <=> EveryFlag)
    BY <2>2, PlacesFixed DEF SameStream
  <2>7. k \in 0..Len(packets) /\ k > 0
    BY <1>2, PacketsTyped
  <2>8. (EveryFlag \/ ~parser.in) = (EveryFlag' /\ k > 0)
    BY <2>3, <2>6, <2>7
  <2>9. BetweenAt(k)'
    BY <2>2, <2>5, <2>6, <2>8 DEF BetweenAt
  <2> QED
    BY <2>6, <2>7, <2>9 DEF StreamPlace
<1>4. CASE j # n
  <2> DEFINE i == j + 1
  <2>1. i \in 1..n /\ i - 1 = j /\ i \in 0..n
    BY <1>2, <1>4
  <2> HIDE DEF i, n
  <2>2. Buf(k, i) = Append(Buf(k, j), packets[k][i])
    BY <1>2, <2>1, BufIs DEF n
  <2>3. /\ Escaped(k, i) => Arriving(wire, "esc", Half(k, i))
        /\ ~Escaped(k, i) => Arriving(wire, packets[k][i], Body(k, i))
    BY <1>1, <1>2, <2>1, BytesOfBody DEF n
  <2>4. CASE Escaped(k, i)
    <3>1. /\ SameStream /\ wire' = Half(k, i) /\ dropped' = dropped /\ received' = received
          /\ parser' = ByteTaken("esc")
      BY <2>3, <2>4, ByteStep
    <3>2. ByteTaken("esc") = ParserState(TRUE, TRUE, Buf(k, j))
      BY <1>1 DEF ByteTaken, ParserState
    <3>3. /\ packets' = packets /\ Half(k, i)' = Half(k, i) /\ Buf(k, j)' = Buf(k, j)
          /\ Escaped(k, i)'
      BY <2>4, <3>1, PlacesFixed DEF SameStream
    <3>4. ReceivedTo(k - 1)'
      BY <1>1, <3>1, ReceivedFixed
    <3>5. HalfAt(k, i)'
      BY <2>1, <3>1, <3>2, <3>3, <3>4 DEF HalfAt
    <3> QED
      BY <2>1, <3>3, <3>5 DEF StreamPlace, n
  <2>5. CASE ~Escaped(k, i)
    <3>0. packets[k][i] # "flag" /\ packets[k][i] # "esc"
      BY <2>5 DEF Escaped
    <3>1. /\ SameStream /\ wire' = Body(k, i) /\ dropped' = dropped /\ received' = received
          /\ parser' = ByteTaken(packets[k][i])
      BY <2>3, <2>5, <3>0, ByteStep
    <3>2. ByteTaken(packets[k][i]) = ParserState(TRUE, FALSE, Append(Buf(k, j), packets[k][i]))
      BY <1>1, <3>0 DEF ByteTaken, ParserState
    <3>3. /\ packets' = packets /\ Body(k, i)' = Body(k, i) /\ Buf(k, i)' = Buf(k, i)
      BY <3>1, PlacesFixed DEF SameStream
    <3>4. ReceivedTo(k - 1)'
      BY <1>1, <3>1, ReceivedFixed
    <3>5. BodyAt(k, i)'
      BY <2>2, <3>1, <3>2, <3>3, <3>4 DEF BodyAt
    <3> QED
      BY <2>1, <3>3, <3>5 DEF StreamPlace, n
  <2> QED
    BY <2>4, <2>5
<1> QED
  BY <1>3, <1>4

LEMMA HalfMoves ==
  ASSUME StreamInv, NEW k \in 1..Len(packets), NEW j \in 1..Len(packets[k]), HalfAt(k, j),
         ByteArrives
  PROVE  StreamPlace'
<1>1. /\ Escaped(k, j) /\ wire = Half(k, j) /\ ReceivedTo(k - 1)
      /\ parser = ParserState(TRUE, TRUE, Buf(k, j - 1))
  BY DEF HalfAt
<1>2. Arriving(wire, Second(k, j), Body(k, j))
  BY <1>1, BytesOfBody DEF StreamInv
<1>3. Second(k, j) # "flag" /\ Unescape(framing, Second(k, j)) = packets[k][j]
  BY <1>1 DEF Second, Unescape, Escaped
<1>4. /\ SameStream /\ wire' = Body(k, j) /\ dropped' = dropped /\ received' = received
      /\ parser' = ByteTaken(Second(k, j))
  BY <1>2, <1>3, ByteStep
<1>5. ByteTaken(Second(k, j)) = ParserState(TRUE, FALSE, Append(Buf(k, j - 1), packets[k][j]))
  BY <1>1, <1>3 DEF ByteTaken, ParserState
<1>6. Buf(k, j) = Append(Buf(k, j - 1), packets[k][j])
  BY BufIs DEF StreamInv
<1>7. packets' = packets /\ Body(k, j)' = Body(k, j) /\ Buf(k, j)' = Buf(k, j)
  BY <1>4, PlacesFixed DEF SameStream
<1>8. ReceivedTo(k - 1)'
  BY <1>1, <1>4, ReceivedFixed
<1>9. BodyAt(k, j)'
  BY <1>4, <1>5, <1>6, <1>7, <1>8 DEF BodyAt
<1>10. j \in 0..Len(packets[k])
  BY FramesTyped, LenProperties DEF StreamInv
<1> QED
  BY <1>7, <1>9, <1>10 DEF StreamPlace

(* A byte lost inside a frame.                                              *)
LEMMA WithinLoses ==
  ASSUME StreamInv, NEW k \in 1..Len(packets), SameStream, ~dropped, dropped', received' = received,
         ReceivedTo(k - 1), WithinAt(k)'
  PROVE  StreamPlace'
<1>1. received' = First(k - 1)'
  BY Exactly
<1>2. (EveryFlag' <=> EveryFlag) /\ packets' = packets
  BY PlacesFixed DEF SameStream
<1>3. CASE EveryFlag
  <2>1. Broken(k)'
    BY <1>1, <1>2, <1>3 DEF Broken
  <2> QED
    BY <1>2, <2>1 DEF StreamPlace
<1>4. CASE ~EveryFlag
  BY <1>2, <1>4 DEF StreamPlace
<1> QED
  BY <1>3, <1>4

LEMMA BegunLosesOne ==
  ASSUME StreamInv, NEW k \in 1..Len(packets), BegunAt(k), ByteDropped PROVE StreamPlace'
<1>1. framing = "kiss" /\ wire = Begun(k) /\ ReceivedTo(k - 1)
  BY DEF BegunAt
<1>2. Arriving(wire, "cmd", Body(k, 0))
  BY <1>1, FlagsOfFrame DEF StreamInv
<1>3. SameStream /\ wire' = Body(k, 0) /\ ~dropped /\ dropped' /\ received' = received
  BY <1>2, LossStep
<1>4. packets' = packets /\ Body(k, 0)' = Body(k, 0)
  BY <1>3, PlacesFixed DEF SameStream
<1>5. WithinAt(k)'
  <2>1. 0 \in 0..Len(packets[k])
    BY FramesTyped, LenProperties DEF StreamInv
  <2> QED
    BY <1>3, <1>4, <2>1 DEF WithinAt
<1> QED
  BY <1>1, <1>3, <1>5, WithinLoses

LEMMA HalfLosesOne ==
  ASSUME StreamInv, NEW k \in 1..Len(packets), NEW j \in 1..Len(packets[k]), HalfAt(k, j),
         ByteDropped
  PROVE  StreamPlace'
<1>1. Escaped(k, j) /\ wire = Half(k, j) /\ ReceivedTo(k - 1)
  BY DEF HalfAt
<1>2. Arriving(wire, Second(k, j), Body(k, j))
  BY <1>1, BytesOfBody DEF StreamInv
<1>3. SameStream /\ wire' = Body(k, j) /\ ~dropped /\ dropped' /\ received' = received
  BY <1>2, LossStep
<1>4. packets' = packets /\ Body(k, j)' = Body(k, j)
  BY <1>3, PlacesFixed DEF SameStream
<1>5. WithinAt(k)'
  <2>1. j \in 0..Len(packets[k])
    BY FramesTyped, LenProperties DEF StreamInv
  <2> QED
    BY <1>3, <1>4, <2>1 DEF WithinAt
<1> QED
  BY <1>1, <1>3, <1>5, WithinLoses

LEMMA BodyLosesOne ==
  ASSUME StreamInv, NEW k \in 1..Len(packets), NEW j \in 0..Len(packets[k]), BodyAt(k, j),
         ByteDropped
  PROVE  StreamPlace'
<1> DEFINE n == Len(packets[k])
<1>1. wire = Body(k, j) /\ ReceivedTo(k - 1) /\ parser = ParserState(TRUE, FALSE, Buf(k, j))
  BY DEF BodyAt
<1>2. StreamTyped /\ n \in Nat
  BY FramesTyped, LenProperties DEF StreamInv
<1>3. CASE j = n
  <2>1. Arriving(wire, "flag", Behind(k))
    BY <1>1, <1>2, <1>3, BodyTyped, FlagsOfFrame
  <2>2. /\ SameStream /\ wire' = Behind(k) /\ ~dropped /\ dropped' /\ received' = received
        /\ parser' = parser
    BY <2>1, LossStep
  <2>3. received' = First(k - 1)'
    BY <1>1, <2>2, Exactly
  <2>4. /\ packets' = packets /\ Behind(k)' = Behind(k) /\ (EveryFlag' <=> EveryFlag)
        /\ Buf(k, n)' = Buf(k, n)
    BY <2>2, PlacesFixed DEF SameStream
  <2>5. CASE EveryFlag
    <3>1. UnclosedAt(k)'
      BY <1>1, <1>3, <2>2, <2>3, <2>4, <2>5 DEF UnclosedAt, Broken
    <3> QED
      BY <2>4, <3>1 DEF StreamPlace
  <2>6. CASE ~EveryFlag
    BY <2>2, <2>4, <2>6 DEF StreamPlace
  <2> QED
    BY <2>5, <2>6
<1>4. CASE j # n
  <2> DEFINE i == j + 1
  <2>1. i \in 1..n /\ i - 1 = j /\ i \in 0..n
    BY <1>2, <1>4
  <2> HIDE DEF i, n
  <2>2. \E b : \/ Escaped(k, i) /\ Arriving(wire, b, Half(k, i))
               \/ Arriving(wire, b, Body(k, i))
    BY <1>1, <1>2, <2>1, BytesOfBody DEF n
  <2>3. /\ SameStream /\ ~dropped /\ dropped' /\ received' = received
        /\ \/ Escaped(k, i) /\ wire' = Half(k, i)
           \/ wire' = Body(k, i)
    BY <2>2, LossStep
  <2>4. /\ packets' = packets /\ Body(k, i)' = Body(k, i) /\ Half(k, i)' = Half(k, i)
        /\ (Escaped(k, i)' <=> Escaped(k, i))
    BY <2>3, PlacesFixed DEF SameStream
  <2>5. WithinAt(k)'
    BY <2>1, <2>3, <2>4 DEF WithinAt, n
  <2> QED
    BY <1>1, <2>3, <2>5, WithinLoses
<1> QED
  BY <1>3, <1>4

(* In a packet that lost a byte, until its closing flag.                    *)
LEMMA WithinMoves ==
  ASSUME StreamInv, NEW k \in 1..Len(packets), Broken(k), WithinAt(k), ByteArrives
  PROVE  StreamPlace'
<1>1. StreamTyped
  BY DEF StreamInv
<1>2. ASSUME NEW b, NEW w, b # "flag", Arriving(wire, b, w),
             \/ \E i \in 0..Len(packets[k]) : w = Body(k, i)
             \/ \E i \in 1..Len(packets[k]) : Escaped(k, i) /\ w = Half(k, i)
      PROVE  StreamPlace'
  <2>1. SameStream /\ wire' = w /\ dropped' = dropped /\ received' = received
    BY <1>2, ByteStep
  <2>2. /\ packets' = packets /\ First(k - 1)' = First(k - 1) /\ (EveryFlag' <=> EveryFlag)
        /\ \A i : Body(k, i)' = Body(k, i)
        /\ \A i : Half(k, i)' = Half(k, i) /\ (Escaped(k, i)' <=> Escaped(k, i))
    BY <2>1, PlacesFixed DEF SameStream
  <2>3. Broken(k)'
    BY <2>1, <2>2 DEF Broken
  <2>4. WithinAt(k)'
    <3>1. CASE \E i \in 0..Len(packets[k]) : w = Body(k, i)
      BY <2>1, <2>2, <3>1 DEF WithinAt
    <3>2. CASE \E i \in 1..Len(packets[k]) : Escaped(k, i) /\ w = Half(k, i)
      BY <2>1, <2>2, <3>2 DEF WithinAt
    <3> QED
      BY <1>2, <3>1, <3>2
  <2> QED
    BY <2>2, <2>3, <2>4 DEF StreamPlace
<1>3. CASE framing = "kiss" /\ wire = Begun(k)
  <2>1. Arriving(wire, "cmd", Body(k, 0))
    BY <1>1, <1>3, FlagsOfFrame
  <2>2. 0 \in 0..Len(packets[k])
    BY <1>1, FramesTyped, LenProperties
  <2> QED
    BY <1>2, <2>1, <2>2
<1>4. ASSUME NEW j \in 0..Len(packets[k]), wire = Body(k, j) PROVE StreamPlace'
  <2> DEFINE n == Len(packets[k])
  <2>0. n \in Nat
    BY <1>1, FramesTyped, LenProperties
  <2>1. CASE j = n
    <3>1. Arriving(wire, "flag", Behind(k))
      BY <1>1, <1>4, <2>1, BodyTyped, FlagsOfFrame
    <3>2. /\ SameStream /\ wire' = Behind(k) /\ dropped' = dropped /\ received' = HandedOver
          /\ parser' = ParserState(EveryFlag \/ ~parser.in, FALSE, <<>>)
      BY <3>1, FlagStep
    <3>3. ReceivedTo(k)'
      BY <3>2, ReceivedSpoiled
    <3>4. packets' = packets /\ Behind(k)' = Behind(k) /\ (EveryFlag' <=> EveryFlag)
      BY <3>2, PlacesFixed DEF SameStream
    <3>5. k \in 0..Len(packets) /\ k > 0
      BY <1>1, PacketsTyped
    <3>6. (EveryFlag \/ ~parser.in) = (EveryFlag' /\ k > 0)
      BY <3>4, <3>5 DEF Broken
    <3>7. BetweenAt(k)'
      BY <3>2, <3>3, <3>4, <3>6 DEF BetweenAt
    <3> QED
      BY <3>4, <3>5, <3>7 DEF StreamPlace
  <2>2. CASE j # n
    <3> DEFINE i == j + 1
    <3>1. i \in 1..n /\ i - 1 = j /\ i \in 0..n
      BY <2>0, <2>2
    <3> HIDE DEF i
    <3>2. /\ Escaped(k, i) => Arriving(wire, "esc", Half(k, i))
          /\ ~Escaped(k, i) => Arriving(wire, packets[k][i], Body(k, i))
      BY <1>1, <1>4, <3>1, BytesOfBody
    <3>3. CASE Escaped(k, i)
      BY <1>2, <3>1, <3>2, <3>3
    <3>4. CASE ~Escaped(k, i)
      <4>1. packets[k][i] # "flag"
        BY <3>4 DEF Escaped
      <4> QED
        BY <1>2, <3>1, <3>2, <3>4, <4>1
    <3> QED
      BY <3>3, <3>4
  <2> QED
    BY <2>1, <2>2
<1>5. ASSUME NEW j \in 1..Len(packets[k]), Escaped(k, j), wire = Half(k, j) PROVE StreamPlace'
  <2>1. Arriving(wire, Second(k, j), Body(k, j)) /\ Second(k, j) # "flag"
    BY <1>1, <1>5, BytesOfBody DEF Second
  <2>2. j \in 0..Len(packets[k])
    BY <1>1, FramesTyped, LenProperties
  <2> QED
    BY <1>2, <2>1, <2>2
<1> QED
  BY <1>3, <1>4, <1>5 DEF WithinAt

(* The next frame's first flag closes the one whose own was lost.           *)
LEMMA UnclosedMoves ==
  ASSUME StreamInv, NEW k \in 1..Len(packets), UnclosedAt(k), ByteArrives PROVE StreamPlace'
<1>1. /\ Broken(k) /\ wire = Behind(k) /\ wire # <<>>
      /\ parser = ParserState(TRUE, FALSE, Buf(k, Len(packets[k])))
  BY DEF UnclosedAt, ByteArrives
<1>2. k \in 0..Len(packets) /\ StreamTyped
  BY PacketsTyped DEF StreamInv
<1> DEFINE m == k + 1
<1>3. m \in 1..Len(packets) /\ Arriving(wire, "flag", Opening(m)) /\ m - 1 = k
  BY <1>1, <1>2, NextPacket
<1> HIDE DEF m
<1>4. /\ SameStream /\ wire' = Opening(m) /\ dropped' = dropped /\ received' = HandedOver
      /\ parser' = ParserState(EveryFlag \/ ~parser.in, FALSE, <<>>)
  BY <1>3, FlagStep
<1>5. received' = Append(received, packets[k])
  BY <1>1, <1>2, <1>4, BufIs DEF HandedOver, ParserState
<1>6. ReceivedTo(k)'
  <2>1. received' = First(k)
    BY <1>1, <1>2, <1>5, PacketSlices DEF Broken
  <2> QED
    BY <1>4, <2>1, PlacesFixed DEF ReceivedTo
<1>7. (EveryFlag \/ ~parser.in) = TRUE
  BY <1>1 DEF Broken
<1>8. parser' = ParserState(TRUE, FALSE, <<>>)
  BY <1>4, <1>7
<1>9. ReceivedTo(m - 1)'
  BY <1>3, <1>6
<1> QED
  BY <1>3, <1>4, <1>8, <1>9, FrameOpens

LEMMA PlaceNext == FramingInv /\ [FramingNext]_framingVars => StreamPlace'
<1> SUFFICES ASSUME FramingInv, [FramingNext]_framingVars PROVE StreamPlace'
  OBVIOUS
<1>1. StreamInv /\ StreamPlace
  BY DEF FramingInv
<1>2. CASE dropped /\ ~EveryFlag
  BY <1>2 DEF FramingNext, ByteArrives, ByteDropped, framingVars, StreamPlace, EveryFlag
<1>3. CASE ByteArrives
  BY <1>1, <1>2, <1>3, BetweenMoves, BegunMoves, BodyMoves, HalfMoves, WithinMoves, UnclosedMoves
     DEF StreamPlace
<1>4. CASE ByteDropped
  <2>1. ~dropped
    BY <1>4 DEF ByteDropped
  <2> QED
    BY <1>1, <1>4, <2>1, BetweenLosesOne, BegunLosesOne, BodyLosesOne, HalfLosesOne
       DEF StreamPlace, Broken, UnclosedAt
<1>5. CASE UNCHANGED framingVars
  <2>1. SameStream /\ wire' = wire /\ received' = received /\ parser' = parser /\ dropped' = dropped
    BY <1>5 DEF framingVars, SameStream
  <2>2. StreamPlace' <=> StreamPlace
    BY <1>5 DEF framingVars, StreamPlace, BetweenAt, BegunAt, BodyAt, HalfAt, Broken, WithinAt,
       UnclosedAt, ReceivedTo, Missing, Behind, SentFrames, Begun, First, Body, Half, Buf, Escaped,
       Later, EveryFlag, Second, Command
  <2> QED
    BY <1>1, <2>2
<1> QED
  BY <1>3, <1>4, <1>5 DEF FramingNext

(* At first nothing has passed.                                             *)
LEMMA FramingBegins == FramingInit => FramingInv
<1> SUFFICES ASSUME FramingInit PROVE FramingInv
  OBVIOUS
<1>1. packets \in Seq(NonEmpty)
  <2>1. SeqOf(Bytes, MaxBytes) \ {<<>>} \subseteq NonEmpty
    BY SeqDef DEF SeqOf, NonEmpty
  <2>2. packets \in Seq(SeqOf(Bytes, MaxBytes) \ {<<>>})
    BY SeqDef DEF FramingInit, SeqOf
  <2> QED
    BY <2>1, <2>2, SeqMonotonic
<1>2. StreamTyped
  BY <1>1 DEF FramingInit, StreamTyped
<1>3. wire = Behind(0)
  BY <1>2, StreamBegins DEF FramingInit
<1>4. 0 \in 0..Len(packets)
  BY <1>2, PacketsTyped
<1>5. StreamInv
  <2>1. wire \in Seq(Octets)
    BY <1>2, <1>3, <1>4, BehindTyped
  <2>2. <<>> \in Seq(Contents) /\ <<>> \in Contents
    BY DEF Contents
  <2> QED
    BY <1>2, <2>1, <2>2 DEF FramingInit, StreamInv, Idle
<1>6. BetweenAt(0)
  <2>1. First(0) = <<>>
    BY <1>2, PacketSlices
  <2>2. (EveryFlag /\ 0 > 0) = FALSE
    OBVIOUS
  <2> QED
    BY <1>3, <2>1, <2>2 DEF FramingInit, BetweenAt, ReceivedTo, Idle, ParserState
<1> QED
  BY <1>4, <1>5, <1>6 DEF FramingInv, StreamPlace

(* A sequence of one.                                                       *)
LEMMA OneElement ==
  ASSUME NEW S, NEW z \in Seq(S), Len(z) = 1 PROVE \E y \in S : z = <<y>>
<1>1. z[1] \in S
  BY ElementOfSeq, SMTT(20)
<1>2. <<z[1]>> \in Seq(S) /\ Len(<<z[1]>>) = 1 /\ <<z[1]>>[1] = z[1]
  BY <1>1
<1>3. z = <<z[1]>>
  BY <1>2, SeqEqual
<1> QED
  BY <1>1, <1>3

(* When the stream has ended, all are received, or all but one.             *)
LEMMA PlaceHolds == FramingInv => OneLossSpoilsOne
<1> SUFFICES ASSUME FramingInv, wire = <<>> PROVE OneLossSpoilsOne
  BY DEF OneLossSpoilsOne
<1>1. StreamInv /\ StreamPlace /\ StreamTyped
  BY DEF FramingInv, StreamInv
<1> DEFINE n == Len(packets)
<1>2. n \in Nat
  BY <1>1, PacketsTyped
<1>3. \A k \in 1..n : Behind(k - 1) # <<>> /\ Begun(k) # <<>> /\ EndOf(k) # <<>>
  BY <1>1, FlagsOfFrame DEF Arriving
<1>4. \A k \in 1..n : \A j \in 1..Len(packets[k]) :
        Body(k, j - 1) # <<>> /\ (Escaped(k, j) => Half(k, j) # <<>>)
  BY <1>1, BytesOfBody DEF Arriving
<1>5. \A k \in 1..n : \A j \in 0..Len(packets[k]) : Body(k, j) # <<>>
  <2> TAKE k \in 1..n
  <2> TAKE j \in 0..Len(packets[k])
  <2>1. Len(packets[k]) \in Nat
    BY <1>1, FramesTyped, LenProperties
  <2>2. CASE j = Len(packets[k])
    BY <1>1, <1>3, <2>2, BodyTyped
  <2>3. CASE j # Len(packets[k])
    <3>1. j + 1 \in 1..Len(packets[k]) /\ j + 1 - 1 = j
      BY <2>1, <2>3
    <3> QED
      BY <1>4, <3>1
  <2> QED
    BY <2>2, <2>3
<1>6. \A k \in 0..n : Behind(k) = <<>> => k = n
  <2> SUFFICES ASSUME NEW k \in 0..n, Behind(k) = <<>>, k # n PROVE FALSE
    OBVIOUS
  <2>1. k + 1 \in 1..n /\ k + 1 - 1 = k
    BY <1>2
  <2> QED
    BY <1>3, <2>1
<1>7. \/ dropped /\ ~EveryFlag
      \/ ReceivedTo(n)
      \/ n \in 1..n /\ Broken(n)
  <2>1. \A k \in 1..n : k \in 0..n
    BY <1>2
  <2>2. ASSUME NEW k \in 0..n, BetweenAt(k) PROVE ReceivedTo(n)
    BY <1>6, <2>2 DEF BetweenAt
  <2>3. ASSUME NEW k \in 1..n, BegunAt(k) PROVE FALSE
    BY <1>3, <2>3 DEF BegunAt
  <2>4. ASSUME NEW k \in 1..n, NEW j \in 0..Len(packets[k]), BodyAt(k, j) PROVE FALSE
    BY <1>5, <2>4 DEF BodyAt
  <2>5. ASSUME NEW k \in 1..n, NEW j \in 1..Len(packets[k]), HalfAt(k, j) PROVE FALSE
    BY <1>4, <2>5 DEF HalfAt
  <2>6. ASSUME NEW k \in 1..n, WithinAt(k) PROVE FALSE
    BY <1>3, <1>4, <1>5, <2>6 DEF WithinAt
  <2>7. ASSUME NEW k \in 1..n, UnclosedAt(k) PROVE n \in 1..n /\ Broken(n)
    BY <1>6, <2>1, <2>7 DEF UnclosedAt
  <2>8. CASE \E k \in 1..n : \E j \in 0..Len(packets[k]) : BodyAt(k, j)
    BY <2>4, <2>8
  <2>9. CASE \E k \in 1..n : \E j \in 1..Len(packets[k]) : HalfAt(k, j)
    BY <2>5, <2>9
  <2>10. CASE \/ \E k \in 0..n : BetweenAt(k)
              \/ \E k \in 1..n : BegunAt(k) \/ (Broken(k) /\ WithinAt(k)) \/ UnclosedAt(k)
    BY <2>2, <2>3, <2>6, <2>7, <2>10
  <2> QED
    BY <1>1, <2>8, <2>9, <2>10 DEF StreamPlace
<1>8. CASE dropped /\ ~EveryFlag
  BY <1>1, <1>8 DEF OneLossSpoilsOne, EveryFlag, StreamTyped, Framings
<1>9. CASE received = First(n)
  BY <1>1, <1>9, PacketSlices DEF OneLossSpoilsOne
<1>10. /\ DOMAIN packets = 1..n
       /\ \A i \in 1..n : /\ First(i - 1) = SubSeq(packets, 1, i - 1)
                          /\ Later(i, n) = SubSeq(packets, i + 1, Len(packets))
  BY <1>1, LenProperties DEF First, Later, StreamTyped
<1>11. CASE n \in 1..n /\ Broken(n)
  <2>1. Later(n, n) = <<>> /\ First(n - 1) \in Seq(Contents)
    <3>1. n \in 0..n /\ n >= n /\ n - 1 \in 0..n
      BY <1>2, <1>11
    <3> QED
      BY <1>1, <1>2, <3>1, PacketSlices
  <2>2. received = First(n - 1) \o Later(n, n)
    BY <1>11, <2>1, ConcatEmptySeq DEF Broken
  <2> QED
    BY <1>10, <1>11, <2>2 DEF OneLossSpoilsOne, Broken, EveryFlag
<1>12. CASE dropped /\ EveryFlag /\ Missing(n)
  <2>1. PICK i \in 1..n, z \in Seq(Contents) :
          Len(z) <= 1 /\ received = First(i - 1) \o (z \o Later(i, n))
    BY <1>12 DEF Missing
  <2> DEFINE b == First(i - 1)
             t == Later(i, n)
  <2>2. /\ b \in Seq(Contents) /\ t \in Seq(Contents) /\ Len(b) = i - 1 /\ Len(t) = n - i
    <3>1. /\ i - 1 \in 0..n /\ i \in Nat /\ n \in 0..n /\ i - 1 \in Int /\ i + 1 \in Int
          /\ n \in Int
      BY <1>2
    <3>2. b \in Seq(Contents) /\ t \in Seq(Contents)
      BY <1>1, <3>1, PacketSlices
    <3>3. packets \in Seq(Contents) /\ \A m \in 1..n : packets[m] \in Contents
      BY <1>1, PacketsTyped
    <3>4. Len(b) = IF 1 <= i - 1 THEN i - 1 - 1 + 1 ELSE 0
      <4>1. \A m \in 1..(i - 1) : packets[m] \in Contents
        BY <1>2, <3>3
      <4> QED
        BY <3>1, <4>1, SubSeqProperties DEF First
    <3>5. Len(t) = IF i + 1 <= n THEN n - (i + 1) + 1 ELSE 0
      <4>1. \A m \in (i + 1)..n : packets[m] \in Contents
        BY <1>2, <3>3
      <4> QED
        BY <3>1, <4>1, SubSeqProperties DEF Later
    <3> QED
      BY <1>2, <3>2, <3>4, <3>5
  <2>3. CASE Len(z) = 0
    <3>1. z = <<>>
      BY <2>3, EmptySeq
    <3>2. <<>> \o t = t
      BY <2>2, ConcatEmptySeq
    <3>3. received = b \o t
      BY <2>1, <3>1, <3>2
    <3> QED
      BY <1>10, <1>12, <3>3 DEF OneLossSpoilsOne, EveryFlag
  <2>4. CASE Len(z) # 0
    <3>1. PICK y : y \in Contents /\ z = <<y>>
      <4> DEFINE l == Len(z)
      <4>1. l \in Nat /\ l <= 1 /\ l # 0
        BY <2>1, <2>4, LenProperties
      <4> HIDE DEF l
      <4>2. l = 1
        BY <4>1
      <4>3. Len(z) = 1
        BY <4>2 DEF l
      <4> QED
        BY <4>3, OneElement
    <3>2. Regrouped(b, <<y>>, t)
      <4>1. <<y>> \in Seq(Contents)
        BY <3>1
      <4> QED
        BY <2>2, <4>1, Grouped
    <3>3. received = b \o <<y>> \o t
      BY <2>1, <3>1, <3>2 DEF Regrouped
    <3>4. received[i] = y /\ Len(received) = n
      <4>1. <<y>> \in Seq(Contents) /\ Len(<<y>>) = 1 /\ <<y>>[1] = y
        BY <3>1
      <4> DEFINE h == b \o <<y>>
      <4>2. /\ h \in Seq(Contents) /\ Len(h) = Len(b) + 1
            /\ \A m \in 1..Len(b) + 1 : h[m] = IF m <= Len(b) THEN b[m] ELSE <<y>>[m - Len(b)]
        BY <2>2, <4>1, ConcatProperties
      <4> HIDE DEF h
      <4>3. /\ Len(received) = Len(h) + Len(t)
            /\ \A m \in 1..Len(h) + Len(t) : received[m] = IF m <= Len(h) THEN h[m]
                                                            ELSE t[m - Len(h)]
        BY <2>2, <3>3, <4>2, ConcatProperties DEF h
      <4> HIDE DEF b, t
      <4>4. /\ Len(h) = i /\ Len(h) + Len(t) = n /\ i \in 1..n /\ i <= Len(h)
            /\ i \in 1..Len(b) + 1 /\ ~(i <= Len(b)) /\ i - Len(b) = 1
        BY <1>2, <2>2, <4>2
      <4> QED
        BY <4>1, <4>2, <4>3, <4>4
    <3> QED
      BY <1>10, <1>12, <3>3, <3>4 DEF OneLossSpoilsOne, EveryFlag
  <2> QED
    BY <2>3, <2>4
<1> QED
  BY <1>7, <1>8, <1>9, <1>11, <1>12 DEF ReceivedTo

LEMMA FramingNextInv == FramingInv /\ [FramingNext]_framingVars => FramingInv'
BY StreamNext, PlaceNext DEF FramingInv

LEMMA FramingInvTyped == FramingInv => FramingTypeOK
BY DEF FramingInv, StreamInv, StreamTyped, NonEmpty, Contents, FramingTypeOK

(* For any packets, whole or with one byte missing, what the parsers hand   *)
(* over is all of what was sent; where every flag begins a frame, a missing *)
(* byte costs or spoils at most the packet it was in, and none behind it    *)
(* (KissParser.feed, HdlcParser.feed).                                      *)
THEOREM LossCorrect == FramingSpec => []OneLossSpoilsOne
  BY FramingBegins, FramingNextInv, PlaceHolds, PTL DEF FramingSpec

(* What is sent, what is on the stream, what the parser has of a frame and  *)
(* what it handed over are sequences of bytes, and it waits for the second  *)
(* byte of an escape only within a frame (the parsers' feed).               *)
THEOREM FramingTyped == FramingSpec => []FramingTypeOK
  BY FramingBegins, FramingNextInv, FramingInvTyped, PTL DEF FramingSpec

(***************************************************************************)
(* The transports. Only writes over BLE are ever under way. What such a     *)
(* write has got out, when no other is under way, is the end of what the    *)
(* device has received.                                                     *)
(***************************************************************************)
WriteRecords == [at : {"no", "under way", "done", "failed"}, out : Nat]

LinkTyped ==
  /\ medium \in {"ble", "serial", "websocket"}
  /\ attempt \in {"no", "opening", "open", "failed"}
  /\ linked \in BOOLEAN /\ handle \in BOOLEAN /\ owed \in BOOLEAN
  /\ told \in {0, 1} /\ (owed \/ told = 1 => ~linked) /\ (owed => told = 0)
  /\ attempt = "no" => ~linked /\ ~owed /\ told = 0
  /\ attempt = "opening" /\ medium # "ble" => ~linked /\ ~owed /\ told = 0

WritesTyped ==
  /\ writing \in [Writes -> WriteRecords] /\ mixed \subseteq Writes
  /\ device \in Seq(Writes \cup {FEND})
  /\ \A w \in Writes : Under(w) => medium = "ble"
  /\ \A v, w \in Writes : v # w /\ Under(v) /\ Under(w) => v \in mixed

(* What write w got out ends what the device has.                           *)
OutAtEnd(w) ==
  /\ writing[w].out < 4 /\ writing[w].out <= Len(device)
  /\ \A k \in 1..writing[w].out :
       device[Len(device) - writing[w].out + k] = BuildFrame(w)[k]

WriteFits(w) ==
  /\ writing[w].at = "no" => writing[w].out = 0
  /\ Under(w) => writing[w].out < 4
  /\ Under(w) /\ w \notin mixed => OutAtEnd(w)
  /\ writing[w].at = "done" /\ w \notin mixed => FrameReceived(w)

TransportInv == LinkTyped /\ WritesTyped /\ \A w \in Writes : WriteFits(w)

LEMMA TransportInvTyped == TransportInv => TransportTypeOK /\ AloneArrives
<1> SUFFICES ASSUME TransportInv PROVE TransportTypeOK /\ AloneArrives
  OBVIOUS
<1>1. linked \in BOOLEAN /\ handle \in BOOLEAN /\ owed \in BOOLEAN
  BY DEF TransportInv, LinkTyped
<1>2. {linked, handle, owed} \subseteq BOOLEAN
  BY <1>1, Zenon
<1>3. told \in 0..1
  BY DEF TransportInv, LinkTyped
<1>4. TransportTypeOK
  BY <1>2, <1>3, Zenon DEF TransportInv, LinkTyped, WritesTyped, TransportTypeOK, WriteRecords
<1> QED
  BY <1>4 DEF TransportInv, WriteFits, AloneArrives

LEMMA Told == 0 \in {0, 1} /\ 1 \in {0, 1} /\ 0 # 1 /\ 0 + 1 = 1
  OBVIOUS

LEMMA TransportInitial == TransportInit => TransportInv
<1> SUFFICES ASSUME TransportInit PROVE TransportInv
  OBVIOUS
<1>1. [at |-> "no", out |-> 0] \in WriteRecords
  BY DEF WriteRecords
<1>2. writing \in [Writes -> WriteRecords]
  BY <1>1 DEF TransportInit
<1>3. \A w \in Writes : writing[w].at = "no" /\ writing[w].out = 0
  BY DEF TransportInit
<1>4. device \in Seq(Writes \cup {FEND})
  BY EmptySeq DEF TransportInit
<1>5. LinkTyped
  BY Told, Zenon DEF TransportInit, LinkTyped
<1>6. WritesTyped
  BY <1>2, <1>3, <1>4 DEF TransportInit, WritesTyped, Under
<1> QED
  BY <1>3, <1>5, <1>6 DEF TransportInv, WriteFits, Under

LEMMA FrameHas ==
  ASSUME NEW w \in Writes
  PROVE  /\ BuildFrame(w) \in Seq(Writes \cup {FEND}) /\ Len(BuildFrame(w)) = 4
         /\ BuildFrame(w)[1] = FEND /\ BuildFrame(w)[2] = w
         /\ BuildFrame(w)[3] = w /\ BuildFrame(w)[4] = FEND
  BY DEF BuildFrame

(* The bytes between two FENDs are a payload.                               *)
LEMMA TwoBytes ==
  ASSUME NEW w, NEW s, NEW i \in Nat, s[i + 1] = w, s[i + 2] = w
  PROVE  SubSeq(s, i + 1, i + 3 - 1) = <<w, w>>
<1>1. PICK a \in Int : a = i + 1
  OBVIOUS
<1>2. PICK b \in Int : b = i + 3 - 1
  OBVIOUS
<1>3. PICK t : t = SubSeq(s, a, b)
  OBVIOUS
<1>4. \A k \in a..b : s[k] \in {w}
  <2>1. \A k \in a..b : k = i + 1 \/ k = i + 2
    BY <1>1, <1>2
  <2> QED
    BY <2>1
<1>5. t \in Seq({w}) /\ Len(t) = IF a <= b THEN b - a + 1 ELSE 0
  BY <1>3, <1>4, SubSeqProperties
<1>6. Len(t) = 2
  BY <1>1, <1>2, <1>5
<1>7. t[1] = w /\ t[2] = w
  <2>1. \A k \in 1..Len(t) : t[k] \in {w}
    BY <1>5, ElementOfSeq
  <2>2. 1 \in 1..Len(t) /\ 2 \in 1..Len(t)
    BY <1>6
  <2> QED
    BY <2>1, <2>2
<1>8. PICK u : u = <<w, w>>
  OBVIOUS
<1>9. u \in Seq({w}) /\ Len(u) = 2 /\ u[1] = w /\ u[2] = w
  BY <1>8
<1>10. t = u
  <2>1. \A k \in 1..Len(t) : t[k] = u[k]
    <3>1. \A k \in 1..Len(t) : k = 1 \/ k = 2
      BY <1>6
    <3> QED
      BY <1>7, <1>9, <3>1
  <2>2. Len(t) = Len(u) /\ t \in Seq({w})
    BY <1>5, <1>6, <1>9
  <2> QED
    BY <1>9, <2>1, <2>2, SeqEqual
<1> QED
  BY <1>1, <1>2, <1>3, <1>8, <1>10

LEMMA WithinFrame ==
  ASSUME NEW w, NEW S, NEW s \in Seq(S), NEW i \in Nat, NEW j \in Nat,
         i \in 1..Len(s), j \in 1..Len(s), i < j,
         SubSeq(s, i + 1, j - 1) = <<w, w>>
  PROVE  j = i + 3 /\ s[i + 1] = w /\ s[i + 2] = w
<1>1. Len(s) \in Nat /\ \A k \in 1..Len(s) : s[k] \in S
  BY LenProperties, ElementOfSeq
<1>2. PICK a \in Int : a = i + 1
  BY <1>1
<1>3. PICK b \in Int : b = j - 1
  BY <1>1
<1>4. \A k \in a..b : s[k] \in S
  <2>1. \A k \in a..b : k \in 1..Len(s)
    BY <1>1, <1>2, <1>3
  <2> QED
    BY <1>1, <2>1
<1>5. PICK t : t = <<w, w>> /\ t = SubSeq(s, a, b)
  BY <1>2, <1>3
<1>6. /\ Len(SubSeq(s, a, b)) = IF a <= b THEN b - a + 1 ELSE 0
      /\ \A k \in 1..b - a + 1 : SubSeq(s, a, b)[k] = s[a + k - 1]
  BY <1>2, <1>3, <1>4, SubSeqProperties
<1>7. Len(t) = 2 /\ t[1] = w /\ t[2] = w
  <2>1. Len(<<w, w>>) = 2 /\ <<w, w>>[1] = w /\ <<w, w>>[2] = w
    OBVIOUS
  <2> QED
    BY <1>5, <2>1
<1>8. b - a + 1 = 2
  <2>1. 2 = IF a <= b THEN b - a + 1 ELSE 0
    BY <1>5, <1>6, <1>7
  <2>2. a <= b
    BY <2>1
  <2> QED
    BY <2>1, <2>2
<1>9. s[a + 1 - 1] = w /\ s[a + 2 - 1] = w
  BY <1>5, <1>6, <1>7, <1>8
<1>10. a + 1 - 1 = i + 1 /\ a + 2 - 1 = i + 2 /\ j = i + 3
  BY <1>1, <1>2, <1>3, <1>8
<1> QED
  BY <1>9, <1>10

(* What the device has got it keeps, when more comes.                       *)
LEMMA ReceivedStays ==
  ASSUME WritesTyped, NEW more \in Seq(Writes \cup {FEND}), device' = device \o more,
         NEW w \in Writes, FrameReceived(w)
  PROVE  FrameReceived(w)'
<1>1. /\ Len(device) \in Nat /\ Len(more) \in Nat /\ Len(device') = Len(device) + Len(more)
      /\ \A i \in 1..Len(device) : device'[i] = device[i]
      /\ DOMAIN device = 1..Len(device) /\ DOMAIN device' = 1..Len(device')
      /\ device' \in Seq(Writes \cup {FEND})
  BY LenProperties, ConcatProperties DEF WritesTyped
<1>2. PICK i, j \in 1..Len(device) :
        /\ i < j /\ device[i] = FEND /\ device[j] = FEND
        /\ SubSeq(device, i + 1, j - 1) = <<w, w>>
  BY <1>1 DEF FrameReceived
<1>3. i \in DOMAIN device' /\ j \in DOMAIN device' /\ device'[i] = FEND /\ device'[j] = FEND
  BY <1>1, <1>2
<1>4. j = i + 3 /\ device[i + 1] = w /\ device[i + 2] = w
  <2>1. i \in Nat /\ j \in Nat
    BY <1>1, <1>2
  <2> QED
    BY <1>2, <2>1, WithinFrame DEF WritesTyped
<1>5. i + 1 \in 1..Len(device) /\ i + 2 \in 1..Len(device)
  BY <1>2, <1>4
<1>6. device'[i + 1] = w /\ device'[i + 2] = w
  BY <1>1, <1>4, <1>5
<1>7. SubSeq(device', i + 1, j - 1) = <<w, w>>
  <2>1. i \in Nat
    BY <1>1, <1>2
  <2>2. PICK s : s = device'
    OBVIOUS
  <2>3. SubSeq(s, i + 1, i + 3 - 1) = <<w, w>>
    BY <1>6, <2>1, <2>2, TwoBytes
  <2> QED
    BY <1>4, <2>2, <2>3
<1> QED
  BY <1>2, <1>3, <1>7 DEF FrameReceived

(* A frame that ends what the device has was received.                      *)
LEMMA FrameAtEnd ==
  ASSUME NEW w \in Writes, NEW s \in Seq(Writes \cup {FEND}), Len(s) >= 4,
         \A k \in 1..4 : s[Len(s) - 4 + k] = BuildFrame(w)[k]
  PROVE  \E i, j \in DOMAIN s :
           /\ i < j /\ s[i] = FEND /\ s[j] = FEND
           /\ SubSeq(s, i + 1, j - 1) = <<w, w>>
<1>1. PICK n \in Nat : Len(s) = n + 4
  <2>1. Len(s) \in Nat
    BY LenProperties
  <2>2. Len(s) - 4 \in Nat /\ Len(s) = (Len(s) - 4) + 4
    BY <2>1
  <2> QED
    BY <2>2
<1>2. s[n + 1] = FEND /\ s[n + 2] = w /\ s[n + 3] = w /\ s[n + 4] = FEND
  <2>1. \A k \in 1..4 : s[n + k] = BuildFrame(w)[k]
    BY <1>1
  <2> QED
    BY <2>1, FrameHas, SMTT(20)
<1>3. n + 1 \in DOMAIN s /\ n + 4 \in DOMAIN s
  BY <1>1, LenProperties
<1>4. PICK i \in Nat : i = n + 1
  OBVIOUS
<1>5. PICK j \in Nat : j = i + 3
  OBVIOUS
<1>6. SubSeq(s, i + 1, j - 1) = <<w, w>>
  <2>1. i + 1 = n + 2 /\ i + 2 = n + 3 /\ j - 1 = i + 3 - 1
    BY <1>4, <1>5
  <2>2. s[i + 1] = w /\ s[i + 2] = w
    BY <1>2, <2>1
  <2>3. SubSeq(s, i + 1, i + 3 - 1) = <<w, w>>
    BY <2>2, TwoBytes
  <2> QED
    BY <2>1, <2>3
<1>7. i < j /\ j = n + 4
  BY <1>4, <1>5
<1>8. i \in DOMAIN s /\ j \in DOMAIN s /\ s[i] = FEND /\ s[j] = FEND
  BY <1>2, <1>3, <1>4, <1>7
<1> QED
  BY <1>6, <1>7, <1>8

(* The link's steps, which no write notices.                                *)
LEMMA LinkStepsWell ==
  ASSUME TransportInv,
         Opens \/ IsOpen \/ OpenFails \/ GoesAway \/ EndIsTold \/ Disconnects
           \/ UNCHANGED transportVars
  PROVE  TransportInv'
<1>1. LinkTyped'
  <2> USE Told DEF TransportInv, LinkTyped
  <2>1. CASE Opens
    <3>1. (medium = "websocket") \in BOOLEAN
      OBVIOUS
    <3>2. /\ attempt = "no" /\ attempt' = "opening" /\ handle' \in BOOLEAN
          /\ linked' = FALSE \/ (medium = "ble" /\ linked' = TRUE)
          /\ medium' = medium /\ owed' = owed /\ told' = told
      BY <2>1, <3>1, Zenon DEF Opens
    <3> QED
      BY <3>2, Zenon
  <2>2. CASE IsOpen
    BY <2>2, Zenon DEF IsOpen
  <2>3. CASE OpenFails
    BY <2>3, Zenon DEF OpenFails
  <2>4. CASE GoesAway
    BY <2>4, Zenon DEF GoesAway
  <2>5. CASE EndIsTold
    <3>1. owed /\ told = 0 /\ ~linked
      BY <2>5, Zenon DEF EndIsTold
    <3>2. /\ told' = 1 /\ owed' = FALSE /\ (handle /\ medium = "serial") \in BOOLEAN
          /\ handle' = (handle /\ medium = "serial")
          /\ medium' = medium /\ attempt' = attempt /\ linked' = linked
      BY <2>5, <3>1, Zenon DEF EndIsTold
    <3>3. ~(attempt = "no") /\ ~(attempt = "opening" /\ medium # "ble")
      BY <3>1, Zenon
    <3> QED
      BY <3>1, <3>2, <3>3, Zenon
  <2>6. CASE Disconnects
    BY <2>6, Zenon DEF Disconnects
  <2>7. CASE UNCHANGED transportVars
    BY <2>7, Zenon DEF transportVars
  <2> QED
    BY <2>1, <2>2, <2>3, <2>4, <2>5, <2>6, <2>7
<1>2. UNCHANGED <<medium, writing, mixed, device>>
  BY DEF Opens, IsOpen, OpenFails, GoesAway, EndIsTold, Disconnects, transportVars, writeVars
<1>3. WritesTyped' /\ \A w \in Writes : WriteFits(w)'
  BY <1>2 DEF TransportInv, WritesTyped, WriteFits, OutAtEnd, FrameReceived, Under
<1> QED
  BY <1>1, <1>3 DEF TransportInv

(* Steps that hand the device nothing, and begin no write.                  *)
LEMMA WriteStopsWell ==
  ASSUME TransportInv, NEW w \in Writes, WriteEnds(w, "failed"), UNCHANGED linkVars,
         mixed' = mixed, device' = device
  PROVE  TransportInv'
<1>1. PICK x : x = [writing[w] EXCEPT !.at = "failed"]
  OBVIOUS
<1>2. writing \in [Writes -> WriteRecords]
  BY DEF TransportInv, WritesTyped
<1>3. x \in WriteRecords /\ x.at = "failed"
  BY <1>1, <1>2 DEF WriteRecords
<1>4. /\ writing' \in [Writes -> WriteRecords]
      /\ \A v \in Writes : writing'[v] = IF v = w THEN x ELSE writing[v]
  BY <1>1, <1>2, <1>3 DEF WriteEnds
<1>5. LinkTyped' /\ medium' = medium
  BY DEF TransportInv, LinkTyped, linkVars
<1>6. \A v \in Writes : Under(v)' => Under(v)
  BY <1>3, <1>4 DEF Under
<1>7. WritesTyped'
  BY <1>4, <1>5, <1>6 DEF TransportInv, WritesTyped
<1>8. ASSUME NEW v \in Writes PROVE WriteFits(v)'
  <2>1. CASE v = w
    BY <1>3, <1>4, <2>1 DEF WriteFits, Under
  <2>2. CASE v # w
    BY <1>4, <2>2 DEF TransportInv, WriteFits, OutAtEnd, FrameReceived, Under
  <2> QED
    BY <2>1, <2>2
<1> QED
  BY <1>5, <1>7, <1>8 DEF TransportInv

LEMMA WriteStartsWell ==
  ASSUME TransportInv, NEW w \in Writes, WriteStarts(w)
  PROVE  TransportInv'
<1>1. writing \in [Writes -> WriteRecords] /\ mixed \subseteq Writes
  BY DEF TransportInv, WritesTyped
<1>2. LinkTyped' /\ medium' = medium /\ UNCHANGED linkVars
  BY DEF TransportInv, LinkTyped, WriteStarts, linkVars
<1>3. \/ WriteEnds(w, "failed") /\ mixed' = mixed /\ device' = device
      \/ /\ medium = "ble" /\ WriteEnds(w, "under way") /\ device' = device
         /\ mixed' = mixed \cup Others(w) \cup (IF Others(w) = {} THEN {} ELSE {w})
      \/ /\ medium # "ble" /\ WriteEnds(w, "done") /\ mixed' = mixed
         /\ device' = device \o BuildFrame(w)
  BY DEF WriteStarts
<1>4. CASE WriteEnds(w, "failed") /\ mixed' = mixed /\ device' = device
  BY <1>2, <1>4, WriteStopsWell
<1>5. CASE /\ medium = "ble" /\ WriteEnds(w, "under way") /\ device' = device
           /\ mixed' = mixed \cup Others(w) \cup (IF Others(w) = {} THEN {} ELSE {w})
  <2>1. PICK x : x = [writing[w] EXCEPT !.at = "under way"]
    OBVIOUS
  <2>2. x \in WriteRecords /\ x.at = "under way" /\ x.out = 0
    BY <1>1, <2>1 DEF WriteRecords, WriteStarts, TransportInv, WriteFits
  <2>3. /\ writing' \in [Writes -> WriteRecords]
        /\ \A v \in Writes : writing'[v] = IF v = w THEN x ELSE writing[v]
    BY <1>1, <1>5, <2>1, <2>2 DEF WriteEnds
  <2>4. /\ \A v \in Writes : v # w => (Under(v)' <=> Under(v))
        /\ \A v \in Others(w) : v \in mixed' /\ w \in mixed'
        /\ mixed \subseteq mixed' /\ mixed' \subseteq Writes
    BY <1>1, <1>5, <2>3 DEF Under, Others
  <2>5. \A u, v \in Writes : u # v /\ Under(u)' /\ Under(v)' => u \in mixed'
    <3>1. ASSUME NEW u \in Writes, NEW v \in Writes, u # v, Under(u)', Under(v)'
          PROVE  u \in mixed'
      <4>1. CASE u = w
        BY <2>4, <3>1, <4>1 DEF Others
      <4>2. CASE v = w
        BY <2>4, <3>1, <4>2 DEF Others
      <4>3. CASE u # w /\ v # w
        BY <2>4, <3>1, <4>3 DEF TransportInv, WritesTyped
      <4> QED
        BY <4>1, <4>2, <4>3
    <3> QED
      BY <3>1
  <2>6. WritesTyped'
    BY <1>2, <1>5, <2>3, <2>4, <2>5 DEF TransportInv, WritesTyped
  <2>7. ASSUME NEW v \in Writes PROVE WriteFits(v)'
    <3>1. CASE v = w
      <4>1. Len(device') \in Nat
        BY <2>6, LenProperties DEF WritesTyped
      <4>2. writing'[w].out = 0 /\ writing'[w].at = "under way"
        BY <2>2, <2>3
      <4>3. 0 < 4 /\ 0 <= Len(device') /\ \A k \in 1..0 : FALSE
        BY <4>1
      <4>4. /\ writing'[w].out < 4 /\ writing'[w].out <= Len(device')
            /\ \A k \in 1..writing'[w].out : FALSE
        BY <4>2, <4>3, Zenon
      <4>5. OutAtEnd(w)'
        BY <4>4, Zenon DEF OutAtEnd
      <4> QED
        BY <3>1, <4>2, <4>4, <4>5, Zenon DEF WriteFits
    <3>2. CASE v # w
      <4>1. writing'[v] = writing[v] /\ (v \notin mixed' => v \notin mixed) /\ WriteFits(v)
        BY <2>3, <2>4, <3>2 DEF TransportInv
      <4> QED
        BY <1>5, <4>1 DEF WriteFits, OutAtEnd, FrameReceived, Under
    <3> QED
      BY <3>1, <3>2
  <2> QED
    BY <1>2, <2>6, <2>7 DEF TransportInv
<1>6. CASE /\ medium # "ble" /\ WriteEnds(w, "done") /\ mixed' = mixed
           /\ device' = device \o BuildFrame(w)
  <2>1. PICK x : x = [writing[w] EXCEPT !.at = "done"]
    OBVIOUS
  <2>2. x \in WriteRecords /\ x.at = "done"
    BY <1>1, <2>1 DEF WriteRecords
  <2>3. /\ writing' \in [Writes -> WriteRecords]
        /\ \A v \in Writes : writing'[v] = IF v = w THEN x ELSE writing[v]
    BY <1>1, <1>6, <2>1, <2>2 DEF WriteEnds
  <2>4. \A v \in Writes : ~Under(v) /\ ~Under(v)'
    BY <1>6, <2>2, <2>3 DEF Under, TransportInv, WritesTyped
  <2>5. /\ device' \in Seq(Writes \cup {FEND}) /\ Len(device') = Len(device) + 4
        /\ Len(device) \in Nat
        /\ \A k \in 1..4 : device'[Len(device) + k] = BuildFrame(w)[k]
    <3>1. device \in Seq(Writes \cup {FEND})
      BY DEF TransportInv, WritesTyped
    <3>2. PICK f \in Seq(Writes \cup {FEND}) : f = BuildFrame(w) /\ Len(f) = 4
      BY FrameHas
    <3>3. /\ device \o f \in Seq(Writes \cup {FEND}) /\ Len(device \o f) = Len(device) + Len(f)
          /\ \A k \in 1..Len(device) + Len(f) :
               (device \o f)[k] = IF k <= Len(device) THEN device[k] ELSE f[k - Len(device)]
      BY <3>1, <3>2, ConcatProperties
    <3>4. device' = device \o f /\ Len(device) \in Nat
      BY <1>6, <3>1, <3>2, LenProperties
    <3>5. /\ device' \in Seq(Writes \cup {FEND}) /\ Len(device') = Len(device) + 4
          /\ Len(device) \in Nat
          /\ \A k \in 1..Len(device) + 4 :
               device'[k] = IF k <= Len(device) THEN device[k] ELSE f[k - Len(device)]
      BY <3>2, <3>3, <3>4
    <3>6. ASSUME NEW k \in 1..4 PROVE device'[Len(device) + k] = f[k]
      <4>1. /\ Len(device) + k \in 1..Len(device) + 4 /\ ~(Len(device) + k <= Len(device))
            /\ (Len(device) + k) - Len(device) = k
        BY <3>5
      <4> QED
        BY <3>5, <4>1
    <3> QED
      BY <3>2, <3>5, <3>6
  <2>6. WritesTyped'
    BY <1>6, <2>3, <2>4, <2>5 DEF TransportInv, WritesTyped
  <2>7. FrameReceived(w)'
    <3>1. Len(device') >= 4 /\ \A k \in 1..4 : device'[Len(device') - 4 + k] = BuildFrame(w)[k]
      BY <2>5
    <3>2. PICK s \in Seq(Writes \cup {FEND}) : s = device'
      BY <2>5
    <3>3. \E i, j \in DOMAIN s :
            /\ i < j /\ s[i] = FEND /\ s[j] = FEND
            /\ SubSeq(s, i + 1, j - 1) = <<w, w>>
      BY <3>1, <3>2, FrameAtEnd
    <3> QED
      BY <3>2, <3>3 DEF FrameReceived
  <2>8. ASSUME NEW v \in Writes PROVE WriteFits(v)'
    <3>1. CASE v = w
      BY <2>2, <2>3, <2>4, <2>7, <3>1 DEF WriteFits
    <3>2. CASE v # w
      <4>1. writing'[v] = writing[v] /\ WriteFits(v)
        BY <2>3, <3>2 DEF TransportInv
      <4>2. FrameReceived(v) => FrameReceived(v)'
        BY <1>6, FrameHas, ReceivedStays DEF TransportInv
      <4> QED
        BY <1>6, <2>4, <4>1, <4>2 DEF WriteFits
    <3> QED
      BY <3>1, <3>2
  <2> QED
    BY <1>2, <2>6, <2>8 DEF TransportInv
<1> QED
  BY <1>3, <1>4, <1>5, <1>6

LEMMA ChunkWrittenWell ==
  ASSUME TransportInv, NEW w \in Writes, ChunkWritten(w)
  PROVE  TransportInv'
<1>1. /\ writing \in [Writes -> WriteRecords] /\ mixed \subseteq Writes
      /\ device \in Seq(Writes \cup {FEND}) /\ Len(device) \in Nat
  BY LenProperties DEF TransportInv, WritesTyped
<1>2. LinkTyped' /\ medium' = medium /\ mixed' = mixed
  BY DEF TransportInv, LinkTyped, ChunkWritten, linkVars
<1>3. PICK from \in Nat : from = writing[w].out /\ from < 4
  BY <1>1 DEF TransportInv, WriteFits, ChunkWritten, WriteRecords
<1>4. PICK to \in Nat : to = Chunk(w) /\ from < to /\ to <= 4
  <2>1. ChunkBytes \in Nat \ {0}
    BY TransportsAssumption
  <2>2. Chunk(w) = IF from + ChunkBytes < 4 THEN from + ChunkBytes ELSE 4
    BY <1>3, FrameHas DEF Chunk
  <2> QED
    BY <1>3, <2>1, <2>2
<1>5. PICK how : how = IF to = 4 THEN "done" ELSE "under way"
  OBVIOUS
<1>6. PICK x : x = [at |-> how, out |-> to]
  OBVIOUS
<1>7. x \in WriteRecords /\ x.out = to /\ x.at = how
  BY <1>4, <1>5, <1>6 DEF WriteRecords
<1>8. writing' = [writing EXCEPT ![w] = x]
  <2>1. writing' = [writing EXCEPT ![w] =
          [at |-> IF to = 4 THEN "done" ELSE "under way", out |-> to]]
    BY <1>4, FrameHas DEF ChunkWritten
  <2> QED
    BY <1>5, <1>6, <2>1
<1>9. /\ writing' \in [Writes -> WriteRecords]
      /\ \A v \in Writes : writing'[v] = IF v = w THEN x ELSE writing[v]
  BY <1>1, <1>7, <1>8
<1>10. PICK piece : piece = SubSeq(BuildFrame(w), from + 1, to)
  OBVIOUS
<1>11. /\ piece \in Seq(Writes \cup {FEND}) /\ Len(piece) = to - from
       /\ \A k \in 1..(to - from) : piece[k] = BuildFrame(w)[from + k]
  <2>1. PICK f \in Seq(Writes \cup {FEND}) : f = BuildFrame(w) /\ Len(f) = 4
    BY FrameHas
  <2>2. \A k \in (from + 1)..to : f[k] \in Writes \cup {FEND}
    <3>1. \A k \in (from + 1)..to : k \in 1..Len(f)
      BY <1>3, <1>4, <2>1
    <3> QED
      BY <2>1, <3>1, ElementOfSeq
  <2>3. PICK a \in Nat : a = from + 1
    BY <1>3
  <2>4. to \in Nat /\ a <= to + 1 /\ piece = SubSeq(f, a, to)
    BY <1>3, <1>4, <1>10, <2>1, <2>3
  <2>5. \A k \in a..to : f[k] \in Writes \cup {FEND}
    BY <2>2, <2>3
  <2>6. a \in Int /\ to \in Int
    BY <2>3, <2>4
  <2>7. /\ SubSeq(f, a, to) \in Seq(Writes \cup {FEND})
        /\ Len(SubSeq(f, a, to)) = IF a <= to THEN to - a + 1 ELSE 0
        /\ \A k \in 1..to - a + 1 : SubSeq(f, a, to)[k] = f[a + k - 1]
    BY <2>5, <2>6, SubSeqProperties
  <2>8. to - a + 1 = to - from /\ a <= to
    BY <1>3, <1>4, <2>3, SMTT(20)
  <2>9. \A k \in 1..(to - from) : a + k - 1 = from + k
    BY <1>3, <1>4, <2>3
  <2> QED
    BY <2>1, <2>4, <2>7, <2>8, <2>9
<1>12. device' = device \o piece
  BY <1>3, <1>4, <1>10 DEF ChunkWritten
<1>13. /\ device' \in Seq(Writes \cup {FEND}) /\ Len(device') = Len(device) + (to - from)
       /\ \A k \in 1..Len(device) : device'[k] = device[k]
       /\ \A k \in 1..(to - from) : device'[Len(device) + k] = BuildFrame(w)[from + k]
  BY <1>1, <1>3, <1>4, <1>11, <1>12, ConcatProperties
<1>14. medium = "ble" /\ Under(w) /\ \A v \in Writes : Under(v)' => Under(v)
  BY <1>9 DEF ChunkWritten, Under, TransportInv, WritesTyped
<1>15. WritesTyped'
  BY <1>2, <1>9, <1>13, <1>14 DEF TransportInv, WritesTyped
(* What this write got out now is the end of what the device has now.       *)
<1>16. ASSUME w \notin mixed
       PROVE  /\ to <= Len(device')
              /\ \A k \in 1..to : device'[Len(device') - to + k] = BuildFrame(w)[k]
  <2>1. PICK len \in Nat : len = Len(device)
    BY <1>1
  <2>2. from <= len /\ \A k \in 1..from : device[len - from + k] = BuildFrame(w)[k]
    BY <1>3, <1>14, <1>16, <2>1 DEF TransportInv, WriteFits, OutAtEnd
  <2>3. Len(device') - to = len - from /\ to <= Len(device')
    BY <1>3, <1>4, <1>13, <2>1, <2>2, SMTT(20)
  <2>4. ASSUME NEW k \in Nat, 1 <= k, k <= to PROVE device'[len - from + k] = BuildFrame(w)[k]
    <3>1. CASE k <= from
      <4>1. k \in 1..from /\ len - from + k \in 1..len
        BY <1>3, <2>1, <2>2, <2>4, <3>1
      <4> QED
        BY <1>13, <2>1, <2>2, <4>1
    <3>2. CASE k > from
      <4>1. /\ k - from \in 1..(to - from) /\ from + (k - from) = k
            /\ len + (k - from) = len - from + k
        BY <1>3, <1>4, <2>1, <2>4, <3>2, SMTT(20)
      <4>2. device'[len + (k - from)] = BuildFrame(w)[from + (k - from)]
        <5>1. PICK n : n = k - from /\ n \in 1..(to - from)
          BY <4>1
        <5>2. device'[Len(device) + n] = BuildFrame(w)[from + n]
          BY <1>13, <5>1
        <5> QED
          BY <2>1, <5>1, <5>2
      <4> QED
        BY <4>1, <4>2
    <3> QED
      BY <1>3, <3>1, <3>2
  <2>5. \A k \in 1..to : k \in Nat /\ 1 <= k /\ k <= to
    BY <1>4
  <2> QED
    BY <2>3, <2>4, <2>5
<1>17. WriteFits(w)'
  <2>1. CASE to = 4
    <3>1. w \notin mixed => FrameReceived(w)'
      <4>1. ASSUME w \notin mixed PROVE FrameReceived(w)'
        <5>1. PICK s \in Seq(Writes \cup {FEND}) : s = device'
          BY <1>13
        <5>2. /\ Len(s) >= 4 /\ Len(s) \in Nat
              /\ \A k \in 1..4 : s[Len(s) - 4 + k] = BuildFrame(w)[k]
          BY <1>16, <2>1, <4>1, <5>1, LenProperties
        <5>3. \E i, j \in DOMAIN s :
                /\ i < j /\ s[i] = FEND /\ s[j] = FEND
                /\ SubSeq(s, i + 1, j - 1) = <<w, w>>
          BY <5>2, FrameAtEnd
        <5> QED
          BY <5>1, <5>3 DEF FrameReceived
      <4> QED
        BY <4>1
    <3> QED
      BY <1>2, <1>5, <1>7, <1>9, <2>1, <3>1 DEF WriteFits, Under
  <2>2. CASE to # 4
    <3>1. to < 4
      BY <1>4, <2>2
    <3>2. x.at = "under way" /\ x.out = to
      BY <1>5, <1>7, <2>2
    <3>3. writing'[w].at = "under way" /\ writing'[w].out = to /\ to < 4
      BY <1>9, <3>1, <3>2
    <3>4. w \notin mixed => OutAtEnd(w)'
      BY <1>16, <3>3 DEF OutAtEnd
    <3> QED
      BY <1>2, <3>3, <3>4 DEF WriteFits, Under
  <2> QED
    BY <2>1, <2>2
<1>18. ASSUME NEW v \in Writes, v # w PROVE WriteFits(v)'
  <2>1. writing'[v] = writing[v] /\ WriteFits(v) /\ (Under(v)' <=> Under(v))
    BY <1>9, <1>18 DEF TransportInv, Under
  <2>2. FrameReceived(v) => FrameReceived(v)'
    BY <1>11, <1>12, ReceivedStays DEF TransportInv
  <2>3. Under(v) => v \in mixed
    BY <1>14, <1>18 DEF TransportInv, WritesTyped
  <2> QED
    BY <1>2, <2>1, <2>2, <2>3 DEF WriteFits
<1> QED
  BY <1>2, <1>15, <1>17, <1>18 DEF TransportInv

LEMMA TransportNextInv == TransportInv /\ [TransportNext]_transportVars => TransportInv'
<1> SUFFICES ASSUME TransportInv, [TransportNext]_transportVars PROVE TransportInv'
  OBVIOUS
<1>1. ASSUME NEW w \in Writes, WriteStarts(w) PROVE TransportInv'
  BY <1>1, WriteStartsWell
<1>2. ASSUME NEW w \in Writes, ChunkWritten(w) PROVE TransportInv'
  BY <1>2, ChunkWrittenWell
<1>3. ASSUME NEW w \in Writes, ChunkFails(w) PROVE TransportInv'
  BY <1>3, WriteStopsWell DEF ChunkFails
<1>4. CASE Opens \/ IsOpen \/ OpenFails \/ GoesAway \/ EndIsTold \/ Disconnects
             \/ UNCHANGED transportVars
  BY <1>4, LinkStepsWell
<1> QED
  BY <1>1, <1>2, <1>3, <1>4 DEF TransportNext

(* A frame written while no other write is under way arrives (write of      *)
(* js/ble-transport.js, js/serial-transport.js, js/websocket-transport.js), *)
(* whatever the size of a chunk, for any number of writes, failed and       *)
(* overlapping ones among them.                                             *)
THEOREM AloneCorrect == TransportSpec => [](TransportTypeOK /\ AloneArrives)
<1> QED
  BY TransportInvTyped, TransportInitial, TransportNextInv, PTL DEF TransportSpec
======================================================================================
