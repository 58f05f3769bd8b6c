---------------------------- MODULE ResourceProofs ----------------------------
(***************************************************************************)
(* Proofs about Resource, for any number of parts, any size of the hashmap  *)
(* segments and of the windows, any number of stalls and of receivers, and  *)
(* any number of parts being hashed at a time.                              *)
(***************************************************************************)
EXTENDS Resource, SequenceTheorems, TLAPS

(***************************************************************************)
(* The inductive invariant.                                                 *)
(***************************************************************************)
Typed(x) ==
  x \in Receiver /\ Len(x.known) \in Parts /\ x.window \in 1 .. MaxWindow

(* Only hashes of missing parts are outstanding: none when all are there.   *)
OutMissing(x) == \A p \in x.out : \E i \in Missing(x) : x.known[i] = p

(* A full receiver is assembled, once, and hands over what it has checked.  *)
Assembles(x) ==
  /\ Full(x) => x.asm = "check" \/ x.done
  /\ x.asm # "none" => Full(x) /\ x.got = <<>>
  /\ x.asm = "prove" => Intact(x) /\ x.done

HandsOver(x) ==
  /\ Len(x.got) <= 1
  /\ x.got # <<>> => Full(x) /\ x.done
  /\ \A i \in DOMAIN x.got : \A p \in Parts : x.got[i][p] = p

Sound(x) == OutMissing(x) /\ Assembles(x) /\ HandsOver(x)

Watched(x) == x.started /\ ~x.done => x.armed \/ x.asm = "check"

Fresh(x) == ~x.started => x = Constructed

RxInv(x) == Typed(x) /\ Sound(x) /\ Watched(x) /\ Fresh(x)

SlotInv == slot # NoReceiver => rx[slot].started

(* A proof is sent once the data is handed over.                            *)
ProofInv ==
  Prf \in wire \/ sender = "complete" => \E r \in Receivers : rx[r].got # <<>>

IInv ==
  /\ ResTypeOK
  /\ \A r \in Receivers : RxInv(rx[r])
  /\ SlotInv
  /\ ProofInv

(***************************************************************************)
(* A receiver's steps.                                                      *)
(***************************************************************************)
(* A segment of the hashmap has at least one hash and at most all of them.  *)
LEMMA SegmentType ==
  ASSUME NEW p \in Parts
  PROVE  Segment(p) \in Seq(Parts) /\ Len(Segment(p)) \in Parts
<1> DEFINE n == PartCount + 1 - p
           k == IF n < SegLen THEN n ELSE SegLen
<1>1. k \in Parts /\ k <= n
  BY ResourceAssumption DEF Parts
<1>2. \A i \in 1 .. k : p + i - 1 \in Parts
  BY <1>1, ResourceAssumption DEF Parts
<1>3. Segment(p) = [i \in 1 .. k |-> p + i - 1]
  BY DEF Segment
<1>4. Segment(p) \in [1 .. k -> Parts]
  BY <1>2, <1>3
<1>5. k \in Nat
  BY <1>1 DEF Parts
<1> HIDE DEF k
<1> QED BY <1>1, <1>4, <1>5

(* What is appended to the hashmap never makes it longer than the resource. *)
LEMMA IngestType ==
  ASSUME NEW s \in Seq(Parts), NEW p \in Parts, Len(s) \in Parts
  PROVE  LET all == s \o Segment(p)
             n == IF Len(all) < PartCount THEN Len(all) ELSE PartCount
             known == SubSeq(all, 1, n)
         IN  /\ known \in Seq(Parts) /\ Len(known) \in Parts
             /\ Len(s) <= Len(known)
             /\ \A i \in 1 .. Len(s) : known[i] = s[i]
<1> DEFINE all == s \o Segment(p)
           n == IF Len(all) < PartCount THEN Len(all) ELSE PartCount
<1>1. /\ all \in Seq(Parts) /\ Len(all) \in Nat
      /\ Len(all) = Len(s) + Len(Segment(p)) /\ Len(Segment(p)) \in Parts
      /\ \A i \in 1 .. Len(s) : all[i] = s[i]
  BY SegmentType
<1>2. n \in Parts /\ n <= Len(all) /\ Len(s) <= n
  BY <1>1, ResourceAssumption DEF Parts
<1>3. n \in Nat /\ 1 \in Nat /\ 1 <= n
  BY <1>2 DEF Parts
<1> HIDE DEF all, n
<1>4. SubSeq(all, 1, n) \in Seq(Parts) /\ Len(SubSeq(all, 1, n)) = n
      /\ \A i \in 1 .. n : SubSeq(all, 1, n)[i] = all[i]
  BY <1>1, <1>2, <1>3, SubSeqProperties
<1>5. \A i \in 1 .. Len(s) : i \in 1 .. n
  BY <1>2, <1>3
<1> QED BY <1>1, <1>2, <1>4, <1>5 DEF all, n

(* A receiver as constructed satisfies all that is claimed of receivers.    *)
LEMMA ConstructedInv ==
  /\ RxInv(Constructed)
  /\ LET x == [Constructed EXCEPT !.started = TRUE]
     IN  Typed(x) /\ Sound(x) /\ x.started /\ x.got = <<>>
<1>1. 1 \in Parts /\ 0 \notin Parts
  BY ResourceAssumption DEF Parts
<1>2. Segment(1) \in Seq(Parts) /\ Len(Segment(1)) \in Parts
  BY <1>1, SegmentType
<1>3. Typed(Constructed)
  BY <1>1, <1>2, ResourceAssumption DEF Typed, Constructed, Receiver, Empty
<1>4. ~Full(Constructed)
  BY <1>1 DEF Full, Constructed
<1>5. Sound(Constructed)
  BY <1>4 DEF Sound, OutMissing, Assembles, HandsOver, Constructed
<1>6. Watched(Constructed) /\ Fresh(Constructed)
  BY DEF Watched, Fresh, Constructed
<1> DEFINE x == [Constructed EXCEPT !.started = TRUE]
<1>7. Typed(x)
  BY <1>3 DEF Typed, Constructed, Receiver
<1>8. ~Full(x)
  BY <1>1 DEF Full, Constructed
<1>9. Sound(x)
  BY <1>8 DEF Sound, OutMissing, Assembles, HandsOver, Constructed
<1>10. x.started /\ x.got = <<>>
  BY DEF Constructed
<1> QED BY <1>3, <1>5, <1>6, <1>7, <1>9, <1>10 DEF RxInv

(* Assembly and hand-over do not depend on the fields that requests change. *)
LEMMA RequestFields ==
  ASSUME NEW x, NEW y, y.parts = x.parts, y.known = x.known, y.asm = x.asm,
         y.got = x.got, y.done = x.done
  PROVE  /\ Missing(y) = Missing(x)
         /\ Assembles(x) => Assembles(y)
         /\ HandsOver(x) => HandsOver(y)
<1>1. Missing(y) = Missing(x) /\ Full(y) = Full(x) /\ Intact(y) = Intact(x)
  BY DEF Missing, Full, Intact
<1>2. Assembles(x) => Assembles(y)
  BY <1>1 DEF Assembles
<1>3. HandsOver(x) => HandsOver(y)
  BY <1>1 DEF HandsOver
<1> QED BY <1>1, <1>2, <1>3

(* What a request leaves of a receiver, and that the watchdog watches it.   *)
LEMMA RequestNextInv ==
  ASSUME NEW x, Typed(x), Sound(x), x.started
  PROVE  RxInv(RequestNext(x)) /\ RequestNext(x).got = x.got
         /\ RequestNext(x).started
<1> DEFINE y == RequestNext(x)
<1>1. x \in Receiver /\ Missing(x) \subseteq Parts
  BY ResourceAssumption DEF Typed, Missing, Receiver, Parts
<1>2. Window(x) \subseteq Parts
  <2>1. \A i \in Missing(x) : x.known[i] \in Parts
    BY <1>1 DEF Missing, Receiver
  <2> QED BY <2>1 DEF Window
<1>3. CASE Idle(x)
  <2>1. y = x
    BY <1>3 DEF RequestNext
  <2>2. ~x.done => Full(x)
    <3> SUFFICES ASSUME ~x.done, NEW p \in Parts PROVE x.parts[p] # Empty
      BY DEF Full
    <3>1. p \in 1 .. Len(x.known) /\ Missing(x) = {}
      BY <1>1, <1>3, ResourceAssumption DEF Idle, Receiver, Parts
    <3> QED BY <3>1 DEF Missing
  <2>3. Watched(x) /\ Fresh(x)
    BY <2>2 DEF Watched, Fresh, Sound, Assembles
  <2> QED BY <2>1, <2>3 DEF RxInv
<1>4. CASE ~Idle(x) /\ Missing(x) # {}
  <2>1. y = [[x EXCEPT !.out = Window(x)] EXCEPT !.armed = TRUE]
    BY <1>4 DEF RequestNext, Arm
  <2>2. /\ y \in Receiver /\ y.parts = x.parts /\ y.known = x.known
        /\ y.asm = x.asm /\ y.got = x.got /\ y.done = x.done
        /\ y.started = x.started /\ y.armed /\ y.window = x.window
        /\ y.out = Window(x)
    BY <1>1, <1>2, <2>1 DEF Receiver
  <2> HIDE DEF y
  <2>3. Assembles(y) /\ HandsOver(y) /\ Missing(y) = Missing(x)
    BY <2>2, RequestFields DEF Sound
  <2>4. OutMissing(y)
    BY <2>2, <2>3 DEF OutMissing, Window
  <2> QED BY <2>2, <2>3, <2>4 DEF y, RxInv, Typed, Sound, Watched, Fresh
<1>5. CASE ~Idle(x) /\ Missing(x) = {}
  <2>1. y = [[x EXCEPT !.waiting = TRUE] EXCEPT !.armed = TRUE]
    BY <1>5 DEF RequestNext, Arm
  <2>2. /\ y \in Receiver /\ y.parts = x.parts /\ y.known = x.known
        /\ y.asm = x.asm /\ y.got = x.got /\ y.done = x.done
        /\ y.started = x.started /\ y.armed /\ y.window = x.window
        /\ y.out = x.out
    BY <1>1, <2>1 DEF Receiver
  <2> HIDE DEF y
  <2>3. Assembles(y) /\ HandsOver(y) /\ Missing(y) = Missing(x)
    BY <2>2, RequestFields DEF Sound
  <2>4. OutMissing(y)
    BY <2>2, <2>3 DEF OutMissing, Sound
  <2> QED BY <2>2, <2>3, <2>4 DEF y, RxInv, Typed, Sound, Watched, Fresh
<1> QED BY <1>3, <1>4, <1>5

(* A receiver that is done keeps its parts and what it handed over.         *)
LEMMA EndedInv ==
  ASSUME NEW x, Typed(x), Sound(x), x.started
  PROVE  RxInv(Ended(x)) /\ Ended(x).got = x.got /\ Ended(x).started
<1> DEFINE y == Ended(x)
<1>1. x \in Receiver
  BY DEF Typed
<1>2. /\ y \in Receiver /\ y.parts = x.parts /\ y.known = x.known /\ y.out = x.out
      /\ y.window = x.window /\ y.asm = x.asm /\ y.got = x.got
      /\ y.started = x.started /\ y.done
  BY <1>1 DEF Ended, Receiver
<1>3. Missing(y) = Missing(x) /\ Full(y) = Full(x) /\ Intact(y) = Intact(x)
  BY <1>2 DEF Missing, Full, Intact
<1>4. Sound(y)
  BY <1>2, <1>3 DEF Sound, OutMissing, Assembles, HandsOver
<1> QED BY <1>2, <1>4 DEF RxInv, Typed, Watched, Fresh

(* A hash that begins, or that comes back.                                  *)
LEMMA UnhashedInv ==
  ASSUME NEW x, RxInv(x), x.started, NEW y \in Receiver, y.parts = x.parts,
         y.known = x.known, y.out = x.out, y.window = x.window, y.asm = x.asm,
         y.got = x.got, y.started, y.done = x.done, x.armed => y.armed
  PROVE  RxInv(y)
<1>1. Assembles(y) /\ HandsOver(y) /\ Missing(y) = Missing(x)
  BY RequestFields DEF RxInv, Sound
<1>2. Sound(y)
  BY <1>1 DEF RxInv, Sound, OutMissing
<1> QED BY <1>2 DEF RxInv, Typed, Watched, Fresh

(* A part in its place: what is still outstanding is still missing.         *)
LEMMA PlacedInv ==
  ASSUME NEW x, RxInv(x), NEW p \in Parts, x.started, p \in x.out
  PROVE  LET y == Ticked(Place([x EXCEPT !.left = StallRetries], p), p)
         IN  /\ Typed(y) /\ OutMissing(y) /\ HandsOver(y) /\ Watched(y)
             /\ y.started /\ y.got = x.got /\ y.asm = x.asm /\ y.asm = "none"
             /\ y.got = <<>>
<1> DEFINE z == [x EXCEPT !.left = StallRetries]
           fits == {i \in Missing(z) : z.known[i] = p}
           ps == [i \in Parts |->
                    IF i \in fits /\ \A j \in fits : i <= j THEN p ELSE z.parts[i]]
           y == Ticked(Place(z, p), p)
<1>1. x \in Receiver
  BY DEF RxInv, Typed
<1>2. /\ z \in Receiver /\ z.parts = x.parts /\ z.known = x.known /\ z.out = x.out
      /\ Missing(z) = Missing(x)
  BY <1>1, ResourceAssumption DEF Receiver, Missing
<1>3. ps \in [Parts -> Parts \cup {Empty}]
  BY <1>1, <1>2 DEF Receiver
<1>4. y = [[z EXCEPT !.parts = ps] EXCEPT !.out = @ \ {p}]
  BY DEF Ticked, Place
<1>5. /\ y \in Receiver /\ y.parts = ps /\ y.known = x.known /\ y.out = x.out \ {p}
      /\ y.window = x.window /\ y.asm = x.asm /\ y.got = x.got
      /\ y.started = x.started /\ y.done = x.done /\ y.armed = x.armed
  <2>1. z.out \ {p} \in SUBSET Parts
    BY <1>2 DEF Receiver
  <2> HIDE DEF ps, y
  <2>2. y = [[z EXCEPT !.parts = ps] EXCEPT !.out = z.out \ {p}]
    BY <1>2, <1>4 DEF Receiver
  <2>3. /\ z.window = x.window /\ z.asm = x.asm /\ z.got = x.got
        /\ z.started = x.started /\ z.done = x.done /\ z.armed = x.armed
    BY <1>1 DEF Receiver
  <2> HIDE DEF z
  <2> QED BY <1>2, <1>3, <2>1, <2>2, <2>3 DEF Receiver
<1>6. Missing(x) # {}
  BY DEF RxInv, Sound, OutMissing
<1>7. ~Full(x)
  BY <1>6, ResourceAssumption DEF Full, Missing, RxInv, Typed, Parts
<1>8. x.asm = "none" /\ x.got = <<>>
  BY <1>7 DEF RxInv, Sound, Assembles, HandsOver
<1>9. OutMissing(y)
  <2> SUFFICES ASSUME NEW q \in x.out, q # p
               PROVE  \E i \in Missing(y) : y.known[i] = q
    BY <1>5 DEF OutMissing
  <2>1. PICK i \in Missing(x) : x.known[i] = q
    BY DEF RxInv, Sound, OutMissing
  <2>2. i \in Parts /\ i \in 1 .. Len(x.known)
    BY <2>1, ResourceAssumption DEF Missing, RxInv, Typed, Parts
  <2>3. i \notin fits
    BY <1>2, <2>1
  <2>4. ps[i] = x.parts[i]
    BY <1>2, <2>2, <2>3
  <2>5. i \in Missing(y)
    BY <1>5, <2>1, <2>2, <2>4 DEF Missing
  <2> QED BY <1>5, <2>1, <2>5
<1>10. HandsOver(y)
  BY <1>5, <1>8 DEF HandsOver
<1>11. Typed(y)
  BY <1>5 DEF Typed, RxInv
<1>12. Watched(y)
  BY <1>5 DEF Watched, RxInv
<1> QED BY <1>5, <1>8, <1>9, <1>10, <1>11, <1>12

(* The window that grows.                                                   *)
LEMMA GrowInv ==
  ASSUME NEW x, Typed(x), Sound(x), x.started
  PROVE  Typed(Grow(x)) /\ Sound(Grow(x)) /\ Grow(x).started
         /\ Grow(x).got = x.got
<1> DEFINE y == Grow(x)
           w == IF x.window < MaxWindow THEN x.window + 1 ELSE x.window
<1>1. x \in Receiver /\ x.window \in 1 .. MaxWindow
  BY DEF Typed
<1>2. y = [x EXCEPT !.window = w]
  BY DEF Grow
<1>0. w \in 1 .. MaxWindow /\ w \in Nat
  BY <1>1, ResourceAssumption
<1> HIDE DEF w
<1>3. /\ y \in Receiver /\ y.parts = x.parts /\ y.known = x.known
      /\ y.asm = x.asm /\ y.got = x.got /\ y.done = x.done
      /\ y.started = x.started /\ y.out = x.out /\ y.window \in 1 .. MaxWindow
  BY <1>0, <1>1, <1>2 DEF Receiver
<1> HIDE DEF y
<1>4. Assembles(y) /\ HandsOver(y) /\ Missing(y) = Missing(x)
  BY <1>3, RequestFields DEF Sound
<1> QED BY <1>3, <1>4 DEF y, Typed, Sound, OutMissing

(* The smallest window again.                                               *)
LEMMA RetriedInv ==
  ASSUME NEW x, RxInv(x), x.started, x.left # 0
  PROVE  LET z == [x EXCEPT !.armed = FALSE]
             y == [Retried(z) EXCEPT !.window = InitialWindow, !.out = {},
                                     !.waiting = FALSE]
         IN  Typed(y) /\ Sound(y) /\ y.started /\ y.got = x.got
<1> DEFINE z == [x EXCEPT !.armed = FALSE]
           y == [Retried(z) EXCEPT !.window = InitialWindow, !.out = {},
                                   !.waiting = FALSE]
<1>1. x \in Receiver /\ x.left \in Nat \ {0} /\ Len(x.known) \in Parts
  BY DEF RxInv, Typed, Receiver
<1>2. InitialWindow \in 1 .. MaxWindow
  BY ResourceAssumption
<1> DEFINE u == Retried(z)
<1>3. /\ u \in Receiver /\ u.parts = x.parts /\ u.known = x.known
      /\ u.asm = x.asm /\ u.got = x.got /\ u.done = x.done
      /\ u.started = x.started
  <2>1. /\ z \in Receiver /\ z.parts = x.parts /\ z.known = x.known
        /\ z.asm = x.asm /\ z.got = x.got /\ z.done = x.done
        /\ z.started = x.started /\ z.left = x.left
    BY <1>1 DEF Receiver
  <2>3. z.left - 1 \in Nat
    BY <1>1, <2>1
  <2> HIDE DEF z
  <2>2. u = [z EXCEPT !.left = z.left - 1]
    BY <2>1 DEF Retried
  <2> QED BY <2>1, <2>2, <2>3 DEF Receiver
<1>6. y = [u EXCEPT !.window = InitialWindow, !.out = {}, !.waiting = FALSE]
  OBVIOUS
<1> HIDE DEF u
<1>7. InitialWindow \in Nat
  BY ResourceAssumption
<1>4. /\ y \in Receiver /\ y.parts = x.parts /\ y.known = x.known
      /\ y.asm = x.asm /\ y.got = x.got /\ y.done = x.done
      /\ y.started = x.started /\ y.out = {} /\ y.window = InitialWindow
  BY <1>3, <1>6, <1>7 DEF Receiver
<1> HIDE DEF y
<1>5. Assembles(y) /\ HandsOver(y)
  BY <1>4, RequestFields DEF RxInv, Sound
<1> QED BY <1>1, <1>2, <1>4, <1>5 DEF y, u, Typed, Sound, OutMissing

(* The hashmap goes on: what was missing still is.                          *)
LEMMA IngestInv ==
  ASSUME NEW x, RxInv(x), x.started, NEW p \in Parts
  PROVE  LET all == x.known \o Segment(p)
             n == IF Len(all) < PartCount THEN Len(all) ELSE PartCount
             y == [x EXCEPT !.known = SubSeq(all, 1, n), !.waiting = FALSE]
         IN  Typed(y) /\ Sound(y) /\ y.started /\ y.got = x.got
<1> DEFINE all == x.known \o Segment(p)
           n == IF Len(all) < PartCount THEN Len(all) ELSE PartCount
           known == SubSeq(all, 1, n)
           y == [x EXCEPT !.known = known, !.waiting = FALSE]
<1>1. x \in Receiver /\ x.known \in Seq(Parts) /\ Len(x.known) \in Parts
      /\ x.window \in 1 .. MaxWindow
  BY DEF RxInv, Typed, Receiver
<1>2. known \in Seq(Parts) /\ Len(known) \in Parts /\ Len(x.known) <= Len(known)
      /\ \A i \in 1 .. Len(x.known) : known[i] = x.known[i]
  BY <1>1, IngestType
<1> HIDE DEF known
<1>3. /\ y \in Receiver /\ y.parts = x.parts /\ y.known = known
      /\ y.asm = x.asm /\ y.got = x.got /\ y.done = x.done
      /\ y.started = x.started /\ y.out = x.out /\ y.window = x.window
  BY <1>1, <1>2 DEF Receiver
<1> HIDE DEF y
<1>4. Full(y) = Full(x) /\ Intact(y) = Intact(x)
  BY <1>3 DEF Full, Intact
<1>5. Assembles(y) /\ HandsOver(y)
  BY <1>3, <1>4 DEF Assembles, HandsOver, RxInv, Sound
<1>6. OutMissing(y)
  <2> SUFFICES ASSUME NEW q \in x.out PROVE \E i \in Missing(y) : y.known[i] = q
    BY <1>3 DEF OutMissing
  <2>1. PICK i \in Missing(x) : x.known[i] = q
    BY DEF RxInv, Sound, OutMissing
  <2>2. i \in 1 .. Len(known) /\ known[i] = q /\ x.parts[i] = Empty
    BY <1>1, <1>2, <2>1 DEF Missing, Parts
  <2> QED BY <1>3, <2>2 DEF Missing
<1> QED BY <1>1, <1>2, <1>3, <1>5, <1>6 DEF y, known, Typed, Sound

(* The three outcomes of an assembly's steps.                               *)
LEMMA AssemblyInv ==
  ASSUME NEW x, RxInv(x), x.started
  PROVE  /\ x.asm = "check" /\ Intact(x) =>
              LET y == [x EXCEPT !.asm = "prove", !.done = TRUE, !.armed = FALSE]
              IN  RxInv(y) /\ y.started /\ y.got = x.got
         /\ x.asm = "check" =>
              LET y == [x EXCEPT !.asm = "none"]
              IN  Typed(y) /\ (y.done => Sound(y)) /\ y.started
                  /\ y.got = x.got /\ y.done = x.done
                  /\ Sound(Ended(y)) /\ Typed(Ended(y)) /\ Ended(y).started
                  /\ Ended(y).done /\ Ended(y).got = x.got
         /\ x.asm = "prove" =>
              LET y == [x EXCEPT !.asm = "none", !.got = Append(@, x.parts)]
              IN  RxInv(y) /\ y.started /\ y.got # <<>>
<1>1. x \in Receiver
  BY DEF RxInv, Typed
<1>2. ASSUME x.asm = "check", Intact(x), NEW y,
             y = [x EXCEPT !.asm = "prove", !.done = TRUE, !.armed = FALSE]
      PROVE  RxInv(y) /\ y.started /\ y.got = x.got
  <2>1. /\ y \in Receiver /\ y.parts = x.parts /\ y.known = x.known
        /\ y.asm = "prove" /\ y.got = x.got /\ y.done /\ y.started
        /\ y.out = x.out /\ y.window = x.window
    BY <1>1, <1>2 DEF Receiver
  <2>2. Missing(y) = Missing(x) /\ Full(y) = Full(x) /\ Intact(y) = Intact(x)
    BY <2>1 DEF Missing, Full, Intact
  <2>3. Sound(y)
    BY <1>2, <2>1, <2>2 DEF RxInv, Sound, OutMissing, Assembles, HandsOver
  <2> QED BY <2>1, <2>3 DEF RxInv, Typed, Watched, Fresh
<1>3. ASSUME x.asm = "check", NEW y, y = [x EXCEPT !.asm = "none"]
      PROVE  Typed(y) /\ (y.done => Sound(y)) /\ y.started /\ y.got = x.got
             /\ y.done = x.done
             /\ Sound(Ended(y)) /\ Typed(Ended(y)) /\ Ended(y).started
             /\ Ended(y).done /\ Ended(y).got = x.got
  <2>1. /\ y \in Receiver /\ y.parts = x.parts /\ y.known = x.known
        /\ y.asm = "none" /\ y.got = x.got /\ y.done = x.done /\ y.started
        /\ y.out = x.out /\ y.window = x.window
    BY <1>1, <1>3 DEF Receiver
  <2>2. Missing(y) = Missing(x) /\ Full(y) = Full(x) /\ Intact(y) = Intact(x)
    BY <2>1 DEF Missing, Full, Intact
  <2>3. y.done => Sound(y)
    BY <1>3, <2>1, <2>2 DEF RxInv, Sound, OutMissing, Assembles, HandsOver
  <2> DEFINE z == Ended(y)
  <2>4. /\ z \in Receiver /\ z.parts = x.parts /\ z.known = x.known
        /\ z.asm = "none" /\ z.got = x.got /\ z.done /\ z.started
        /\ z.out = x.out /\ z.window = x.window
    BY <2>1 DEF Receiver, Ended
  <2> HIDE DEF z
  <2>5. Missing(z) = Missing(x) /\ Full(z) = Full(x) /\ Intact(z) = Intact(x)
    BY <2>4 DEF Missing, Full, Intact
  <2>6. Sound(z)
    BY <1>3, <2>4, <2>5 DEF RxInv, Sound, OutMissing, Assembles, HandsOver
  <2> QED BY <2>1, <2>3, <2>4, <2>6 DEF z, RxInv, Typed
<1>4. ASSUME x.asm = "prove", NEW y,
             y = [x EXCEPT !.asm = "none", !.got = Append(@, x.parts)]
      PROVE  RxInv(y) /\ y.started /\ y.got # <<>>
  <2>1. x.got = <<>> /\ Full(x) /\ Intact(x) /\ x.done
    BY <1>4 DEF RxInv, Sound, Assembles
  <2> DEFINE g == <<x.parts>>
  <2>2. y = [x EXCEPT !.asm = "none", !.got = g]
    BY <1>1, <1>4, <2>1
  <2>0. g \in Seq([Parts -> Parts \cup {Empty}])
    BY <1>1 DEF Receiver
  <2>7. g = <<x.parts>>
    OBVIOUS
  <2> HIDE DEF g
  <2>3. /\ y \in Receiver /\ y.parts = x.parts /\ y.known = x.known
        /\ y.asm = "none" /\ y.got = <<x.parts>> /\ y.done /\ y.started
        /\ y.out = x.out /\ y.window = x.window
    BY <1>1, <2>0, <2>1, <2>2, <2>7 DEF Receiver
  <2>4. Missing(y) = Missing(x) /\ Full(y) = Full(x)
    BY <2>3 DEF Missing, Full
  <2>5. HandsOver(y)
    BY <2>1, <2>3, <2>4 DEF HandsOver, Intact
  <2>6. OutMissing(y) /\ Assembles(y)
    BY <2>1, <2>3, <2>4 DEF RxInv, Sound, OutMissing, Assembles
  <2> QED BY <2>3, <2>5, <2>6 DEF RxInv, Typed, Sound, Watched, Fresh
<1> QED BY <1>2, <1>3, <1>4

(***************************************************************************)
(* The system's steps.                                                      *)
(***************************************************************************)
Kept == \A r \in Receivers : rx[r].got # <<>> => rx'[r].got # <<>>

(* What the receivers claim, after a step.                                  *)
RxKept ==
  /\ rx' \in [Receivers -> Receiver]
  /\ \A r \in Receivers : RxInv(rx'[r])
  /\ slot' \in Receivers \cup {NoReceiver}
  /\ SlotInv'
  /\ Kept

(* What the sender and the wire claim, after a step.                        *)
WireKept ==
  /\ wire' \subseteq Packets
  /\ sender' \in {"open", "complete", "failed"}
  /\ ProofInv'

(* One receiver changes, into one that satisfies what is claimed.           *)
LEMMA Changes ==
  ASSUME IInv, NEW r \in Receivers, NEW y, RxInv(y), y.started,
         rx[r].got # <<>> => y.got # <<>>, rx' = [rx EXCEPT ![r] = y],
         slot' \in {slot, NoReceiver, r}
  PROVE  RxKept
<1>1. rx \in [Receivers -> Receiver] /\ slot \in Receivers \cup {NoReceiver}
      /\ NoReceiver \notin Receivers
  BY DEF IInv, ResTypeOK, NoReceiver, Receivers
<1>2. \A s \in Receivers : rx'[s] = IF s = r THEN y ELSE rx[s]
  BY <1>1
<1>3. rx' \in [Receivers -> Receiver]
  BY <1>1 DEF RxInv, Typed
<1>4. \A s \in Receivers : RxInv(rx'[s])
  BY <1>2 DEF IInv
<1>5. SlotInv'
  BY <1>1, <1>2 DEF SlotInv, IInv
<1>6. Kept
  BY <1>2 DEF Kept
<1> QED BY <1>1, <1>3, <1>4, <1>5, <1>6 DEF RxKept

(* What is sent other than a proof.                                         *)
LEMMA SentInv ==
  ASSUME IInv, Kept, NEW packets \in SUBSET Packets, NEW answers \in SUBSET Packets,
         Prf \notin packets, Prf \notin answers, Sent(packets, answers)
  PROVE  WireKept
<1>1. wire \subseteq Packets /\ sender \in {"open", "complete", "failed"}
  BY DEF IInv, ResTypeOK
<1>2. wire' \subseteq Packets /\ sender' \in {"open", "complete", "failed"}
  BY <1>1 DEF Sent
<1>3. Prf \in wire' \/ sender' = "complete" => Prf \in wire \/ sender = "complete"
  BY DEF Sent
<1> QED BY <1>2, <1>3 DEF WireKept, ProofInv, IInv, Kept

LEMMA UnsentInv ==
  ASSUME IInv, Kept, UNCHANGED <<sender, wire>>
  PROVE  WireKept
  BY DEF WireKept, ProofInv, IInv, ResTypeOK, Kept

(* Packets that a receiver and the sender's answers consist of.             *)
LEMMA AnswersType ==
  ASSUME NEW x, Typed(x)
  PROVE  /\ Answers(x) \subseteq Packets /\ Prf \notin Answers(x)
         /\ {} \subseteq Packets /\ {Rcl} \subseteq Packets
         /\ Prf \in Packets /\ Icl \in Packets
         /\ Prf \notin {Rcl} /\ Prf # Icl
<1>1. \A p \in Parts : Part(p) \in Packets /\ Hmu(p) \in Packets
      /\ Part(p) # Prf /\ Hmu(p) # Prf
  <2> TAKE p \in Parts
  <2>1. Part(p) \in Packets /\ Hmu(p) \in Packets
    BY DEF Packets, Part, Hmu
  <2>2. Part(p).t = "part" /\ Hmu(p).t = "hmu" /\ Prf.t = "prf"
    BY DEF Part, Hmu, Prf
  <2>3. Part(p).t # Prf.t /\ Hmu(p).t # Prf.t
    BY <2>2
  <2> QED BY <2>1, <2>3
<1>2. Prf \in Packets /\ Icl \in Packets /\ Rcl \in Packets
  BY DEF Packets, Prf, Icl, Rcl
<1>3. Prf # Icl /\ Prf # Rcl
  BY DEF Prf, Icl, Rcl
<1>4. x.known \in Seq(Parts) /\ Len(x.known) \in Parts
  BY DEF Typed, Receiver
<1>5. \A i \in 1 .. Len(x.known) : x.known[i] \in Parts
  BY <1>4
<1>6. x.known[Len(x.known)] \in Parts
  BY <1>4, <1>5 DEF Parts
<1>7. Window(x) \subseteq Parts
  <2>1. \A i \in Missing(x) : x.known[i] \in Parts
    BY <1>5 DEF Missing
  <2> QED BY <2>1 DEF Window
<1> DEFINE p == x.known[Len(x.known)]
<1>8. p < PartCount => p + 1 \in Parts
  <2>1. \A q \in Parts : q < PartCount => q + 1 \in Parts
    BY ResourceAssumption DEF Parts
  <2>2. p \in Parts
    BY <1>6
  <2> HIDE DEF p
  <2> QED BY <2>1, <2>2
<1>9. CASE Idle(x)
  BY <1>2, <1>3, <1>9 DEF Answers
<1>10. CASE ~Idle(x) /\ Missing(x) # {}
  BY <1>1, <1>2, <1>3, <1>7, <1>10 DEF Answers
<1>11. CASE ~Idle(x) /\ Missing(x) = {}
  <2>1. Answers(x) = {IF p < PartCount THEN Hmu(p + 1) ELSE Icl}
    BY <1>11 DEF Answers
  <2> HIDE DEF p
  <2> QED BY <1>1, <1>2, <1>3, <1>8, <2>1
<1> QED BY <1>9, <1>10, <1>11

(* A request of a receiver that is otherwise in order.                      *)
LEMMA AsksInv ==
  ASSUME IInv, NEW r \in Receivers, NEW x, Typed(x), Sound(x), x.started,
         rx[r].got # <<>> => x.got # <<>>, Asks(r, x), slot' = slot
  PROVE  RxKept /\ WireKept
<1>1. RxInv(RequestNext(x)) /\ RequestNext(x).got = x.got /\ RequestNext(x).started
  BY RequestNextInv
<1>2. RxKept
  BY <1>1, Changes DEF Asks, Becomes
<1>3. WireKept
  BY <1>2, AnswersType, SentInv DEF Asks, RxKept
<1> QED BY <1>2, <1>3

(* A receiver that fails.                                                   *)
LEMMA FailInv ==
  ASSUME IInv, NEW r \in Receivers, NEW x, Fail(r, x), Typed(x), x.started,
         rx[r].got # <<>> => x.got # <<>>, x.done => RxInv(x),
         ~x.done => RxInv(Ended(x)) /\ Ended(x).got = x.got /\ Ended(x).started
  PROVE  RxKept /\ WireKept
<1>1. CASE x.done
  <2>1. RxKept
    BY <1>1, Changes DEF Fail, Becomes
  <2> QED BY <1>1, <2>1, UnsentInv DEF Fail, RxKept
<1>2. CASE ~x.done
  <2>1. RxKept
    BY <1>2, Changes DEF Fail, Becomes
  <2> QED BY <1>2, <2>1, AnswersType, SentInv DEF Fail, RxKept
<1> QED BY <1>1, <1>2

(* A receiver with something under way was started.                         *)
LEMMA UnderWay ==
  ASSUME NEW x, RxInv(x), x.armed \/ x.asm # "none" \/ x.hashing # {}
  PROVE  x.started
  BY DEF RxInv, Fresh, Constructed

LEMMA InitInv == ResInit => IInv
<1> SUFFICES ASSUME ResInit PROVE IInv
  OBVIOUS
<1>1. \A r \in Receivers : RxInv(rx[r])
  BY ConstructedInv DEF ResInit
<1>2. ResTypeOK
  BY <1>1 DEF ResInit, ResTypeOK, RxInv, Typed
<1>3. SlotInv /\ ProofInv
  BY DEF ResInit, SlotInv, ProofInv
<1> QED BY <1>1, <1>2, <1>3 DEF IInv

(* An advertisement: the receiver in the slot is aborted, and another       *)
(* started or refused.                                                      *)
LEMMA AdvInv ==
  ASSUME IInv, NEW r \in Receivers, AdvArrives(r)
  PROVE  RxKept /\ WireKept
<1> DEFINE new == [Constructed EXCEPT !.started = TRUE]
           abort == slot # NoReceiver /\ ~rx[slot].done
           old == IF abort THEN [rx EXCEPT ![slot] = Ended(@)] ELSE rx
           rcl == IF abort THEN {Rcl} ELSE {}
<1>1. rx \in [Receivers -> Receiver] /\ slot \in Receivers \cup {NoReceiver}
      /\ NoReceiver \notin Receivers /\ \A s \in Receivers : RxInv(rx[s])
  BY DEF IInv, ResTypeOK, NoReceiver, Receivers
<1>2. Typed(new) /\ Sound(new) /\ new.started /\ new.got = <<>>
  BY ConstructedInv
<1>3. rx[r].got = <<>>
  BY <1>1 DEF AdvArrives, RxInv, Fresh, Constructed
<1>4. /\ old \in [Receivers -> Receiver] /\ \A s \in Receivers : RxInv(old[s])
      /\ \A s \in Receivers : old[s].got = rx[s].got
  <2>1. CASE ~abort
    BY <1>1, <2>1
  <2>2. CASE abort
    <3>1. slot \in Receivers /\ rx[slot].started
      BY <1>1, <2>2 DEF IInv, SlotInv
    <3>2. RxInv(Ended(rx[slot])) /\ Ended(rx[slot]).got = rx[slot].got
      BY <1>1, <3>1, EndedInv DEF RxInv
    <3> QED BY <1>1, <2>2, <3>1, <3>2 DEF RxInv, Typed
  <2> QED BY <2>1, <2>2
<1>5. rcl \subseteq Packets /\ Prf \notin rcl /\ Answers(new) \subseteq Packets
      /\ Prf \notin Answers(new) /\ {} \subseteq Packets /\ {Rcl} \subseteq Packets
      /\ Prf \notin {Rcl}
  BY <1>2, AnswersType
<1>6. ASSUME NEW y, RxInv(y), y.started, rx' = [old EXCEPT ![r] = y],
             slot' \in {r, NoReceiver}
      PROVE  RxKept
  <2> HIDE DEF old
  <2>1. rx' \in [Receivers -> Receiver]
    BY <1>4, <1>6 DEF RxInv, Typed
  <2>2. \A s \in Receivers : rx'[s] = IF s = r THEN y ELSE old[s]
    BY <1>4, <1>6
  <2>3. \A s \in Receivers : RxInv(rx'[s])
    BY <1>4, <1>6, <2>2
  <2>4. Kept
    BY <1>3, <1>4, <2>2 DEF Kept
  <2>5. SlotInv'
    BY <1>1, <1>6, <2>2 DEF SlotInv
  <2> QED BY <1>6, <2>1, <2>3, <2>4, <2>5 DEF RxKept
<1>7. CASE rx' = [old EXCEPT ![r] = RequestNext(new)] /\ Sent(rcl, Answers(new))
           /\ slot' = r
  <2>1. RxInv(RequestNext(new)) /\ RequestNext(new).started
    BY <1>2, RequestNextInv
  <2> HIDE DEF new, old, rcl
  <2>2. RxKept
    BY <1>6, <1>7, <2>1
  <2> QED BY <1>5, <1>7, <2>2, SentInv DEF RxKept
<1>8. CASE rx' = [old EXCEPT ![r] = Ended(new)] /\ Sent({Rcl}, {})
           /\ slot' = NoReceiver
  <2>1. RxInv(Ended(new)) /\ Ended(new).started
    BY <1>2, EndedInv
  <2> HIDE DEF new, old, rcl
  <2>2. RxKept
    BY <1>6, <1>8, <2>1
  <2> QED BY <1>5, <1>8, <2>2, SentInv DEF RxKept
<1> QED BY <1>7, <1>8 DEF AdvArrives

(* The rest of a part's handler.                                            *)
LEMMA HashedInv ==
  ASSUME IInv, NEW r \in Receivers, NEW p \in Parts, PartHashed(r, p)
  PROVE  RxKept /\ WireKept
<1> DEFINE x == [rx[r] EXCEPT !.hashing = @ \ {p}]
           y == Ticked(Place([x EXCEPT !.left = StallRetries], p), p)
<1>1. RxInv(rx[r]) /\ rx[r].started /\ rx[r] \in Receiver
  BY UnderWay DEF PartHashed, IInv, RxInv, Typed
<1>2. RxInv(x) /\ x.got = rx[r].got /\ x.started /\ x.out = rx[r].out
  <2>1. /\ x \in Receiver /\ x.parts = rx[r].parts /\ x.known = rx[r].known
        /\ x.out = rx[r].out /\ x.window = rx[r].window /\ x.asm = rx[r].asm
        /\ x.got = rx[r].got /\ x.started /\ x.done = rx[r].done
        /\ (rx[r].armed => x.armed)
    BY <1>1 DEF Receiver
  <2> HIDE DEF x
  <2> QED BY <1>1, <2>1, UnhashedInv
<1>3. CASE ~Awaited(x, p)
  <2>1. Becomes(r, x) /\ UNCHANGED <<slot, sender, wire>>
    BY <1>3 DEF PartHashed
  <2> HIDE DEF x
  <2>2. RxKept
    BY <1>2, <2>1, Changes DEF Becomes
  <2> QED BY <2>1, <2>2, UnsentInv DEF RxKept
<1>4. CASE Awaited(x, p)
  <2>1. /\ Typed(y) /\ OutMissing(y) /\ HandsOver(y) /\ Watched(y) /\ y.started
        /\ y.got = x.got /\ y.asm = "none" /\ y.got = <<>>
    <3> HIDE DEF x
    <3> QED BY <1>2, <1>4, PlacedInv DEF Awaited
  <2>2. CASE Full(y)
    <3> DEFINE z == [y EXCEPT !.asm = "check"]
    <3>1. Becomes(r, z) /\ UNCHANGED <<slot, sender, wire>>
      BY <1>4, <2>2 DEF PartHashed
    <3> HIDE DEF y, x
    <3>2. /\ z \in Receiver /\ z.parts = y.parts /\ z.known = y.known
          /\ z.asm = "check" /\ z.got = <<>> /\ z.done = y.done /\ z.started
          /\ z.out = y.out /\ z.window = y.window
      BY <2>1 DEF Typed, Receiver
    <3> HIDE DEF z
    <3>3. Missing(z) = Missing(y) /\ Full(z)
      BY <2>2, <3>2 DEF Missing, Full
    <3>4. RxInv(z)
      BY <2>1, <3>2, <3>3 DEF RxInv, Typed, Sound, OutMissing, Assembles,
         HandsOver, Watched, Fresh
    <3>5. RxKept
      BY <1>2, <2>1, <3>1, <3>2, <3>4, Changes DEF Becomes
    <3> QED BY <3>1, <3>5, UnsentInv DEF RxKept
  <2>3. CASE ~Full(y)
    <3>1. Sound(y)
      <4> HIDE DEF y
      <4> QED BY <2>1, <2>3 DEF Sound, Assembles
    <3>2. CASE y.out = {}
      <4>1. Asks(r, Grow(y)) /\ slot' = slot
        BY <1>4, <2>3, <3>2 DEF PartHashed
      <4> HIDE DEF y, x
      <4>2. Typed(Grow(y)) /\ Sound(Grow(y)) /\ Grow(y).started
            /\ Grow(y).got = y.got
        BY <2>1, <3>1, GrowInv
      <4> QED BY <1>2, <2>1, <4>1, <4>2, AsksInv
    <3>3. CASE y.out # {}
      <4>1. Becomes(r, y) /\ UNCHANGED <<slot, sender, wire>>
        BY <1>4, <2>3, <3>3 DEF PartHashed
      <4> HIDE DEF y, x
      <4>2. RxInv(y)
        BY <2>1, <3>1 DEF RxInv, Fresh
      <4>3. RxKept
        BY <1>2, <2>1, <4>1, <4>2, Changes DEF Becomes
      <4> QED BY <4>1, <4>3, UnsentInv DEF RxKept
    <3> QED BY <3>2, <3>3
  <2> QED BY <2>2, <2>3
<1> QED BY <1>3, <1>4

(* Every step keeps the invariant.                                          *)
LEMMA NextInv == IInv /\ [ResNext]_resVars => IInv'
<1> SUFFICES ASSUME IInv, [ResNext]_resVars PROVE RxKept /\ WireKept
  <2>1. RxKept /\ WireKept => IInv'
    BY DEF RxKept, WireKept, IInv, ResTypeOK, RxInv, Typed
  <2> QED BY <2>1
<1>0. slot \in Receivers \cup {NoReceiver} /\ NoReceiver \notin Receivers
      /\ \A r \in Receivers : RxInv(rx[r]) /\ rx[r] \in Receiver
  BY DEF IInv, ResTypeOK, NoReceiver, Receivers
<1>1. ASSUME NEW r \in Receivers, AdvArrives(r) PROVE RxKept /\ WireKept
  BY <1>1, AdvInv
<1>2. ASSUME NEW r \in Receivers, IclArrives(r) PROVE RxKept /\ WireKept
  <2>1. RxInv(Ended(rx[r])) /\ Ended(rx[r]).got = rx[r].got /\ Ended(rx[r]).started
    BY <1>0, <1>2, EndedInv DEF IclArrives, IInv, SlotInv, RxInv
  <2>2. RxKept
    BY <1>2, <2>1, Changes DEF IclArrives, Becomes
  <2> QED BY <1>2, <2>2, UnsentInv DEF IclArrives, RxKept
<1>3. ASSUME NEW r \in Receivers, NEW p \in Parts, PartArrives(r, p)
      PROVE  RxKept /\ WireKept
  <2> DEFINE z == [rx[r] EXCEPT !.hashing = @ \cup {p}]
             y == Arm(z)
  <2>1. rx' = [rx EXCEPT ![r] = y] /\ UNCHANGED <<slot, sender, wire>>
    BY <1>3 DEF PartArrives, Becomes
  <2>2. rx[r].started
    BY <1>0, <1>3 DEF PartArrives, IInv, SlotInv
  <2>3. /\ z \in Receiver /\ z.parts = rx[r].parts /\ z.known = rx[r].known
        /\ z.out = rx[r].out /\ z.window = rx[r].window /\ z.asm = rx[r].asm
        /\ z.got = rx[r].got /\ z.started /\ z.done = rx[r].done
    BY <1>0, <2>2, SMTT(20) DEF Receiver
  <2> HIDE DEF z
  <2>4. /\ y \in Receiver /\ y.parts = rx[r].parts /\ y.known = rx[r].known
        /\ y.out = rx[r].out /\ y.window = rx[r].window /\ y.asm = rx[r].asm
        /\ y.got = rx[r].got /\ y.started /\ y.done = rx[r].done /\ y.armed
    BY <2>3 DEF Arm, Receiver
  <2> HIDE DEF y
  <2>5. RxInv(y)
    BY <1>0, <2>2, <2>4, UnhashedInv
  <2>6. RxKept
    BY <2>1, <2>4, <2>5, Changes
  <2> QED BY <2>1, <2>6, UnsentInv DEF RxKept
<1>4. ASSUME NEW r \in Receivers, NEW p \in Parts, HmuArrives(r, p)
      PROVE  RxKept /\ WireKept
  <2> DEFINE all == rx[r].known \o Segment(p)
             n == IF Len(all) < PartCount THEN Len(all) ELSE PartCount
             y == [rx[r] EXCEPT !.known = SubSeq(all, 1, n), !.waiting = FALSE]
  <2>1. Asks(r, y) /\ slot' = slot
    BY <1>4 DEF HmuArrives
  <2>2. rx[r].started
    BY <1>0, <1>4 DEF HmuArrives, IInv, SlotInv
  <2>3. Typed(y) /\ Sound(y) /\ y.started /\ y.got = rx[r].got
    BY <1>0, <2>2, IngestInv
  <2> HIDE DEF y
  <2> QED BY <2>1, <2>3, AsksInv
<1>5. ASSUME NEW r \in Receivers, NEW p \in Parts, PartHashed(r, p)
      PROVE  RxKept /\ WireKept
  BY <1>5, HashedInv
<1>6. ASSUME NEW r \in Receivers, Check(r) PROVE RxKept /\ WireKept
  <2>1. rx[r].started /\ rx[r].asm = "check"
    BY <1>0, <1>6, UnderWay DEF Check
  <2>2. CASE Intact(rx[r])
    <3> DEFINE y == [rx[r] EXCEPT !.asm = "prove", !.done = TRUE, !.armed = FALSE]
    <3>1. rx' = [rx EXCEPT ![r] = y] /\ UNCHANGED <<slot, sender, wire>>
      BY <1>6, <2>2 DEF Check, Becomes
    <3>2. RxInv(y) /\ y.started /\ y.got = rx[r].got
      BY <1>0, <2>1, <2>2, AssemblyInv
    <3> HIDE DEF y
    <3>3. RxKept
      BY <3>1, <3>2, Changes
    <3> QED BY <3>1, <3>3, UnsentInv DEF RxKept
  <2>3. CASE ~Intact(rx[r])
    <3> DEFINE y == [rx[r] EXCEPT !.asm = "none"]
    <3>1. Fail(r, y)
      BY <1>6, <2>3 DEF Check
    <3>2. /\ Typed(y) /\ (y.done => Sound(y)) /\ y.started /\ y.got = rx[r].got
          /\ Sound(Ended(y)) /\ Typed(Ended(y)) /\ Ended(y).started
          /\ Ended(y).done /\ Ended(y).got = rx[r].got
      BY <1>0, <2>1, AssemblyInv
    <3> HIDE DEF y
    <3>3. y.done => RxInv(y)
      BY <3>2 DEF RxInv, Watched, Fresh
    <3>4. RxInv(Ended(y))
      BY <3>2 DEF RxInv, Watched, Fresh
    <3> QED BY <3>1, <3>2, <3>3, <3>4, FailInv
  <2> QED BY <2>2, <2>3
<1>7. ASSUME NEW r \in Receivers, Prove(r) PROVE RxKept /\ WireKept
  <2> DEFINE y == [rx[r] EXCEPT !.asm = "none", !.got = Append(@, rx[r].parts)]
  <2>1. /\ rx' = [rx EXCEPT ![r] = y] /\ wire' = wire \cup {Prf}
        /\ slot' = NoReceiver /\ sender' = sender
    BY <1>7 DEF Prove, Becomes
  <2>2. rx[r].started /\ rx[r].asm = "prove"
    BY <1>0, <1>7, UnderWay DEF Prove
  <2>3. RxInv(y) /\ y.started /\ y.got # <<>>
    BY <1>0, <2>2, AssemblyInv
  <2> HIDE DEF y
  <2>4. RxKept
    BY <2>1, <2>3, Changes
  <2>5. rx'[r].got # <<>>
    BY <2>1, <2>3 DEF IInv, ResTypeOK
  <2>6. Prf \in Packets
    BY DEF Packets, Prf
  <2> QED BY <2>1, <2>4, <2>5, <2>6 DEF WireKept, ProofInv, IInv, ResTypeOK
<1>8. ASSUME NEW r \in Receivers, Stall(r) PROVE RxKept /\ WireKept
  <2> DEFINE x == [rx[r] EXCEPT !.armed = FALSE]
  <2>1. rx[r].started /\ rx[r].armed /\ ~rx[r].done
    BY <1>0, <1>8, UnderWay DEF Stall
  <2>2. /\ x \in Receiver /\ x.parts = rx[r].parts /\ x.known = rx[r].known
        /\ x.out = rx[r].out /\ x.asm = rx[r].asm /\ x.got = rx[r].got
        /\ x.done = rx[r].done /\ x.started = rx[r].started
        /\ x.window = rx[r].window /\ x.left = rx[r].left
    BY <1>0 DEF Receiver
  <2>3. CASE x.left = 0
    <3>1. Fail(r, x)
      BY <1>8, <2>3 DEF Stall
    <3> HIDE DEF x
    <3>2. Assembles(x) /\ HandsOver(x) /\ Missing(x) = Missing(rx[r])
      BY <1>0, <2>2, RequestFields DEF RxInv, Sound
    <3>3. Typed(x) /\ Sound(x)
      BY <1>0, <2>2, <3>2 DEF RxInv, Typed, Sound, OutMissing
    <3>4. RxInv(Ended(x)) /\ Ended(x).got = x.got /\ Ended(x).started
      BY <2>1, <2>2, <3>3, EndedInv
    <3> QED BY <2>1, <2>2, <3>1, <3>3, <3>4, FailInv
  <2>4. CASE x.left # 0
    <3> DEFINE y == [Retried(x) EXCEPT !.window = InitialWindow, !.out = {},
                                       !.waiting = FALSE]
    <3>1. Asks(r, y) /\ slot' = slot
      BY <1>8, <2>4 DEF Stall
    <3>2. Typed(y) /\ Sound(y) /\ y.started /\ y.got = rx[r].got
      BY <1>0, <2>1, <2>2, <2>4, RetriedInv
    <3> HIDE DEF y
    <3> QED BY <3>1, <3>2, AsksInv
  <2> QED BY <2>3, <2>4
<1>9. ASSUME PrfArrives \/ RclArrives \/ SenderCancels PROVE RxKept /\ WireKept
  <2>1. RxKept
    BY <1>9 DEF PrfArrives, RclArrives, SenderCancels, RxKept, Kept, IInv,
       ResTypeOK, SlotInv
  <2>2. Icl \in Packets /\ Prf # Icl
    BY DEF Packets, Prf, Icl
  <2> QED BY <1>9, <2>1, <2>2 DEF PrfArrives, Expected, RclArrives, SenderCancels,
         WireKept, ProofInv, IInv, ResTypeOK
<1>10. CASE UNCHANGED resVars
  <2>1. RxKept
    BY <1>10 DEF resVars, RxKept, Kept, IInv, ResTypeOK, SlotInv
  <2> QED BY <1>10, <2>1, UnsentInv DEF resVars, RxKept
<1> QED BY <1>1, <1>2, <1>3, <1>4, <1>5, <1>6, <1>7, <1>8, <1>9, <1>10
        DEF ResNext, Receive, Work, Serve

(***************************************************************************)
(* The theorems.                                                            *)
(***************************************************************************)
(* The inductive invariant: what is outstanding is missing, a full receiver *)
(* is assembled once, and a proof follows the hand-over.                    *)
THEOREM InvCorrect == ResSpec => []IInv
  BY InitInv, NextInv, PTL DEF ResSpec

(* The state is well typed, and the window never larger than the path takes *)
(* (handlePart).                                                            *)
THEOREM TypeCorrect == ResSpec => []ResTypeOK
<1>1. IInv => ResTypeOK
  BY DEF IInv
<1> QED BY <1>1, InvCorrect, PTL

(* What _assemble hands over is what was sent.                              *)
THEOREM IntactCorrect == ResSpec => []DeliveredIsSent
<1>1. IInv => DeliveredIsSent
  BY DEF IInv, RxInv, Sound, HandsOver, DeliveredIsSent
<1> QED BY <1>1, InvCorrect, PTL

(* handlePart never starts a second assembly of what was handed over.       *)
THEOREM OnceCorrect == ResSpec => []DeliveredOnce
<1>1. IInv => DeliveredOnce
  BY DEF IInv, RxInv, Sound, HandsOver, DeliveredOnce
<1> QED BY <1>1, InvCorrect, PTL

(* handleProof completes a send only after a receiver handed the data over. *)
THEOREM SenderCorrect == ResSpec => []SenderKnows
<1>1. IInv => SenderKnows
  BY DEF IInv, ProofInv, SenderKnows
<1> QED BY <1>1, InvCorrect, PTL

(* Every transfer under way has its watchdog armed, or is being assembled.  *)
THEOREM WatchdogCorrect == ResSpec => []NeverUnwatched
<1>1. IInv => NeverUnwatched
  BY DEF IInv, RxInv, Watched, NeverUnwatched
<1> QED BY <1>1, InvCorrect, PTL
=============================================================================
