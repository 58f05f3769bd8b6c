---------------------------- MODULE OutboundProofs ----------------------------
(***************************************************************************)
(* Proofs about Outbound, for any set of messages, any set of overlapping   *)
(* ticks, any attempt budget and any number of sessions and reloads.        *)
(***************************************************************************)
EXTENDS Outbound, TLAPS

(***************************************************************************)
(* Type correctness.                                                        *)
(***************************************************************************)
(* The absent row is a row.                                                 *)
LEMMA NoRowType == NoRow \in Row
  BY DEF NoRow, Row, States

(* A row with one field changed is a row.                                   *)
LEMMA RowUpdateType ==
  ASSUME NEW r \in Row
  PROVE  /\ \A s \in States : [r EXCEPT !.st = s] \in Row
         /\ \A n \in Nat : [r EXCEPT !.att = n] \in Row
         /\ \A b \in BOOLEAN : [r EXCEPT !.pkt = b] \in Row
         /\ \A t \in {"none", "armed", "due"} : [r EXCEPT !.timer = t] \in Row
  BY DEF Row

(* updateMessage touches one row, and only one that is there.               *)
LEMMA UpdateType ==
  ASSUME NEW m \in Messages, NEW r \in Row,
         rows \in [Messages -> Row], UpdateMessage(m, r)
  PROVE  /\ rows' \in [Messages -> Row]
         /\ rows'[m] = IF rows[m].st = "none" THEN rows[m] ELSE r
         /\ \A n \in Messages : n # m => rows'[n] = rows[n]
  BY DEF UpdateMessage

(* What the rows that are written differ in from the rows they replace.     *)
LEMMA StateWritten ==
  ASSUME NEW m \in Messages, rows \in [Messages -> Row], NEW s \in States
  PROVE  /\ WithState(m, s) \in Row
         /\ WithState(m, s).st = s
         /\ WithState(m, s).pkt = rows[m].pkt /\ WithState(m, s).att = rows[m].att
  BY DEF WithState, Row, States

(* The row written after an attempt.                                        *)
LEMMA AfterAttemptRow ==
  ASSUME NEW r \in Row, NEW s \in States, NEW n \in Nat
  PROVE  /\ AfterAttempt(r, s, n) \in Row
         /\ AfterAttempt(r, s, n).st = s
         /\ AfterAttempt(r, s, n).pkt = r.pkt /\ AfterAttempt(r, s, n).att = r.att
  BY DEF AfterAttempt, Rearm, Row

(* The row written before an attempt.                                       *)
LEMMA MarkWritten ==
  ASSUME NEW m \in Messages, rows \in [Messages -> Row], NEW n \in Nat
  PROVE  LET r == Marked(rows[m], n)
         IN  r \in Row /\ r.st = "sending" /\ r.att = n /\ r.pkt = rows[m].pkt
  BY DEF Marked, Row, States

(* The row written when the packet is built.                                *)
LEMMA PacketWritten ==
  ASSUME NEW m \in Messages, rows \in [Messages -> Row]
  PROVE  LET r == [rows[m] EXCEPT !.pkt = TRUE]
         IN  r \in Row /\ r.st = rows[m].st /\ r.att = rows[m].att /\ r.pkt = TRUE
  BY DEF Row

(* The initial state is well typed.                                         *)
LEMMA InitType == Init => TypeOK
  BY NoRowType, OutboundAssumption
  DEF Init, TypeOK, Workers, HoldsRow

(* Each step keeps the types; one step per action.                          *)
LEMMA NextType == TypeOK /\ [Next]_vars => TypeOK'
<1> SUFFICES ASSUME TypeOK, [Next]_vars PROVE TypeOK'
  OBVIOUS
<1> USE NoRowType, OutboundAssumption DEF TypeOK, Workers
<1>1. ASSUME NEW m \in Messages, SaveRow(m) PROVE TypeOK'
  BY <1>1, RowUpdateType DEF SaveRow, netVars, boundVars, States
<1>2. ASSUME NEW m \in Messages, FillRow(m) PROVE TypeOK'
  <2>1. [rows[m] EXCEPT !.pkt = TRUE] \in Row
    BY RowUpdateType DEF WithState, States
  <2>2. rows' \in [Messages -> Row]
    BY <1>2, <2>1, UpdateType DEF FillRow
  <2>3. QED
    BY <1>2, <2>2 DEF FillRow, netVars, boundVars
<1>3. ASSUME NEW m \in Messages, ComposeFails(m) PROVE TypeOK'
  <2>1. WithState(m, "failed") \in Row
    BY RowUpdateType DEF WithState, States
  <2>2. rows' \in [Messages -> Row]
    BY <1>3, <2>1, UpdateType DEF ComposeFails
  <2>3. QED
    BY <1>3, <2>2 DEF ComposeFails, netVars, boundVars
<1>4. ASSUME NEW m \in Messages, TooLarge(m) PROVE TypeOK'
  <2>1. WithState(m, "failed") \in Row
    BY RowUpdateType DEF WithState, States
  <2>2. rows' \in [Messages -> Row]
    BY <1>4, <2>1, UpdateType DEF TooLarge
  <2>3. QED
    BY <1>4, <2>2 DEF TooLarge, netVars, boundVars
<1>5. ASSUME NEW m \in Messages, LinkSettles(m) PROVE TypeOK'
  <2>1. \A s \in States : WithState(m, s) \in Row
    BY RowUpdateType DEF WithState, States
  <2>2. rows' \in [Messages -> Row]
    BY <1>5, <2>1, UpdateType DEF LinkSettles, States
  <2>3. QED
    BY <1>5, <2>2 DEF LinkSettles, netVars, boundVars
<1>6. ASSUME NEW m \in Messages, Network(m) PROVE TypeOK'
  BY <1>6 DEF Network, PeerReceives, PeerAssembles, pageVars, boundVars
<1>7. ASSUME NEW m \in Messages, BackoffElapses(m) PROVE TypeOK'
  BY <1>7, RowUpdateType DEF BackoffElapses, pageVars, netVars, boundVars
<1>8. ASSUME NEW m \in Messages, ProofArrives(m) PROVE TypeOK'
  BY <1>8 DEF ProofArrives, workerVars, netVars, boundVars
<1>9. ASSUME NEW m \in Messages, ProofCommits(m) PROVE TypeOK'
  <2>1. WithState(m, "delivered") \in Row
    BY RowUpdateType DEF WithState, States
  <2>2. rows' \in [Messages -> Row]
    BY <1>9, <2>1, UpdateType DEF ProofCommits
  <2>3. QED
    BY <1>9, <2>2 DEF ProofCommits, workerVars, netVars, boundVars
<1>10. ASSUME NEW m \in Messages, RemoveContact(m) PROVE TypeOK'
  BY <1>10 DEF RemoveContact, pageVars, netVars, boundVars
<1>11. ASSUME NEW t \in Ticks, TickStart(t) \/ TickScan(t) PROVE TypeOK'
  BY <1>11 DEF TickStart, TickScan, netVars, boundVars, HoldsRow
<1>12. ASSUME NEW w \in Workers, ReadRow(w) PROVE TypeOK'
  <2>1. PICK m \in todo[w] :
          /\ todo' = [todo EXCEPT ![w] = @ \ {m}]
          /\ IF Sendable(rows[m])
               THEN /\ cur' = [cur EXCEPT ![w] = m]
                    /\ num' = [num EXCEPT ![w] = rows[m].att + 1]
                    /\ pc' = [pc EXCEPT ![w] = "mark"]
               ELSE UNCHANGED <<pc, cur, num>>
    BY <1>12 DEF ReadRow
  <2>2. m \in Messages /\ rows[m].att + 1 \in Nat
    BY DEF Row
  <2>3. todo' \in [Workers -> SUBSET Messages]
    BY <2>1
  <2>4. CASE Sendable(rows[m])
    BY <1>12, <2>1, <2>2, <2>3, <2>4 DEF ReadRow, netVars, boundVars, HoldsRow
  <2>5. CASE ~Sendable(rows[m])
    BY <1>12, <2>1, <2>2, <2>3, <2>5 DEF ReadRow, netVars, boundVars
  <2>6. QED
    BY <2>4, <2>5
<1>13. ASSUME NEW w \in Workers, MarkSending(w) PROVE TypeOK'
  <2>1. cur[w] \in Messages /\ num[w] \in Nat
    BY <1>13 DEF MarkSending, HoldsRow
  <2>2. Marked(rows[cur[w]], num[w]) \in Row
    BY <2>1 DEF Marked, Row, States
  <2>3. rows' \in [Messages -> Row]
    BY <1>13, <2>1, <2>2, UpdateType DEF MarkSending
  <2>4. QED
    BY <1>13, <2>3 DEF MarkSending, netVars, boundVars, HoldsRow
<1>14. ASSUME NEW w \in Workers, TransmitOk(w) \/ TransmitThrows(w) PROVE TypeOK'
  BY <1>14 DEF TransmitOk, TransmitThrows, netVars, boundVars, HoldsRow
<1>15. ASSUME NEW w \in Workers, Recheck(w) PROVE TypeOK'
  BY <1>15 DEF Recheck, Returns, netVars, boundVars, HoldsRow
<1>16. ASSUME NEW w \in Workers, SettleSent(w) \/ SettleFailed(w) PROVE TypeOK'
  <2>1. cur[w] \in Messages
    BY <1>16 DEF SettleSent, SettleFailed, HoldsRow
  <2>2. \A s \in States : AfterAttempt(rows[cur[w]], s, num[w]) \in Row
    BY <2>1, AfterAttemptRow
  <2>3. rows' \in [Messages -> Row]
    BY <1>16, <2>1, <2>2, UpdateType DEF SettleSent, SettleFailed, States
  <2>4. QED
    BY <1>16, <2>3 DEF SettleSent, SettleFailed, Returns, netVars, boundVars, HoldsRow
<1>17. CASE RadioUp \/ RadioDown
  <2>1. radioOn' \in BOOLEAN
    BY <1>17, Zenon DEF RadioUp, RadioDown
  <2>2. sessions' \in Nat
    BY <1>17 DEF RadioUp, RadioDown, boundVars
  <2>3. UNCHANGED <<rows, compose, workerVars, proving, netVars, reloads>>
    BY <1>17 DEF RadioUp, RadioDown, boundVars
  <2>4. QED
    BY <2>1, <2>2, <2>3 DEF workerVars, netVars
<1>18. CASE Reload
  <2>1. compose' \in [Messages -> {"new", "building", "link", "done"}]
    BY <1>18 DEF Reload
  <2>2. pc' \in [Workers -> {"loop"}] /\ cur' \in [Workers -> {NoMsg}]
    BY <1>18 DEF Reload
  <2>3. radioOn' \in BOOLEAN
    BY <1>18, Zenon DEF Reload
  <2>4. QED
    BY <1>18, <2>1, <2>2, <2>3 DEF Reload, netVars, HoldsRow
<1>19. CASE UNCHANGED vars
  BY <1>19 DEF vars
<1>20. QED
  BY <1>1, <1>2, <1>3, <1>4, <1>5, <1>6, <1>7, <1>8, <1>9, <1>10, <1>11, <1>12,
     <1>13, <1>14, <1>15, <1>16, <1>17, <1>18, <1>19 DEF Next, Send, Worker

(* Every variable of the sender keeps its type, and a worker points to a    *)
(* row exactly while its doOutboundSend call holds one.                     *)
THEOREM TypeCorrect == Spec => []TypeOK
  BY InitType, NextType, PTL DEF Spec

-----------------------------------------------------------------------------
(***************************************************************************)
(* The inductive invariant. A fresh message has no trace, so every step     *)
(* that writes a row or holds one works on a submitted message.             *)
(***************************************************************************)
(* Initially no message has a trace.                                        *)
LEMMA InitInv == Init => IInv
  BY OutboundAssumption
  DEF Init, IInv, FreshIsClean, DeliveredIsReal, HeldIsPacked,
      TransmittedIsTracked, NoRow, Workers

(* What every update of a row has in common: the row was there, so its      *)
(* message is not fresh; the new row keeps the packet.                      *)
LEMMA UpdateInv ==
  ASSUME TypeOK, IInv, NEW m \in Messages, NEW r \in Row, UpdateMessage(m, r),
         compose[m] # "new",
         rows[m].pkt = TRUE => r.pkt = TRUE,
         r.st = "delivered" => m \in received
  PROVE  /\ \A n \in Messages : compose[n] = "new" => rows'[n] = NoRow
         /\ \A n \in Messages : rows'[n].st = "delivered" => n \in received
         /\ \A n \in Messages : (rows[n].st = "none" \/ rows[n].pkt)
              => (rows'[n].st = "none" \/ rows'[n].pkt)
  BY UpdateType
  DEF TypeOK, IInv, FreshIsClean, DeliveredIsReal

(* Each step keeps the inductive invariant; one step per action.            *)
LEMMA NextInv == TypeOK /\ IInv /\ [Next]_vars => IInv'
<1> SUFFICES ASSUME TypeOK, IInv, [Next]_vars PROVE IInv'
  OBVIOUS
<1> USE OutboundAssumption DEF TypeOK, Workers
<1>1. ASSUME NEW m \in Messages, SaveRow(m) PROVE IInv'
  <2>1. m \notin air /\ m \notin received /\ \A w \in Workers : cur[w] # m
    BY <1>1 DEF SaveRow, IInv, FreshIsClean
  <2>2. rows' \in [Messages -> Row] /\ \A n \in Messages : n # m => rows'[n] = rows[n]
    BY <1>1 DEF SaveRow, NoRow, Row, States
  <2>3. rows'[m].st \in {"sending", "pending"}
    BY <1>1 DEF SaveRow, NoRow
  <2>4. UNCHANGED <<pc, todo, cur, num, proving, air, proofs, received>>
    BY <1>1 DEF SaveRow, netVars
  <2>5. \A n \in Messages : compose'[n] = "new" => n # m /\ compose[n] = "new"
    BY <1>1 DEF SaveRow
  <2>6. FreshIsClean'
    BY <2>2, <2>4, <2>5 DEF IInv, FreshIsClean
  <2>7. (DeliveredIsReal /\ HeldIsPacked /\ TransmittedIsTracked)'
    BY <2>1, <2>2, <2>3, <2>4
    DEF IInv, DeliveredIsReal, HeldIsPacked, TransmittedIsTracked
  <2>8. QED
    BY <2>4, <2>6, <2>7 DEF IInv
<1>2. ASSUME NEW m \in Messages,
             FillRow(m) \/ ComposeFails(m) \/ TooLarge(m) \/ LinkSettles(m)
      PROVE  IInv'
  <2>1. compose[m] # "new"
    BY <1>2 DEF FillRow, ComposeFails, TooLarge, LinkSettles
  <2>2. \A n \in Messages : compose'[n] = "new" => n # m /\ compose[n] = "new"
    BY <1>2 DEF FillRow, ComposeFails, TooLarge, LinkSettles
  <2>3. UNCHANGED <<pc, cur, num, proving, air, proofs, received>>
    BY <1>2 DEF FillRow, ComposeFails, TooLarge, LinkSettles, netVars
  <2>4. \A n \in Messages, w \in Workers : n # m /\ n \notin todo[w] => n \notin todo'[w]
    BY <1>2 DEF FillRow, ComposeFails, TooLarge, LinkSettles
  <2>5. PICK r \in Row : /\ UpdateMessage(m, r) \/ UNCHANGED rows
                         /\ rows[m].pkt = TRUE => r.pkt = TRUE
                         /\ r.st = "delivered" => m \in received
    <3>1. CASE FillRow(m)
      <4> DEFINE r == [rows[m] EXCEPT !.pkt = TRUE]
      <4>1. r \in Row /\ r.pkt = TRUE /\ r.st = rows[m].st
        BY PacketWritten
      <4>2. r.st = "delivered" => m \in received
        BY <4>1 DEF IInv, DeliveredIsReal
      <4>3. UpdateMessage(m, r)
        BY <3>1 DEF FillRow
      <4> HIDE DEF r
      <4>4. QED
        BY <4>1, <4>2, <4>3
    <3>2. CASE ComposeFails(m) \/ TooLarge(m)
      <4>1. /\ WithState(m, "failed") \in Row
            /\ WithState(m, "failed").pkt = rows[m].pkt
            /\ WithState(m, "failed").st # "delivered"
        BY StateWritten DEF States
      <4>2. QED
        BY <3>2, <4>1 DEF ComposeFails, TooLarge
    <3>3. CASE LinkSettles(m)
      <4>1. PICK s \in {"delivered", "sent", "failed"} :
              LinkOutcome(m, s) /\ UpdateMessage(m, WithState(m, s))
        BY <3>3 DEF LinkSettles
      <4>2. /\ WithState(m, s) \in Row
            /\ WithState(m, s).pkt = rows[m].pkt
            /\ WithState(m, s).st = s
        <5>1. s \in States
          BY DEF States
        <5>2. QED
          BY <5>1, StateWritten
      <4>3. s = "delivered" => m \in received
        BY <4>1 DEF LinkOutcome
      <4> DEFINE r == WithState(m, s)
      <4>4. UpdateMessage(m, r) /\ r \in Row /\ r.pkt = rows[m].pkt /\ r.st = s
        BY <4>1, <4>2
      <4> HIDE DEF r
      <4>5. QED
        BY <4>3, <4>4
    <3>4. QED
      BY <1>2, <3>1, <3>2, <3>3
  <2>6. /\ \A n \in Messages : compose[n] = "new" => rows'[n] = NoRow
        /\ \A n \in Messages : rows'[n].st = "delivered" => n \in received
        /\ \A n \in Messages : (rows[n].st = "none" \/ rows[n].pkt)
             => (rows'[n].st = "none" \/ rows'[n].pkt)
    BY <2>1, <2>5, UpdateInv DEF IInv, FreshIsClean, DeliveredIsReal
  <2>7. FreshIsClean'
    BY <2>2, <2>3, <2>4, <2>6 DEF IInv, FreshIsClean
  <2>8. (DeliveredIsReal /\ HeldIsPacked /\ TransmittedIsTracked)'
    BY <2>3, <2>6 DEF IInv, DeliveredIsReal, HeldIsPacked, TransmittedIsTracked
  <2>9. QED
    BY <2>3, <2>7, <2>8 DEF IInv
<1>3. ASSUME NEW m \in Messages, Network(m) PROVE IInv'
  <2>1. compose[m] # "new"
    BY <1>3 DEF Network, PeerReceives, PeerAssembles, IInv, FreshIsClean
  <2>2. /\ UNCHANGED <<rows, compose, pc, todo, cur, num, proving, air>>
        /\ received' = received \cup {m}
        /\ proofs' \subseteq proofs \cup {m}
    BY <1>3 DEF Network, PeerReceives, PeerAssembles, pageVars
  <2>3. FreshIsClean'
    BY <2>1, <2>2 DEF IInv, FreshIsClean
  <2>4. QED
    BY <2>2, <2>3 DEF IInv, DeliveredIsReal, HeldIsPacked, TransmittedIsTracked
<1>4. ASSUME NEW m \in Messages, BackoffElapses(m) \/ RemoveContact(m) PROVE IInv'
  <2>1. /\ UNCHANGED <<compose, pc, todo, cur, num, proving, air, proofs, received>>
        /\ \A n \in Messages : n # m => rows'[n] = rows[n]
    BY <1>4 DEF BackoffElapses, RemoveContact, pageVars, netVars
  <2>2. rows[m] # NoRow
    BY <1>4 DEF BackoffElapses, RemoveContact, NoRow
  <2>3. /\ rows'[m].st = "delivered" => rows[m].st = "delivered"
        /\ rows'[m].st = "none" \/ (rows'[m].st = rows[m].st /\ rows'[m].pkt = rows[m].pkt)
    BY <1>4 DEF BackoffElapses, RemoveContact, NoRow, Row
  <2>4. FreshIsClean'
    BY <2>1, <2>2 DEF IInv, FreshIsClean
  <2>5. (DeliveredIsReal /\ HeldIsPacked /\ TransmittedIsTracked)'
    BY <2>1, <2>3 DEF IInv, DeliveredIsReal, HeldIsPacked, TransmittedIsTracked
  <2>6. QED
    BY <2>1, <2>4, <2>5 DEF IInv
<1>5. ASSUME NEW p \in Messages, ProofArrives(p) PROVE IInv'
  <2>1. PICK m \in Messages : /\ rows[m].pkt /\ m = p
                              /\ proving' = proving \cup {m}
    BY <1>5 DEF ProofArrives, HashMatches
  <2>2. m \in received /\ compose[m] # "new"
    BY <1>5, <2>1 DEF ProofArrives, IInv, FreshIsClean
  <2>3. UNCHANGED <<rows, compose, pc, todo, cur, num, air, proofs, received>>
    BY <1>5 DEF ProofArrives, workerVars, netVars
  <2>4. FreshIsClean'
    BY <2>1, <2>2, <2>3 DEF IInv, FreshIsClean
  <2>5. QED
    BY <2>1, <2>2, <2>3, <2>4
    DEF IInv, DeliveredIsReal, HeldIsPacked, TransmittedIsTracked
<1>6. ASSUME NEW m \in Messages, ProofCommits(m) PROVE IInv'
  <2>1. m \in received /\ compose[m] # "new"
    BY <1>6 DEF ProofCommits, IInv, FreshIsClean
  <2>2. /\ WithState(m, "delivered") \in Row
        /\ WithState(m, "delivered").pkt = rows[m].pkt
    BY StateWritten DEF States
  <2>3. UpdateMessage(m, WithState(m, "delivered"))
    BY <1>6 DEF ProofCommits
  <2>4. /\ \A n \in Messages : compose[n] = "new" => rows'[n] = NoRow
        /\ \A n \in Messages : rows'[n].st = "delivered" => n \in received
        /\ \A n \in Messages : (rows[n].st = "none" \/ rows[n].pkt)
             => (rows'[n].st = "none" \/ rows'[n].pkt)
    BY <2>1, <2>2, <2>3, UpdateInv
  <2>5. /\ UNCHANGED <<compose, pc, todo, cur, num, air, proofs, received>>
        /\ proving' \subseteq proving
    BY <1>6 DEF ProofCommits, workerVars, netVars
  <2>6. FreshIsClean'
    BY <2>4, <2>5 DEF IInv, FreshIsClean
  <2>7. QED
    BY <2>4, <2>5, <2>6
    DEF IInv, DeliveredIsReal, HeldIsPacked, TransmittedIsTracked
<1>7. ASSUME NEW t \in Ticks, TickStart(t) \/ TickScan(t) PROVE IInv'
  <2>1. UNCHANGED <<rows, compose, cur, num, proving, air, proofs, received>>
    BY <1>7 DEF TickStart, TickScan, netVars
  <2>2. \A w \in Workers : \A n \in todo'[w] : n \in todo[w] \/ MayResend(rows[n])
    BY <1>7 DEF TickStart, TickScan
  <2>3. \A n \in Messages : compose[n] = "new" => ~MayResend(rows[n])
    BY DEF MayResend, IInv, FreshIsClean, NoRow
  <2>4. FreshIsClean'
    BY <2>1, <2>2, <2>3 DEF IInv, FreshIsClean
  <2>5. QED
    BY <2>1, <2>4 DEF IInv, DeliveredIsReal, HeldIsPacked, TransmittedIsTracked
<1>8. ASSUME NEW w \in Workers, ReadRow(w) PROVE IInv'
  <2>1. PICK m \in todo[w] :
          /\ todo' = [todo EXCEPT ![w] = @ \ {m}]
          /\ IF Sendable(rows[m])
               THEN /\ cur' = [cur EXCEPT ![w] = m]
                    /\ num' = [num EXCEPT ![w] = rows[m].att + 1]
                    /\ pc' = [pc EXCEPT ![w] = "mark"]
               ELSE UNCHANGED <<pc, cur, num>>
    BY <1>8 DEF ReadRow
  <2>2. m \in Messages /\ compose[m] # "new"
    <3>1. m \in todo[w] /\ m \in Messages
      BY <1>8
    <3>2. QED
      BY <3>1 DEF IInv, FreshIsClean
  <2>3. UNCHANGED <<rows, compose, proving, air, proofs, received>>
    BY <1>8 DEF ReadRow, netVars
  <2>4. \A v \in Workers : cur'[v] = cur[v] \/ (cur'[v] = m /\ rows[m].pkt)
    BY <2>1, <2>2 DEF Sendable
  <2>5. \A v \in Workers : todo'[v] \subseteq todo[v]
    BY <2>1
  <2>6. FreshIsClean'
    BY <2>2, <2>3, <2>4, <2>5 DEF IInv, FreshIsClean
  <2>7. QED
    BY <2>3, <2>4, <2>6
    DEF IInv, DeliveredIsReal, HeldIsPacked, TransmittedIsTracked
<1>9. ASSUME NEW w \in Workers, MarkSending(w) \/ SettleSent(w) \/ SettleFailed(w)
      PROVE  IInv'
  <2>1. cur[w] \in Messages /\ num[w] \in Nat
    BY <1>9 DEF MarkSending, SettleSent, SettleFailed, HoldsRow
  <2>2. compose[cur[w]] # "new"
    BY <2>1 DEF IInv, FreshIsClean
  <2>3. PICK r \in Row : /\ UpdateMessage(cur[w], r)
                         /\ rows[cur[w]].pkt = TRUE => r.pkt = TRUE
                         /\ r.st # "delivered"
    <3>1. CASE MarkSending(w)
      <4> DEFINE r == Marked(rows[cur[w]], num[w])
      <4>1. UpdateMessage(cur[w], r)
        BY <3>1 DEF MarkSending
      <4>2. r \in Row /\ r.st = "sending" /\ r.pkt = rows[cur[w]].pkt
        BY <2>1, MarkWritten
      <4> HIDE DEF r
      <4>3. QED
        BY <4>1, <4>2
    <3>2. CASE SettleSent(w) \/ SettleFailed(w)
      <4>1. PICK s \in {"sent", "failed", "pending"} :
              UpdateMessage(cur[w], AfterAttempt(rows[cur[w]], s, num[w]))
        BY <3>2 DEF SettleSent, SettleFailed
      <4>2. s \in States /\ rows[cur[w]] \in Row
        BY <2>1 DEF States
      <4> DEFINE r == AfterAttempt(rows[cur[w]], s, num[w])
      <4>3. r \in Row /\ r.st = s /\ r.pkt = rows[cur[w]].pkt
        BY <2>1, <4>2, AfterAttemptRow, SMTT(20)
      <4> HIDE DEF r
      <4>4. UpdateMessage(cur[w], r)
        BY <4>1 DEF r
      <4>5. QED
        BY <4>3, <4>4
    <3>3. QED
      BY <1>9, <3>1, <3>2
  <2>4. /\ \A n \in Messages : compose[n] = "new" => rows'[n] = NoRow
        /\ \A n \in Messages : rows'[n].st = "delivered" => n \in received
        /\ \A n \in Messages : (rows[n].st = "none" \/ rows[n].pkt)
             => (rows'[n].st = "none" \/ rows'[n].pkt)
    BY <2>1, <2>2, <2>3, UpdateInv
  <2>5. /\ UNCHANGED <<compose, todo, proving, air, proofs, received>>
        /\ \A v \in Workers : cur'[v] = cur[v] \/ cur'[v] = NoMsg
    BY <1>9 DEF MarkSending, SettleSent, SettleFailed, Returns, netVars
  <2>6. FreshIsClean'
    BY <2>4, <2>5 DEF IInv, FreshIsClean
  <2>7. QED
    BY <2>4, <2>5, <2>6
    DEF IInv, DeliveredIsReal, HeldIsPacked, TransmittedIsTracked
<1>10. ASSUME NEW w \in Workers, TransmitOk(w) \/ TransmitThrows(w) PROVE IInv'
  <2>1. cur[w] \in Messages
    BY <1>10 DEF TransmitOk, TransmitThrows, HoldsRow
  <2>2. /\ UNCHANGED <<rows, compose, todo, cur, num, proving, proofs, received>>
        /\ air' \subseteq air \cup {cur[w]}
    BY <1>10 DEF TransmitOk, TransmitThrows, netVars
  <2>3. compose[cur[w]] # "new" /\ (rows[cur[w]].st = "none" \/ rows[cur[w]].pkt)
    BY <2>1 DEF IInv, FreshIsClean, HeldIsPacked
  <2>4. FreshIsClean'
    BY <2>2, <2>3 DEF IInv, FreshIsClean
  <2>5. QED
    BY <2>2, <2>3, <2>4
    DEF IInv, DeliveredIsReal, HeldIsPacked, TransmittedIsTracked
<1>11. ASSUME NEW w \in Workers, Recheck(w) PROVE IInv'
  <2>1. /\ UNCHANGED <<rows, compose, todo, proving, air, proofs, received>>
        /\ \A v \in Workers : cur'[v] = cur[v] \/ cur'[v] = NoMsg
    BY <1>11 DEF Recheck, Returns, netVars
  <2>2. FreshIsClean'
    BY <2>1 DEF IInv, FreshIsClean
  <2>3. QED
    BY <2>1, <2>2 DEF IInv, DeliveredIsReal, HeldIsPacked, TransmittedIsTracked
<1>12. CASE RadioUp \/ RadioDown \/ UNCHANGED vars
  <2>1. UNCHANGED <<rows, compose, todo, cur, proving, air, proofs, received>>
    BY <1>12 DEF RadioUp, RadioDown, vars, workerVars, netVars
  <2>2. QED
    BY <2>1 DEF IInv, FreshIsClean, DeliveredIsReal, HeldIsPacked, TransmittedIsTracked
<1>13. CASE Reload
  <2>1. /\ UNCHANGED <<rows, air, proofs, received>>
        /\ proving' = {}
        /\ todo' = [w \in Workers |-> {}]
        /\ cur' = [w \in Workers |-> NoMsg]
        /\ \A n \in Messages : compose'[n] = "new" => compose[n] = "new"
    BY <1>13 DEF Reload, netVars
  <2>2. FreshIsClean'
    BY <2>1 DEF IInv, FreshIsClean
  <2>3. QED
    BY <2>1, <2>2 DEF IInv, DeliveredIsReal, HeldIsPacked, TransmittedIsTracked
<1>14. QED
  BY <1>1, <1>2, <1>3, <1>4, <1>5, <1>6, <1>7, <1>8, <1>9, <1>10, <1>11, <1>12,
     <1>13 DEF Next, Send, Worker

(* Types and the inductive invariant hold in every reachable state.         *)
LEMMA InvCorrect == Spec => [](TypeOK /\ IInv)
  BY InitType, NextType, InitInv, NextInv, PTL DEF Spec

(* A double check is shown only for a message the peer has.                 *)
THEOREM DeliveredCorrect == Spec => []DeliveredIsReal
<1>1. IInv => DeliveredIsReal
  BY DEF IInv
<1>2. QED
  BY <1>1, InvCorrect, PTL

(* The inductive invariant itself, which a run also checks.                 *)
THEOREM InvariantCorrect == Spec => []IInv
  BY InvCorrect, PTL

(* The row of every packet on the air holds the packet and its hash, or is  *)
(* deleted.                                                                 *)
THEOREM TrackedCorrect == Spec => []TransmittedIsTracked
<1>1. IInv => TransmittedIsTracked
  BY DEF IInv
<1>2. QED
  BY <1>1, InvCorrect, PTL

-----------------------------------------------------------------------------
(***************************************************************************)
(* Deleted rows.                                                            *)
(***************************************************************************)

(* No step but SaveRow, of a message not submitted yet, makes a row.        *)
LEMMA NextKeepsDeleted ==
  ASSUME TypeOK, [Next]_vars, NEW m \in Messages,
         compose[m] # "new", rows[m].st = "none"
  PROVE  rows'[m].st = "none"
<1>1. ASSUME NEW n \in Messages, SaveRow(n) PROVE rows'[m] = rows[m]
  BY <1>1 DEF SaveRow, TypeOK
<1>2. ASSUME NEW n \in Messages, NEW r, UpdateMessage(n, r) PROVE rows'[m] = rows[m]
  BY <1>2 DEF UpdateMessage, TypeOK
<1>3. ASSUME NEW n \in Messages,
             FillRow(n) \/ ComposeFails(n) \/ TooLarge(n) \/ LinkSettles(n)
      PROVE  rows'[m] = rows[m]
  BY <1>2, <1>3 DEF FillRow, ComposeFails, TooLarge, LinkSettles
<1>4. ASSUME NEW n \in Messages, ProofCommits(n) PROVE rows'[m] = rows[m]
  BY <1>2, <1>4 DEF ProofCommits
<1>5. ASSUME NEW w \in Workers, MarkSending(w) \/ SettleSent(w) \/ SettleFailed(w)
      PROVE  rows'[m] = rows[m]
  <2>1. cur[w] \in Messages
    BY <1>5 DEF MarkSending, SettleSent, SettleFailed, HoldsRow, TypeOK
  <2>2. QED
    BY <1>2, <1>5, <2>1 DEF MarkSending, SettleSent, SettleFailed
<1>6. ASSUME NEW n \in Messages, BackoffElapses(n) PROVE rows'[m].st = "none"
  BY <1>6 DEF BackoffElapses, TypeOK, Row
<1>7. ASSUME NEW n \in Messages, RemoveContact(n) PROVE rows'[m].st = "none"
  BY <1>7 DEF RemoveContact, TypeOK, NoRow
<1>8. ASSUME \/ \E n \in Messages : Network(n) \/ ProofArrives(n)
             \/ \E t \in Ticks : TickStart(t) \/ TickScan(t)
             \/ \E w \in Workers : \/ ReadRow(w) \/ TransmitOk(w)
                                   \/ TransmitThrows(w) \/ Recheck(w)
             \/ RadioUp \/ RadioDown \/ Reload \/ UNCHANGED vars
      PROVE  rows'[m] = rows[m]
  BY <1>8 DEF Network, PeerReceives, PeerAssembles, ProofArrives, TickStart,
    TickScan, ReadRow, TransmitOk, TransmitThrows, Recheck, RadioUp, RadioDown,
    Reload, vars
<1>9. QED
  BY <1>1, <1>3, <1>4, <1>5, <1>6, <1>7, <1>8 DEF Next, Send, Worker

(* A worker or a proof handler that outlives a conversation does not bring  *)
(* its rows back.                                                           *)
THEOREM DeletedCorrect == Spec => DeletedStaysDeleted
<1>1. TypeOK /\ [Next]_vars =>
        [\A m \in Messages :
           compose[m] # "new" /\ rows[m].st = "none" => rows'[m].st = "none"]_vars
  BY NextKeepsDeleted
<1>2. QED
  BY <1>1, TypeCorrect, PTL DEF Spec, DeletedStaysDeleted

-----------------------------------------------------------------------------
(***************************************************************************)
(* Refinement: Outbound implements DeliveryContract. Each step maps to a    *)
(* contract step of one message, or to a stutter.                           *)
(***************************************************************************)
(* The initial states map to the contract's.                                *)
LEMMA InitContract == Init => Contract!Init
  BY DEF Init, Contract!Init, Status

(* A change of one message's row, in a step that leaves compose alone or    *)
(* that does not make a submitted message new, is a contract step, provided *)
(* "delivered" is written only for a message the peer has.                  *)
LEMMA RowStepContract ==
  ASSUME TypeOK, TypeOK', NEW m \in Messages,
         \A n \in Messages : n # m => rows'[n] = rows[n],
         \A n \in Messages : compose'[n] = "new" <=> compose[n] = "new",
         compose[m] # "new",
         rows[m].st = "none" => rows'[m].st = "none",
         rows'[m].st = "delivered" => m \in received,
         received' = received
  PROVE  Contract!Next \/ UNCHANGED Contract!vars
<1> DEFINE S == [n \in Messages |-> Status(n)]
<1>1. \A n \in Messages : n # m => S'[n] = S[n]
  BY DEF Status
<1>2. S' = [S EXCEPT ![m] = S'[m]]
  BY <1>1
<1>3. /\ S[m] = ShownAs[rows[m].st] /\ S'[m] = ShownAs[rows'[m].st]
      /\ rows[m].st \in States /\ rows'[m].st \in States
  BY DEF Status, TypeOK, Row
<1>4. \A s \in States :
        /\ ShownAs[s] \in {"deleted", "open", "abandoned", "confirmed"}
        /\ ShownAs[s] = "deleted" <=> s = "none"
        /\ ShownAs[s] = "confirmed" <=> s = "delivered"
  BY DEF States, ShownAs
<1>5. S[m] = "deleted" => S'[m] = "deleted"
  BY <1>3, <1>4
<1>6. S'[m] = "confirmed" => m \in received
  BY <1>3, <1>4
<1> HIDE DEF S
<1>7. \/ S'[m] = S[m]
      \/ S'[m] = "open" /\ S[m] \in {"abandoned", "confirmed"}
      \/ S'[m] = "abandoned" /\ S[m] \in {"open", "confirmed"}
      \/ S'[m] = "confirmed" /\ S[m] \in {"open", "abandoned"}
      \/ S'[m] = "deleted" /\ S[m] \in {"open", "abandoned", "confirmed"}
  BY <1>3, <1>4, <1>5, SMT
<1>8. S'[m] = S[m] => S' = S
  BY <1>2 DEF S
<1>9. QED
  BY <1>2, <1>6, <1>7, <1>8
  DEF S, Contract!Next, Contract!vars, Contract!Waver, Contract!Abandon,
      Contract!Confirm, Contract!Delete

(* updateMessage is such a change.                                          *)
LEMMA UpdateContract ==
  ASSUME TypeOK, TypeOK', IInv', NEW m \in Messages, NEW r,
         UpdateMessage(m, r),
         \A n \in Messages : compose'[n] = "new" <=> compose[n] = "new",
         compose[m] # "new",
         received' = received
  PROVE  Contract!Next \/ UNCHANGED Contract!vars
<1>1. /\ \A n \in Messages : n # m => rows'[n] = rows[n]
      /\ rows[m].st = "none" => rows'[m].st = "none"
  BY DEF UpdateMessage, TypeOK
<1>2. rows'[m].st = "delivered" => m \in received
  BY DEF IInv, DeliveredIsReal
<1>3. QED
  BY <1>1, <1>2, RowStepContract

(* Each step is a contract step or a stutter.                               *)
LEMMA NextContract ==
  TypeOK /\ TypeOK' /\ IInv /\ IInv' /\ [Next]_vars
    => [Contract!Next]_(Contract!vars)
<1> SUFFICES ASSUME TypeOK, TypeOK', IInv, IInv', [Next]_vars
             PROVE  Contract!Next \/ UNCHANGED Contract!vars
  OBVIOUS
<1>1. ASSUME NEW m \in Messages, SaveRow(m)
      PROVE  Contract!Next
  <2>1. /\ compose[m] = "new" /\ compose'[m] = "building"
        /\ \A n \in Messages : n # m => rows'[n] = rows[n] /\ compose'[n] = compose[n]
        /\ rows'[m].st \in {"sending", "pending"}
        /\ received' = received
    BY <1>1 DEF SaveRow, TypeOK, NoRow, netVars
  <2>2. Status(m) = "unsent" /\ Status(m)' = "open"
    BY <2>1 DEF Status, ShownAs
  <2>3. \A n \in Messages : n # m => Status(n)' = Status(n)
    BY <2>1 DEF Status
  <2>4. Contract!Submit(m)
    BY <2>1, <2>2, <2>3 DEF Contract!Submit
  <2>5. QED
    BY <2>4 DEF Contract!Next
<1>2. ASSUME NEW m \in Messages, FillRow(m) \/ ComposeFails(m) \/ LinkSettles(m)
      PROVE  Contract!Next \/ UNCHANGED Contract!vars
  <2>1. /\ compose[m] # "new"
        /\ \A n \in Messages : compose'[n] = "new" <=> compose[n] = "new"
        /\ received' = received
    BY <1>2 DEF FillRow, ComposeFails, LinkSettles, TypeOK, netVars
  <2>2. PICK r : UpdateMessage(m, r)
    BY <1>2 DEF FillRow, ComposeFails, LinkSettles
  <2>3. QED
    BY <2>1, <2>2, UpdateContract
<1>3. ASSUME NEW m \in Messages, TooLarge(m)
      PROVE  Contract!Next \/ UNCHANGED Contract!vars
  <2>1. /\ compose[m] # "new"
        /\ \A n \in Messages : compose'[n] = "new" <=> compose[n] = "new"
        /\ received' = received
    BY <1>3 DEF TooLarge, TypeOK, netVars
  <2>2. CASE UNCHANGED rows
    BY <2>1, <2>2 DEF Contract!vars, Status
  <2>3. CASE UpdateMessage(m, WithState(m, "failed"))
    BY <2>1, <2>3, UpdateContract
  <2>4. QED
    BY <1>3, <2>2, <2>3 DEF TooLarge
<1>4. ASSUME NEW m \in Messages, ProofCommits(m)
      PROVE  Contract!Next \/ UNCHANGED Contract!vars
  <2>1. /\ compose[m] # "new" /\ UNCHANGED <<compose, received>>
        /\ UpdateMessage(m, WithState(m, "delivered"))
    BY <1>4 DEF ProofCommits, IInv, FreshIsClean, netVars
  <2>2. QED
    BY <2>1, UpdateContract
<1>5. ASSUME NEW w \in Workers, MarkSending(w) \/ SettleSent(w) \/ SettleFailed(w)
      PROVE  Contract!Next \/ UNCHANGED Contract!vars
  <2>1. cur[w] \in Messages
    BY <1>5 DEF MarkSending, SettleSent, SettleFailed, HoldsRow, TypeOK
  <2>2. compose[cur[w]] # "new" /\ UNCHANGED <<compose, received>>
    BY <1>5, <2>1 DEF MarkSending, SettleSent, SettleFailed, IInv, FreshIsClean, netVars
  <2>3. PICK r : UpdateMessage(cur[w], r)
    BY <1>5 DEF MarkSending, SettleSent, SettleFailed
  <2>4. QED
    BY <2>1, <2>2, <2>3, UpdateContract
<1>6. ASSUME NEW m \in Messages, BackoffElapses(m) \/ RemoveContact(m)
      PROVE  Contract!Next \/ UNCHANGED Contract!vars
  <2>1. rows[m] # NoRow
    BY <1>6 DEF BackoffElapses, RemoveContact, NoRow
  <2>2. compose[m] # "new"
    BY <2>1 DEF IInv, FreshIsClean
  <2>3. /\ UNCHANGED <<compose, received>>
        /\ \A n \in Messages : n # m => rows'[n] = rows[n]
        /\ rows'[m].st \in {"none", rows[m].st}
    BY <1>6 DEF BackoffElapses, RemoveContact, NoRow, Row, TypeOK, pageVars, netVars
  <2>4. rows'[m].st = "delivered" => m \in received
    BY <2>3 DEF IInv, DeliveredIsReal
  <2>5. QED
    BY <2>2, <2>3, <2>4, RowStepContract
<1>7. ASSUME NEW m \in Messages, Network(m)
      PROVE  Contract!Next \/ UNCHANGED Contract!vars
  <2>1. compose[m] # "new"
    BY <1>7 DEF Network, PeerReceives, PeerAssembles, IInv, FreshIsClean
  <2>2. UNCHANGED <<rows, compose>> /\ received' = received \cup {m}
    BY <1>7 DEF Network, PeerReceives, PeerAssembles, pageVars
  <2>3. Status(m) # "unsent"
    BY <2>1 DEF Status, ShownAs, TypeOK, Row, States
  <2>4. Contract!Arrive(m)
    BY <2>2, <2>3 DEF Contract!Arrive, Status
  <2>5. QED
    BY <2>4 DEF Contract!Next
<1>8. ASSUME \/ \E n \in Messages : ProofArrives(n)
             \/ \E t \in Ticks : TickStart(t) \/ TickScan(t)
             \/ \E w \in Workers : \/ ReadRow(w) \/ TransmitOk(w)
                                   \/ TransmitThrows(w) \/ Recheck(w)
             \/ RadioUp \/ RadioDown \/ UNCHANGED vars
      PROVE  UNCHANGED Contract!vars
  <2>1. UNCHANGED <<rows, compose, received>>
    BY <1>8 DEF ProofArrives, TickStart, TickScan, ReadRow, TransmitOk,
      TransmitThrows, Recheck, RadioUp, RadioDown, vars, netVars
  <2>2. QED
    BY <2>1 DEF Contract!vars, Status
<1>9. ASSUME Reload PROVE UNCHANGED Contract!vars
  <2>1. /\ UNCHANGED <<rows, received>>
        /\ \A n \in Messages : compose'[n] = "new" <=> compose[n] = "new"
    BY <1>9 DEF Reload, netVars
  <2>2. \A n \in Messages : Status(n)' = Status(n)
    BY <2>1 DEF Status
  <2>3. QED
    BY <2>1, <2>2 DEF Contract!vars
<1>10. QED
  BY <1>1, <1>2, <1>3, <1>4, <1>5, <1>6, <1>7, <1>8, <1>9 DEF Next, Send, Worker

(* Whatever the ticks, proofs, reloads and the network do, what the user is *)
(* told of a message follows DeliveryContract.                              *)
THEOREM ImplementsContract == Spec => KeepsContract
<1>1. TypeOK /\ TypeOK' /\ IInv /\ IInv' /\ [Next]_vars => [Contract!Next]_(Contract!vars)
  BY NextContract
<1>2. QED
  BY <1>1, InitContract, InvCorrect, PTL DEF Spec, KeepsContract, Contract!Spec

-----------------------------------------------------------------------------
(***************************************************************************)
(* The retry budget. A call writes the attempt number it read before, and   *)
(* may so set the row's count back; but as long as each transmission of a   *)
(* row was made while nobody else had it, every number read since covers    *)
(* the transmissions before, and each has an attempt of the budget left.    *)
(***************************************************************************)
(* Nobody sends a message that sendMessage has not handed over yet.         *)
Unsent ==
  \A m \in Messages : compose[m] # "done" =>
    /\ rows[m].pkt = FALSE /\ rows[m].att = 0 /\ tx[m] = 0
    /\ \A w \in Workers : cur[w] # m

(* A caller is not to hand over the row that its call works on.             *)
HandedOnce == \A w \in Workers : \A m \in todo[w] : cur[w] # m

(* The row counts at least the transmissions; a caller that has it in hand, *)
(* and a call that is yet to transmit, has an attempt left.                 *)
Covered(m) ==
  /\ tx[m] <= MaxAttempts
  /\ rows[m].st # "none" => tx[m] <= rows[m].att
  /\ \A w \in Workers :
       /\ m \in todo[w] => tx[m] < MaxAttempts
       /\ cur[w] = m /\ pc[w] \in {"mark", "transmit"} =>
            /\ tx[m] < MaxAttempts /\ tx[m] < num[w]
            /\ pc[w] = "transmit" /\ rows[m].st # "none" => tx[m] < rows[m].att

LoneCovered == \A m \in Messages : m \notin overlapped => Covered(m)

BudgetInv == Unsent /\ HandedOnce /\ LoneCovered

(* Initially nothing was transmitted and nobody has a row.                  *)
LEMMA BudgetInit == Init => BudgetInv
<1> SUFFICES ASSUME Init PROVE BudgetInv
  OBVIOUS
<1> USE OutboundAssumption
<1>1. \A w \in Workers : todo[w] = {} /\ cur[w] \notin Messages /\ pc[w] = "loop"
  BY DEF Init
<1>2. \A m \in Messages : rows[m].att = 0 /\ rows[m].pkt = FALSE /\ tx[m] = 0
  BY DEF Init, NoRow
<1>3. Unsent /\ HandedOnce
  BY <1>1, <1>2 DEF Unsent, HandedOnce
<1>4. LoneCovered
  BY <1>1, <1>2 DEF LoneCovered, Covered
<1> QED
  BY <1>3, <1>4 DEF BudgetInv

(* A step that leaves the callers and the attempts of the rows alone.       *)
LEMMA RowKeepsBudget ==
  ASSUME TypeOK, TypeOK', BudgetInv, UNCHANGED <<pc, todo, cur, num, tx, overlapped>>,
         \A n \in Messages :
           /\ rows'[n].st # "none" => rows[n].st # "none" /\ rows'[n].att = rows[n].att
           /\ compose'[n] # "done" =>
                compose[n] # "done" /\ rows'[n].pkt = FALSE /\ rows'[n].att = 0
  PROVE  BudgetInv'
<1>1. Unsent' /\ HandedOnce'
  BY DEF BudgetInv, Unsent, HandedOnce
<1>2. LoneCovered'
  BY DEF BudgetInv, LoneCovered, Covered
<1> QED
  BY <1>1, <1>2 DEF BudgetInv

(* updateMessage that leaves the attempts of the row alone, once its        *)
(* message is handed over or given up.                                      *)
LEMMA UpdateKeepsBudget ==
  ASSUME TypeOK, TypeOK', BudgetInv, NEW m \in Messages, NEW r \in Row, UpdateMessage(m, r),
         UNCHANGED <<pc, todo, cur, num, tx, overlapped>>,
         \A n \in Messages : n # m => compose'[n] = compose[n],
         r.att = rows[m].att, compose'[m] = "done"
  PROVE  BudgetInv'
<1>1. /\ \A n \in Messages : n # m => rows'[n] = rows[n]
      /\ rows'[m] = IF rows[m].st = "none" THEN rows[m] ELSE r
  BY UpdateType DEF TypeOK
<1>2. \A n \in Messages :
        /\ rows'[n].st # "none" => rows[n].st # "none" /\ rows'[n].att = rows[n].att
        /\ compose'[n] # "done" =>
             compose[n] # "done" /\ rows'[n].pkt = FALSE /\ rows'[n].att = 0
  BY <1>1 DEF BudgetInv, Unsent
<1> QED
  BY <1>2, RowKeepsBudget

(* sendMessage counts no attempt.                                           *)
LEMMA SendKeepsBudget ==
  ASSUME TypeOK, TypeOK', BudgetInv, NEW m \in Messages, Send(m)
  PROVE  BudgetInv'
<1> USE OutboundAssumption
<1>1. /\ UNCHANGED <<pc, cur, num, tx, overlapped>> /\ compose[m] # "done"
      /\ \A n \in Messages : n # m => compose'[n] = compose[n]
  BY DEF Send, SaveRow, FillRow, ComposeFails, TooLarge, LinkSettles, TypeOK, netVars
<1>2. /\ rows[m].pkt = FALSE /\ rows[m].att = 0 /\ tx[m] = 0
      /\ \A w \in Workers : cur[w] # m
  BY <1>1 DEF BudgetInv, Unsent
<1>3. CASE SaveRow(m)
  <2>1. UNCHANGED todo
    BY <1>3 DEF SaveRow
  <2>2. /\ \A n \in Messages : n # m => rows'[n] = rows[n]
        /\ rows'[m].pkt = FALSE /\ rows'[m].att = 0
    BY <1>3 DEF SaveRow, TypeOK, NoRow
  <2>3. Unsent' /\ HandedOnce'
    BY <1>1, <1>2, <2>1, <2>2 DEF Unsent, HandedOnce, BudgetInv
  <2>4. LoneCovered'
    BY <1>1, <1>2, <2>1, <2>2 DEF LoneCovered, Covered, BudgetInv
  <2> QED
    BY <2>3, <2>4 DEF BudgetInv
<1>4. CASE FillRow(m)
  <2>1. PICK r \in Row : /\ UpdateMessage(m, r) /\ r.att = rows[m].att
    <3> DEFINE r == [rows[m] EXCEPT !.pkt = TRUE]
    <3>1. r \in Row /\ r.att = rows[m].att
      BY PacketWritten DEF TypeOK
    <3>2. UpdateMessage(m, r)
      BY <1>4 DEF FillRow
    <3> HIDE DEF r
    <3> QED
      BY <3>1, <3>2
  <2>2. /\ \A n \in Messages : n # m => rows'[n] = rows[n]
        /\ rows'[m].att = 0
    BY <1>2, <2>1, UpdateType DEF TypeOK
  <2>3. /\ m \in Workers /\ \A w \in Workers : todo'[w] \subseteq todo[w] \cup {m}
        /\ \A w \in Workers : w # m => todo'[w] = todo[w]
        /\ compose'[m] = "done"
    BY <1>4 DEF FillRow, TypeOK, Workers
  <2>4. Unsent' /\ HandedOnce'
    BY <1>1, <1>2, <2>2, <2>3 DEF Unsent, HandedOnce, BudgetInv
  <2>5. LoneCovered'
    BY <1>1, <1>2, <2>2, <2>3 DEF LoneCovered, Covered, BudgetInv
  <2> QED
    BY <2>4, <2>5 DEF BudgetInv
<1>5. CASE ComposeFails(m)
  <2>1. WithState(m, "failed") \in Row /\ WithState(m, "failed").att = rows[m].att
    BY StateWritten DEF TypeOK, States
  <2>2. UNCHANGED todo /\ compose'[m] = "done" /\ UpdateMessage(m, WithState(m, "failed"))
    BY <1>5 DEF ComposeFails, TypeOK
  <2> QED
    BY <1>1, <2>1, <2>2, UpdateKeepsBudget
<1>6. CASE TooLarge(m)
  <2>1. WithState(m, "failed") \in Row /\ WithState(m, "failed").att = rows[m].att
    BY StateWritten DEF TypeOK, States
  <2>2. /\ UNCHANGED todo
        /\ \/ UNCHANGED rows
           \/ compose'[m] = "done" /\ UpdateMessage(m, WithState(m, "failed"))
    BY <1>6 DEF TooLarge, TypeOK
  <2>3. CASE UNCHANGED rows
    BY <1>1, <1>2, <2>2, <2>3, RowKeepsBudget DEF BudgetInv, Unsent
  <2> QED
    BY <1>1, <2>1, <2>2, <2>3, UpdateKeepsBudget
<1>7. CASE LinkSettles(m)
  <2>1. PICK s : s \in {"delivered", "sent", "failed"} /\ UpdateMessage(m, WithState(m, s))
    BY <1>7 DEF LinkSettles
  <2>2. WithState(m, s) \in Row /\ WithState(m, s).att = rows[m].att
    BY <2>1, StateWritten DEF TypeOK, States
  <2>3. UNCHANGED todo /\ compose'[m] = "done"
    BY <1>7 DEF LinkSettles, TypeOK
  <2> QED
    BY <1>1, <2>1, <2>2, <2>3, UpdateKeepsBudget
<1> QED
  BY <1>3, <1>4, <1>5, <1>6, <1>7 DEF Send

(* The network, the clock, the proofs, the user and the radio.              *)
LEMMA RestKeepsBudget ==
  ASSUME TypeOK, TypeOK', BudgetInv,
         \/ \E m \in Messages : \/ Network(m) \/ BackoffElapses(m) \/ ProofArrives(m)
                                \/ ProofCommits(m) \/ RemoveContact(m)
         \/ RadioUp \/ RadioDown
  PROVE  BudgetInv'
<1>1. ASSUME UNCHANGED <<rows, compose>>,
             \/ \E m \in Messages : Network(m) \/ ProofArrives(m)
             \/ RadioUp \/ RadioDown
      PROVE  BudgetInv'
  <2>1. UNCHANGED <<pc, todo, cur, num, tx, overlapped>>
    BY <1>1 DEF Network, PeerReceives, PeerAssembles, ProofArrives, RadioUp, RadioDown,
                pageVars, workerVars, netVars
  <2> QED
    BY <1>1, <2>1, RowKeepsBudget DEF BudgetInv, Unsent
<1>2. ASSUME NEW m \in Messages, BackoffElapses(m) \/ RemoveContact(m) PROVE BudgetInv'
  <2>1. /\ UNCHANGED <<compose, pc, todo, cur, num, tx, overlapped>>
        /\ \A n \in Messages : n # m => rows'[n] = rows[n]
    BY <1>2 DEF BackoffElapses, RemoveContact, pageVars, netVars, TypeOK
  <2>2. \/ rows'[m].st = "none" /\ rows'[m].att = 0 /\ rows'[m].pkt = FALSE
        \/ rows'[m].st = rows[m].st /\ rows'[m].att = rows[m].att /\ rows'[m].pkt = rows[m].pkt
    BY <1>2 DEF BackoffElapses, RemoveContact, TypeOK, Row, NoRow
  <2> QED
    BY <2>1, <2>2, RowKeepsBudget DEF BudgetInv, Unsent
<1>3. ASSUME NEW m \in Messages, ProofCommits(m) PROVE BudgetInv'
  <2>1. /\ UNCHANGED <<compose, pc, todo, cur, num, tx, overlapped>> /\ m \in proving
        /\ UpdateMessage(m, WithState(m, "delivered"))
    BY <1>3 DEF ProofCommits, workerVars, netVars
  <2>2. /\ WithState(m, "delivered") \in Row /\ WithState(m, "delivered").att = rows[m].att
        /\ WithState(m, "delivered").pkt = rows[m].pkt
    BY StateWritten DEF TypeOK, States
  <2>3. /\ \A n \in Messages : n # m => rows'[n] = rows[n]
        /\ rows'[m].att = rows[m].att /\ rows'[m].pkt = rows[m].pkt
        /\ rows'[m].st # "none" => rows[m].st # "none"
    BY <2>1, <2>2, UpdateType DEF TypeOK
  <2> QED
    BY <2>1, <2>3, RowKeepsBudget DEF BudgetInv, Unsent
<1>4. ASSUME \/ \E m \in Messages : Network(m) \/ ProofArrives(m)
             \/ RadioUp \/ RadioDown
      PROVE  UNCHANGED <<rows, compose>>
  BY <1>4 DEF Network, PeerReceives, PeerAssembles, ProofArrives, RadioUp, RadioDown, pageVars
<1> QED
  BY <1>1, <1>2, <1>3, <1>4

(* A tick's snapshot has only rows with an attempt left, however many ticks *)
(* there are.                                                               *)
LEMMA TickKeepsBudget ==
  ASSUME TypeOK, TypeOK', BudgetInv, NEW t \in Ticks, TickStart(t) \/ TickScan(t)
  PROVE  BudgetInv'
<1>1. UNCHANGED <<rows, compose, cur, num, tx, overlapped>> /\ t \in Workers
  BY DEF TickStart, TickScan, netVars, Workers
<1>2. /\ \A w \in Workers : w # t => pc'[w] = pc[w] /\ todo'[w] = todo[w]
      /\ cur[t] \notin Messages
  BY <1>1, OutboundAssumption DEF TickStart, TickScan, TypeOK, HoldsRow
<1>3. \A m \in todo'[t] : m \in todo[t] \/ MayResend(rows[m])
  BY <1>1 DEF TickStart, TickScan, TypeOK
<1>4. ASSUME NEW m \in Messages, Covered(m), MayResend(rows[m])
      PROVE  tx[m] < MaxAttempts
  <2>1. rows[m].att < MaxAttempts /\ rows[m].st # "none" /\ rows[m].att \in Nat /\ tx[m] \in Nat
    BY <1>4 DEF MayResend, TypeOK, Row
  <2>2. tx[m] <= rows[m].att
    BY <1>4, <2>1 DEF Covered
  <2> QED
    BY <2>1, <2>2, OutboundAssumption
<1>5. Unsent' /\ HandedOnce'
  BY <1>1, <1>2 DEF BudgetInv, Unsent, HandedOnce, TypeOK
<1>6. LoneCovered'
  BY <1>1, <1>2, <1>3, <1>4 DEF BudgetInv, LoneCovered, Covered
<1> QED
  BY <1>5, <1>6 DEF BudgetInv

(* A call reads the attempt number its transmission will count as.          *)
LEMMA ReadKeepsBudget ==
  ASSUME TypeOK, TypeOK', BudgetInv, NEW w \in Workers, ReadRow(w)
  PROVE  BudgetInv'
<1>1. PICK m \in todo[w] :
        /\ todo' = [todo EXCEPT ![w] = todo[w] \ {m}]
        /\ IF Sendable(rows[m])
             THEN /\ cur' = [cur EXCEPT ![w] = m]
                  /\ num' = [num EXCEPT ![w] = rows[m].att + 1]
                  /\ pc' = [pc EXCEPT ![w] = "mark"]
             ELSE UNCHANGED <<pc, cur, num>>
  BY DEF ReadRow
<1>2. m \in Messages /\ UNCHANGED <<rows, compose, tx, overlapped>>
      /\ rows[m].att \in Nat /\ tx[m] \in Nat
  BY <1>1 DEF ReadRow, TypeOK, Row, netVars
<1>3. \A v \in Workers : todo'[v] \subseteq todo[v] /\ (v = w => m \notin todo'[v])
  BY <1>1 DEF TypeOK
<1>4. CASE Sendable(rows[m])
  <2>1. /\ cur'[w] = m /\ num'[w] = rows[m].att + 1 /\ pc'[w] = "mark"
        /\ \A v \in Workers : v # w => pc'[v] = pc[v] /\ cur'[v] = cur[v] /\ num'[v] = num[v]
    BY <1>1, <1>4 DEF TypeOK
  <2>2. rows[m].st # "none" /\ rows[m].pkt = TRUE
    BY <1>2, <1>4 DEF Sendable, TypeOK, Row
  <2>3. Unsent' /\ HandedOnce'
    BY <1>2, <1>3, <2>1, <2>2 DEF BudgetInv, Unsent, HandedOnce
  <2>4. m \notin overlapped => tx[m] < MaxAttempts /\ tx[m] < num'[w]
    <3>1. m \notin overlapped => tx[m] < MaxAttempts /\ tx[m] <= rows[m].att
      BY <1>2, <2>2 DEF BudgetInv, LoneCovered, Covered
    <3> QED
      BY <1>2, <2>1, <3>1
  <2>5. LoneCovered'
    BY <1>2, <1>3, <2>1, <2>4 DEF BudgetInv, LoneCovered, Covered
  <2> QED
    BY <2>3, <2>5 DEF BudgetInv
<1>5. CASE ~Sendable(rows[m])
  <2>1. UNCHANGED <<pc, cur, num>>
    BY <1>1, <1>5
  <2> QED
    BY <1>2, <1>3, <2>1 DEF BudgetInv, Unsent, HandedOnce, LoneCovered, Covered
<1> QED
  BY <1>4, <1>5

(* A call that writes its attempt number sets back no count below the       *)
(* transmissions made.                                                      *)
LEMMA MarkKeepsBudget ==
  ASSUME TypeOK, TypeOK', BudgetInv, NEW w \in Workers, MarkSending(w)
  PROVE  BudgetInv'
<1>1. PICK m \in Messages : m = cur[w]
  BY DEF MarkSending, TypeOK, HoldsRow
<1>2. PICK n \in Nat : n = num[w]
  BY DEF TypeOK
<1>3. PICK r \in Row : r = Marked(rows[m], n) /\ r.att = n
  BY MarkWritten DEF TypeOK
<1>4. /\ UpdateMessage(m, r) /\ UNCHANGED <<compose, todo, cur, num, tx, overlapped>>
      /\ pc[w] = "mark" /\ pc'[w] = "transmit"
      /\ \A v \in Workers : v # w => pc'[v] = pc[v]
  BY <1>1, <1>2, <1>3 DEF MarkSending, netVars, TypeOK
<1>5. /\ \A k \in Messages : k # m => rows'[k] = rows[k]
      /\ rows'[m] = IF rows[m].st = "none" THEN rows[m] ELSE r
  BY <1>4, UpdateType DEF TypeOK
<1>6. Unsent' /\ HandedOnce'
  BY <1>1, <1>4, <1>5 DEF BudgetInv, Unsent, HandedOnce
<1>7. ASSUME NEW k \in Messages, k \notin overlapped PROVE Covered(k)'
  <2>1. Covered(k)
    BY <1>7 DEF BudgetInv, LoneCovered
  <2>2. CASE k # m
    BY <1>1, <1>4, <1>5, <2>1, <2>2 DEF Covered
  <2>3. CASE k = m
    <3>1. tx[m] < n /\ tx[m] < MaxAttempts /\ tx[m] \in Nat
      BY <1>1, <1>2, <1>4, <2>1, <2>3 DEF Covered, TypeOK
    <3>2. rows'[m].st # "none" => rows'[m].att = n
      BY <1>3, <1>5
    <3> QED
      BY <1>1, <1>2, <1>4, <2>1, <2>3, <3>1, <3>2 DEF Covered
  <2> QED
    BY <2>2, <2>3
<1> QED
  BY <1>4, <1>6, <1>7 DEF BudgetInv, LoneCovered

(* A transmission nobody else had the row for takes one of the attempts.    *)
LEMMA TransmitKeepsBudget ==
  ASSUME TypeOK, TypeOK', BudgetInv, NEW w \in Workers, TransmitOk(w)
  PROVE  BudgetInv'
<1>1. PICK m \in Messages : m = cur[w]
  BY DEF TransmitOk, TypeOK, HoldsRow
<1>2. /\ UNCHANGED <<rows, compose, todo, cur, num>>
      /\ pc[w] = "transmit" /\ pc'[w] = "recheckSent"
      /\ \A v \in Workers : v # w => pc'[v] = pc[v]
      /\ \A k \in Messages : k # m => tx'[k] = tx[k]
      /\ tx'[m] \in {tx[m], tx[m] + 1} /\ tx[m] \in Nat
      /\ overlapped \subseteq overlapped'
  BY <1>1 DEF TransmitOk, TypeOK
<1>3. Unsent' /\ HandedOnce'
  BY <1>1, <1>2 DEF BudgetInv, Unsent, HandedOnce
<1>4. ASSUME NEW k \in Messages, k \notin overlapped' PROVE Covered(k)'
  <2>1. Covered(k)
    BY <1>2, <1>4 DEF BudgetInv, LoneCovered
  <2>2. CASE tx'[k] = tx[k]
    BY <1>2, <2>1, <2>2 DEF Covered
  <2>3. CASE tx'[k] # tx[k]
    <3>1. k = m /\ tx'[m] = tx[m] + 1
      BY <1>2, <2>3
    <3>2. \A v \in Workers \ {w} : m \notin todo[v] /\ cur[v] # m
      BY <1>1, <1>4, <2>3, <3>1 DEF TransmitOk, Holds
    <3>3. m \notin todo[w]
      BY <1>1 DEF BudgetInv, HandedOnce
    <3>4. tx[m] < MaxAttempts /\ (rows[m].st # "none" => tx[m] < rows[m].att)
          /\ rows[m].att \in Nat
      BY <1>1, <1>2, <2>1, <3>1 DEF Covered, TypeOK, Row
    <3>5. tx'[m] <= MaxAttempts /\ (rows[m].st # "none" => tx'[m] <= rows[m].att)
      BY <1>2, <3>1, <3>4, OutboundAssumption
    <3> QED
      BY <1>2, <3>1, <3>2, <3>3, <3>5 DEF Covered
  <2> QED
    BY <2>2, <2>3
<1> QED
  BY <1>3, <1>4 DEF BudgetInv, LoneCovered

(* The rest of a call leaves the counts alone.                              *)
LEMMA EndKeepsBudget ==
  ASSUME TypeOK, TypeOK', BudgetInv, NEW w \in Workers,
         TransmitThrows(w) \/ Recheck(w) \/ SettleSent(w) \/ SettleFailed(w)
  PROVE  BudgetInv'
<1>1. PICK m \in Messages : m = cur[w]
  BY DEF TransmitThrows, Recheck, SettleSent, SettleFailed, TypeOK, HoldsRow
<1>2. /\ UNCHANGED <<compose, todo, tx, overlapped>> /\ pc'[w] \notin {"mark", "transmit"}
      /\ cur'[w] \in {NoMsg, m}
      /\ \A v \in Workers : v # w => pc'[v] = pc[v] /\ cur'[v] = cur[v] /\ num'[v] = num[v]
  BY <1>1 DEF TransmitThrows, Recheck, SettleSent, SettleFailed, Returns, TypeOK, netVars
<1>3. compose[m] = "done"
  BY <1>1 DEF BudgetInv, Unsent
<1>4. \A k \in Messages : /\ k # m => rows'[k] = rows[k]
                          /\ rows'[k].st # "none" => rows[k].st # "none"
                          /\ rows'[k].att = rows[k].att
  <2>1. CASE UNCHANGED rows
    BY <2>1
  <2>2. CASE SettleSent(w) \/ SettleFailed(w)
    <3>1. PICK n \in Nat, s \in States : UpdateMessage(m, AfterAttempt(rows[m], s, n))
      BY <1>1, <2>2 DEF SettleSent, SettleFailed, States, TypeOK
    <3>2. PICK r : /\ r = AfterAttempt(rows[m], s, n)
                   /\ r \in Row /\ r.att = rows[m].att
      BY AfterAttemptRow DEF TypeOK
    <3>3. /\ \A k \in Messages : k # m => rows'[k] = rows[k]
          /\ rows'[m] = IF rows[m].st = "none" THEN rows[m] ELSE r
      BY <3>1, <3>2, UpdateType DEF TypeOK
    <3> QED
      BY <3>2, <3>3
  <2> QED
    BY <2>1, <2>2 DEF TransmitThrows, Recheck
<1>5. Unsent'
  BY <1>2, <1>3, <1>4, OutboundAssumption DEF BudgetInv, Unsent
<1>6. HandedOnce'
  BY <1>1, <1>2, OutboundAssumption DEF BudgetInv, HandedOnce, TypeOK
<1>7. LoneCovered'
  BY <1>2, <1>4 DEF BudgetInv, LoneCovered, Covered
<1> QED
  BY <1>5, <1>6, <1>7 DEF BudgetInv

(* A reload leaves nobody with a row in hand.                               *)
LEMMA ReloadKeepsBudget ==
  ASSUME TypeOK, TypeOK', BudgetInv, Reload
  PROVE  BudgetInv'
<1>1. /\ UNCHANGED <<rows, tx, overlapped>>
      /\ \A m \in Messages : compose'[m] # "done" => compose[m] # "done"
      /\ \A w \in Workers : todo'[w] = {} /\ cur'[w] \notin Messages
  BY OutboundAssumption DEF Reload, netVars, TypeOK
<1>2. Unsent' /\ HandedOnce'
  BY <1>1 DEF BudgetInv, Unsent, HandedOnce
<1>3. LoneCovered'
  BY <1>1 DEF BudgetInv, LoneCovered, Covered
<1> QED
  BY <1>2, <1>3 DEF BudgetInv

(* Each step keeps the invariant; one case per kind of step.                *)
LEMMA StepKeepsBudget ==
  TypeOK /\ TypeOK' /\ BudgetInv /\ [Next]_vars => BudgetInv'
<1> SUFFICES ASSUME TypeOK, TypeOK', BudgetInv, [Next]_vars PROVE BudgetInv'
  OBVIOUS
<1>1. CASE UNCHANGED vars
  BY <1>1 DEF vars, BudgetInv, Unsent, HandedOnce, LoneCovered, Covered
<1>2. ASSUME NEW w \in Workers, Worker(w) PROVE BudgetInv'
  BY <1>2, ReadKeepsBudget, MarkKeepsBudget, TransmitKeepsBudget, EndKeepsBudget DEF Worker
<1> QED
  BY <1>1, <1>2, SendKeepsBudget, RestKeepsBudget, TickKeepsBudget, ReloadKeepsBudget DEF Next

(* However many ticks overlap, whatever proofs, deletions, sessions and     *)
(* reloads come between, a packet goes out more than MSG_MAX_ATTEMPTS times *)
(* only if one of its transmissions was made while a second caller had its  *)
(* row (outboundRetryTick, doOutboundSend).                                 *)
THEOREM BudgetCorrect == Spec => []OverspentByOverlap
<1>1. TypeOK /\ BudgetInv => OverspentByOverlap
  BY OutboundAssumption DEF BudgetInv, LoneCovered, Covered, OverspentByOverlap, TypeOK
<1> QED
  BY <1>1, BudgetInit, StepKeepsBudget, TypeCorrect, PTL DEF Spec
=============================================================================
