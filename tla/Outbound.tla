------------------------------- MODULE Outbound -------------------------------
(***************************************************************************)
(* The outbound message state machine of js/app.js: sendMessage, the core   *)
(* send path doOutboundSend, the retry tick outboundRetryTick, the proof    *)
(* matcher handleDeliveryProof, and the IndexedDB row they share            *)
(* (js/store.js).                                                           *)
(*                                                                          *)
(* The page is single-threaded but every handler is async: it may be        *)
(* suspended at each await, and any other handler may run there. An action  *)
(* here is the code between two awaits that touch shared state: a read      *)
(* transaction with the code that follows it, one read-modify-write         *)
(* transaction (updateMessage), or one sendPacket.                          *)
(***************************************************************************)
EXTENDS Naturals

CONSTANTS
  Messages,     \* ids of the outgoing rows; each in a conversation of its own
  Ticks,        \* outboundRetryTick calls that can be in flight together
  NoMsg,        \* what a worker that holds no row points to
  MaxAttempts,  \* MSG_MAX_ATTEMPTS
  MaxSessions,  \* bound: how often the radio comes up
  MaxReloads    \* bound: how often the page is reloaded

ASSUME OutboundAssumption ==
  /\ MaxAttempts \in Nat \ {0}
  /\ MaxSessions \in Nat
  /\ MaxReloads \in Nat
  /\ Messages \cap Ticks = {}
  /\ NoMsg \notin Messages

VARIABLES
  rows,      \* the IndexedDB rows: they alone survive a reload
  compose,   \* how far sendMessage is with each message
  radioOn,   \* the flag of the same name
  pc,        \* where each worker (a doOutboundSend caller) is suspended
  todo,      \* the rows the worker's caller has still to hand to doOutboundSend
  cur,       \* the row its doOutboundSend call works on
  num,       \* that call's attemptNumber
  proving,   \* rows a handleDeliveryProof call is about to mark delivered
  air,       \* rows whose packet was transmitted: retransmits are the same bytes
  proofs,    \* rows whose packet the peer proved
  received,  \* history: messages the peer decrypted (or assembled, on a link)
  tx,        \* history: how often each row's packet was transmitted
  overlapped,\* history: rows transmitted while a second caller had them too
  sessions, reloads

pageVars == <<compose, radioOn, pc, todo, cur, num, proving>>
netVars  == <<air, proofs, received, tx, overlapped>>
boundVars == <<sessions, reloads>>
workerVars == <<pc, todo, cur, num>>
vars == <<rows, compose, radioOn, pc, todo, cur, num, proving,
          air, proofs, received, tx, overlapped, sessions, reloads>>

(***************************************************************************)
(* A worker is whoever calls doOutboundSend: sendMessage for its own row,   *)
(* or a tick for each overdue row it found.                                 *)
(***************************************************************************)
Workers == Messages \cup Ticks

States == {"none", "pending", "sending", "sent", "delivered", "failed"}

(* "none" is no row: not saved yet, or deleted with its conversation. The   *)
(* timer stands for nextRetryAt: 0, in the future, or passed.               *)
Row == [st : States, att : Nat, pkt : BOOLEAN,
        timer : {"none", "armed", "due"}]

NoRow == [st |-> "none", att |-> 0, pkt |-> FALSE, timer |-> "none"]

HoldsRow == {"mark", "transmit", "recheckSent", "recheckFailed",
             "settleSent", "settleFailed"}

(* Well typed; and a worker points to a row exactly while doOutboundSend    *)
(* works on it.                                                             *)
TypeOK ==
  /\ rows \in [Messages -> Row]
  /\ compose \in [Messages -> {"new", "building", "link", "done"}]
  /\ radioOn \in BOOLEAN
  /\ pc \in [Workers -> {"loop", "scan"} \cup HoldsRow]
  /\ todo \in [Workers -> SUBSET Messages]
  /\ cur \in [Workers -> Messages \cup {NoMsg}]
  /\ num \in [Workers -> Nat]
  /\ \A w \in Workers : cur[w] \in Messages <=> pc[w] \in HoldsRow
  /\ proving \subseteq Messages
  /\ air \subseteq Messages
  /\ proofs \subseteq Messages
  /\ received \subseteq Messages
  /\ tx \in [Messages -> Nat]
  /\ overlapped \subseteq Messages
  /\ sessions \in Nat
  /\ reloads \in Nat

(* The page starts with whatever rows an earlier one left; rows composed    *)
(* and a Reload reach those. The radio is off or a session is up already.   *)
Init ==
  /\ rows = [m \in Messages |-> NoRow]
  /\ compose = [m \in Messages |-> "new"]
  /\ radioOn \in BOOLEAN
  /\ pc = [w \in Workers |-> "loop"]
  /\ todo = [w \in Workers |-> {}]
  /\ cur = [w \in Workers |-> NoMsg]
  /\ num = [w \in Workers |-> 0]
  /\ proving = {} /\ air = {} /\ proofs = {} /\ received = {}
  /\ tx = [m \in Messages |-> 0] /\ overlapped = {}
  /\ sessions = 0
  /\ reloads = 0

-----------------------------------------------------------------------------
(* The row store.                                                           *)

UpdateMessageUpsert(m, new) == rows' = [rows EXCEPT ![m] = new]

(* updateMessage merges into the row if there still is one.                 *)
UpdateMessage(m, new) ==
  rows' = [rows EXCEPT ![m] = IF @.st = "none" THEN @ ELSE new]

WithState(m, s) == [rows[m] EXCEPT !.st = s]

-----------------------------------------------------------------------------
(* sendMessage.                                                             *)

(* The optimistic save: the bubble is painted before the path request and   *)
(* the crypto, as "sending" if the radio is on.                             *)
SaveRow(m) ==
  /\ compose[m] = "new"
  /\ rows' = [rows EXCEPT ![m] =
       [NoRow EXCEPT !.st = IF radioOn THEN "sending" ELSE "pending"]]
  /\ compose' = [compose EXCEPT ![m] = "building"]
  /\ UNCHANGED <<radioOn, pc, todo, cur, num, proving, netVars, boundVars>>

(* The packet is built: fill the row, then send if the radio is on now.     *)
FillRow(m) ==
  /\ compose[m] = "building"
  /\ UpdateMessage(m, [rows[m] EXCEPT !.pkt = TRUE])
  /\ compose' = [compose EXCEPT ![m] = "done"]
  /\ todo' = [todo EXCEPT ![m] = IF radioOn THEN {m} ELSE {}]
  /\ UNCHANGED <<radioOn, pc, cur, num, proving, netVars, boundVars>>

(* The path request, the crypto or the build throws.                        *)
ComposeFails(m) ==
  /\ compose[m] = "building"
  /\ UpdateMessage(m, WithState(m, "failed"))
  /\ compose' = [compose EXCEPT ![m] = "done"]
  /\ UNCHANGED <<radioOn, pc, todo, cur, num, proving, netVars, boundVars>>

(* More than one packet (or an attachment): deliver it over a Link, which   *)
(* needs the radio. The row never gets a rawPacket.                         *)
TooLarge(m) ==
  /\ compose[m] = "building"
  /\ \/ /\ radioOn
        /\ compose' = [compose EXCEPT ![m] = "link"]
        /\ UNCHANGED rows
     \/ /\ ~radioOn
        /\ compose' = [compose EXCEPT ![m] = "done"]
        /\ UpdateMessage(m, WithState(m, "failed"))
  /\ UNCHANGED <<radioOn, pc, todo, cur, num, proving, netVars, boundVars>>

LinkOutcomeUnproved(m, s) == s \in {"delivered", "sent", "failed"}

(* sendLxmfOverLink returns true once the Resource proof is in (the peer    *)
(* has assembled it), false after a single link packet, or throws.          *)
LinkOutcome(m, s) ==
  \/ s = "delivered" /\ m \in received
  \/ s \in {"sent", "failed"}

LinkSettles(m) ==
  /\ compose[m] = "link"
  /\ \E s \in {"delivered", "sent", "failed"} :
       /\ LinkOutcome(m, s)
       /\ UpdateMessage(m, WithState(m, s))
  /\ compose' = [compose EXCEPT ![m] = "done"]
  /\ UNCHANGED <<radioOn, pc, todo, cur, num, proving, netVars, boundVars>>

-----------------------------------------------------------------------------
(* outboundRetryTick.                                                       *)

(* Which rows a tick sends again: a pending row at once, whatever its       *)
(* nextRetryAt; a sent one when its proof is overdue.                       *)
MayResend(r) ==
  /\ r.att < MaxAttempts
  /\ \/ r.st = "pending"
     \/ r.st = "sent" /\ r.pkt /\ r.timer = "due"

(* setInterval does not wait for the previous tick to end.                  *)
TickStart(t) ==
  /\ radioOn
  /\ pc[t] = "loop" /\ todo[t] = {}
  /\ pc' = [pc EXCEPT ![t] = "scan"]
  /\ UNCHANGED <<rows, compose, radioOn, todo, cur, num, proving, netVars, boundVars>>

(* The tick decides from one snapshot of the store, taken here.             *)
TickScan(t) ==
  /\ pc[t] = "scan"
  /\ todo' = [todo EXCEPT ![t] = {m \in Messages : MayResend(rows[m])}]
  /\ pc' = [pc EXCEPT ![t] = "loop"]
  /\ UNCHANGED <<rows, compose, radioOn, cur, num, proving, netVars, boundVars>>

(* The page sets the timer's date; the clock passes it.                     *)
BackoffElapses(m) ==
  /\ rows[m].timer = "armed"
  /\ rows' = [rows EXCEPT ![m].timer = "due"]
  /\ UNCHANGED <<pageVars, netVars, boundVars>>

-----------------------------------------------------------------------------
(* doOutboundSend.                                                          *)

Sendable(r) == r.st \notin {"none", "delivered", "failed"} /\ r.pkt

(* Read the row and pass the early returns, or go on to the caller's next.  *)
ReadRow(w) ==
  /\ pc[w] = "loop"
  /\ \E m \in todo[w] :
       /\ todo' = [todo EXCEPT ![w] = @ \ {m}]
       /\ IF Sendable(rows[m])
            THEN /\ cur' = [cur EXCEPT ![w] = m]
                 /\ num' = [num EXCEPT ![w] = rows[m].att + 1]
                 /\ pc' = [pc EXCEPT ![w] = "mark"]
            ELSE UNCHANGED <<pc, cur, num>>
  /\ UNCHANGED <<rows, compose, radioOn, proving, netVars, boundVars>>

MarkedAnew(r, n) == [NoRow EXCEPT !.st = "sending", !.att = n]

MarkedRetries(r, n) ==
  [r EXCEPT !.st = "sending", !.att = IF r.st = "sending" THEN @ ELSE n]

Marked(r, n) == [r EXCEPT !.st = "sending", !.att = n]

(* Write "sending" and the attempt number read before.                      *)
MarkSending(w) ==
  /\ pc[w] = "mark"
  /\ UpdateMessage(cur[w], Marked(rows[cur[w]], num[w]))
  /\ pc' = [pc EXCEPT ![w] = "transmit"]
  /\ UNCHANGED <<compose, radioOn, todo, cur, num, proving, netVars, boundVars>>

(* w's caller has m still to hand over, or its doOutboundSend works on it.  *)
Holds(w, m) == m \in todo[w] \/ cur[w] = m

(* sendPacket returns. A device whose radio is off takes the bytes and      *)
(* sends nothing.                                                           *)
TransmitOk(w) ==
  /\ pc[w] = "transmit"
  /\ IF radioOn
       THEN /\ air' = air \cup {cur[w]}
            /\ tx' = [tx EXCEPT ![cur[w]] = @ + 1]
            /\ overlapped' = overlapped \cup
                 {m \in {cur[w]} : \E v \in Workers \ {w} : Holds(v, m)}
       ELSE UNCHANGED <<air, tx, overlapped>>
  /\ pc' = [pc EXCEPT ![w] = "recheckSent"]
  /\ UNCHANGED <<rows, compose, radioOn, todo, cur, num, proving, proofs, received, boundVars>>

(* sendPacket throws: the transport is gone, or the write failed.           *)
TransmitThrows(w) ==
  /\ pc[w] = "transmit"
  /\ pc' = [pc EXCEPT ![w] = "recheckFailed"]
  /\ UNCHANGED <<rows, compose, radioOn, todo, cur, num, proving, netVars, boundVars>>

(* doOutboundSend is over: back to its caller.                              *)
Returns(w) ==
  /\ pc' = [pc EXCEPT ![w] = "loop"]
  /\ cur' = [cur EXCEPT ![w] = NoMsg]
  /\ num' = [num EXCEPT ![w] = 0]

(* Read the row again: a proof may have landed during the send.             *)
Recheck(w) ==
  /\ pc[w] \in {"recheckSent", "recheckFailed"}
  /\ IF rows[cur[w]].st = "delivered"
       THEN Returns(w)
       ELSE /\ pc' = [pc EXCEPT ![w] = IF @ = "recheckSent"
                                       THEN "settleSent" ELSE "settleFailed"]
            /\ UNCHANGED <<cur, num>>
  /\ UNCHANGED <<rows, compose, radioOn, todo, proving, netVars, boundVars>>

RearmNever(n) == "none"

(* nextRetryAt after attempt n.                                             *)
Rearm(n) == IF n < MaxAttempts THEN "armed" ELSE "none"

(* The row after attempt n ended in state s.                                *)
AfterAttempt(r, s, n) == [r EXCEPT !.st = s, !.timer = Rearm(n)]

SettleSent(w) ==
  /\ pc[w] = "settleSent"
  /\ UpdateMessage(cur[w], AfterAttempt(rows[cur[w]], "sent", num[w]))
  /\ Returns(w)
  /\ UNCHANGED <<compose, radioOn, todo, proving, netVars, boundVars>>

SettleFailed(w) ==
  /\ pc[w] = "settleFailed"
  /\ LET s == IF num[w] >= MaxAttempts THEN "failed" ELSE "pending"
     IN  UpdateMessage(cur[w], AfterAttempt(rows[cur[w]], s, num[w]))
  /\ Returns(w)
  /\ UNCHANGED <<compose, radioOn, todo, proving, netVars, boundVars>>

-----------------------------------------------------------------------------
(* handleDeliveryProof.                                                     *)

HashMatchesAny(m, p) == TRUE

(* The proof carries the hash of the packet it answers; the row stores the  *)
(* hash of its own.                                                         *)
HashMatches(m, p) == m = p

(* Search a snapshot of the rows for the proof of packet p. A transport     *)
(* still open delivers it with the radio off too.                           *)
ProofArrives(p) ==
  /\ p \in proofs
  /\ \E m \in Messages :
       /\ rows[m].pkt /\ HashMatches(m, p)
       /\ rows[m].st # "delivered"
       /\ m \notin proving
       /\ proving' = proving \cup {m}
  /\ UNCHANGED <<rows, compose, radioOn, workerVars, netVars, boundVars>>

(* Write "delivered" to the row the search found.                           *)
ProofCommits(m) ==
  /\ m \in proving
  /\ UpdateMessage(m, WithState(m, "delivered"))
  /\ proving' = proving \ {m}
  /\ UNCHANGED <<compose, radioOn, workerVars, netVars, boundVars>>

-----------------------------------------------------------------------------
(* The user and the page.                                                   *)

(* removeContact: the conversation's rows go, whoever still works on them.  *)
RemoveContact(m) ==
  /\ rows[m].st # "none"
  /\ rows' = [rows EXCEPT ![m] = NoRow]
  /\ UNCHANGED <<pageVars, netVars, boundVars>>

RadioUp ==
  /\ ~radioOn /\ sessions < MaxSessions
  /\ radioOn' = TRUE
  /\ sessions' = sessions + 1
  /\ UNCHANGED <<rows, compose, workerVars, proving, netVars, reloads>>

(* Sends in flight are not cancelled.                                       *)
RadioDown ==
  /\ radioOn
  /\ radioOn' = FALSE
  /\ UNCHANGED <<rows, compose, workerVars, proving, netVars, boundVars>>

(* A reload or a crash ends every handler; the rows and the network stay.   *)
Reload ==
  /\ reloads < MaxReloads
  /\ reloads' = reloads + 1
  /\ radioOn' = FALSE
  /\ compose' = [m \in Messages |-> IF compose[m] = "new" THEN "new" ELSE "done"]
  /\ pc' = [w \in Workers |-> "loop"]
  /\ todo' = [w \in Workers |-> {}]
  /\ cur' = [w \in Workers |-> NoMsg]
  /\ num' = [w \in Workers |-> 0]
  /\ proving' = {}
  /\ UNCHANGED <<rows, netVars, sessions>>

-----------------------------------------------------------------------------
(* The network and the peer. A packet or a proof once sent may arrive at any *)
(* later time, more than once, or never: that is how it is lost.            *)

PeerReceives(m) ==
  /\ m \in air
  /\ received' = received \cup {m}
  /\ proofs' = proofs \cup {m}
  /\ UNCHANGED <<rows, pageVars, air, tx, overlapped, boundVars>>

(* Over a link the peer assembles the message before its proof is sent.     *)
PeerAssembles(m) ==
  /\ compose[m] = "link"
  /\ received' = received \cup {m}
  /\ UNCHANGED <<rows, pageVars, air, proofs, tx, overlapped, boundVars>>

-----------------------------------------------------------------------------
Worker(w) ==
  \/ ReadRow(w) \/ MarkSending(w)
  \/ TransmitOk(w) \/ TransmitThrows(w)
  \/ Recheck(w) \/ SettleSent(w) \/ SettleFailed(w)

Send(m) ==
  SaveRow(m) \/ FillRow(m) \/ ComposeFails(m) \/ TooLarge(m) \/ LinkSettles(m)

Network(m) ==
  PeerReceives(m) \/ PeerAssembles(m)

Next ==
  \/ \E m \in Messages : Send(m) \/ Network(m)
  \/ \E m \in Messages :
       BackoffElapses(m) \/ ProofArrives(m) \/ ProofCommits(m) \/ RemoveContact(m)
  \/ \E t \in Ticks : TickStart(t) \/ TickScan(t)
  \/ \E w \in Workers : Worker(w)
  \/ RadioUp \/ RadioDown \/ Reload

Spec == Init /\ [][Next]_vars

(* The event loop runs every suspended handler, IndexedDB answers and       *)
(* sendPacket returns or throws; the interval fires while the radio is on   *)
(* and the clock advances. Nothing is assumed of the user or the network.   *)
Fairness ==
  /\ \A w \in Workers : WF_vars(Worker(w))
  /\ \A t \in Ticks : WF_vars(TickStart(t)) /\ WF_vars(TickScan(t))
  /\ \A m \in Messages : WF_vars(BackoffElapses(m)) /\ WF_vars(ProofCommits(m))

FairSpec == Spec /\ Fairness

-----------------------------------------------------------------------------
(* Properties.                                                              *)

(* A row shows "delivered" only if the peer has the message, although the   *)
(* writer is a proof handler that searched a snapshot, or a link send, and  *)
(* other workers write the row in between (handleDeliveryProof,             *)
(* sendLxmfOverLink).                                                       *)
DeliveredIsReal ==
  \A m \in Messages : rows[m].st = "delivered" => m \in received

(* Whatever is on the air can still be proved: as long as the row of a      *)
(* transmitted packet exists it holds that packet and its hash, across      *)
(* reloads too (sendMessage fills the row before doOutboundSend sends it).  *)
TransmittedIsTracked ==
  \A m \in air : rows[m].st # "none" => rows[m].pkt

(* A message not submitted yet has left no trace anywhere.                  *)
FreshIsClean ==
  \A m \in Messages : compose[m] = "new" =>
    /\ rows[m] = NoRow
    /\ m \notin air \cup proofs \cup received \cup proving
    /\ \A w \in Workers : cur[w] # m /\ m \notin todo[w]

(* A worker holds only a row that has its packet, or had it when deleted.   *)
HeldIsPacked ==
  \A w \in Workers : cur[w] \in Messages =>
    rows[cur[w]].st = "none" \/ rows[cur[w]].pkt

(* The inductive invariant behind DeliveredIsReal, TransmittedIsTracked and *)
(* KeepsContract: a proof, and a handler about to record one, exist only    *)
(* for a message the peer has; a worker never drops the packet it sends.    *)
IInv ==
  /\ FreshIsClean
  /\ proofs \cup proving \subseteq received
  /\ DeliveredIsReal
  /\ HeldIsPacked
  /\ TransmittedIsTracked

(* A deleted conversation stays deleted, although workers and proof         *)
(* handlers that read its rows before go on to write them (updateMessage).  *)
DeletedStaysDeleted ==
  [][\A m \in Messages :
       compose[m] # "new" /\ rows[m].st = "none" => rows'[m].st = "none"]_vars

(* What the user sees of a row.                                             *)
ShownAs == [none |-> "deleted", pending |-> "open", sending |-> "open",
            sent |-> "open", failed |-> "abandoned", delivered |-> "confirmed"]

Status(m) == IF compose[m] = "new" THEN "unsent" ELSE ShownAs[rows[m].st]

Contract == INSTANCE DeliveryContract
  WITH status <- [m \in Messages |-> Status(m)], got <- received

(* The row store, its workers, reloads and the network together keep the    *)
(* contract of the conversation view.                                       *)
KeepsContract == Contract!Spec

(* A packet goes out more than MSG_MAX_ATTEMPTS times only if it was sent   *)
(* once while another tick, or sendMessage, had its row in hand as well:    *)
(* nothing else, no stale attempt number a call writes, no failed send, no  *)
(* radio that goes and comes, no reload, takes a row past its budget        *)
(* (outboundRetryTick, doOutboundSend).                                     *)
OverspentByOverlap ==
  \A m \in Messages : tx[m] > MaxAttempts => m \in overlapped

(* What outboundRetryTick says of its retransmissions: "Bounded by          *)
(* MSG_MAX_ATTEMPTS".                                                       *)
TransmissionsBounded == \A m \in Messages : tx[m] <= MaxAttempts

(* Nothing more will happen to the row of its own accord.                   *)
Settled(m) ==
  \/ rows[m].st \in {"none", "delivered", "failed"}
  \/ rows[m].st = "sent" /\ rows[m].att >= MaxAttempts

(* While the radio stays on, every row that got its packet ends delivered,  *)
(* failed, or sent with its attempts spent; no retry is forgotten and none  *)
(* goes on for ever.                                                        *)
RowsSettle ==
  []radioOn => \A m \in Messages : rows[m].pkt ~> []Settled(m)

(* A double check is final: "Re-read and don't downgrade it back to SENT"   *)
(* (doOutboundSend).                                                        *)
DeliveredIsFinal ==
  [][\A m \in Messages :
       rows[m].st = "delivered" => rows'[m].st \in {"delivered", "none"}]_vars

(* A row that has its packet does not stay "sending": filled so that "it's  *)
(* durable (survives a reload mid-transmission) and the retry tick / proof  *)
(* matcher can act on it" (sendMessage). It is asked of sessions in which   *)
(* the radio comes back on and stays on.                                    *)
SendingIsResumed ==
  <>[]radioOn => \A m \in Messages :
     (rows[m].st = "sending" /\ rows[m].pkt) ~> rows[m].st # "sending"
=============================================================================
