----------------------------- MODULE StorageProofs -----------------------------
(***************************************************************************)
(* Proofs about the screens and what the browser stores, for any number of  *)
(* contacts, rows, presses and handlers at work: what is sent is from home, *)
(* what is left after a wipe was in flight, what was marked read has been   *)
(* painted, and the nodes store stays bounded.                              *)
(***************************************************************************)
EXTENDS Composer, Wipe, Conversations, NodeStore, WellFoundedInduction, FiniteSetTheorems, TLAPS

(***************************************************************************)
(* The composer. A call that reads a file or waits for a key and was not    *)
(* left alone by the user knows the open conversation; and so does a staged *)
(* file, until the back button closes its conversation.                     *)
(***************************************************************************)
PicksAtHome ==
  \A i \in Picks : picking[i].at = "reading" /\ ~picking[i].moved => picking[i].for = open

StagedAtHome == staged # NoFile /\ ~staged.moved => open \in {staged.for, Nobody}

SendsAtHome ==
  \A s \in Sendings : sending[s].at = "recovering" =>
     /\ sending[s].to # Nobody /\ sending[s].reply \in {Nobody, sending[s].to}
     /\ ~sending[s].moved => sending[s].to = open

HomeInv == ComposerTypeOK /\ PicksAtHome /\ StagedAtHome /\ SendsAtHome /\ SentFromHome

LEMMA HomeInit == ComposerInit => HomeInv
  BY DEF ComposerInit, HomeInv, ComposerTypeOK, PicksAtHome, StagedAtHome, SendsAtHome,
         SentFromHome, NoFile, NotSending, Nobody

SendCalls ==
  [at : {"no", "recovering", "saving", "over"}, to : People \cup {Nobody}, file : BOOLEAN,
   reply : People \cup {Nobody}, moved : BOOLEAN]

PickCalls == [at : {"no", "reading", "over"}, for : People \cup {Nobody}, moved : BOOLEAN]

(* Opening another conversation marks every suspended call as left alone.   *)
LEMMA MovesLeaves ==
  ASSUME HomeInv, Moves
  PROVE  /\ picking' \in [Picks -> PickCalls] /\ sending' \in [Sendings -> SendCalls]
         /\ \A i \in Picks : picking'[i].at = "reading" => picking'[i].moved
         /\ \A s \in Sendings : sending'[s].at = "recovering" =>
               /\ sending'[s].moved /\ sending[s].at = "recovering"
               /\ sending'[s].to = sending[s].to /\ sending'[s].reply = sending[s].reply
<1> USE DEF HomeInv, ComposerTypeOK, Moves, PickCalls, SendCalls
<1>1. \A i \in Picks :
        /\ picking'[i] = [picking[i] EXCEPT !.moved = (picking[i].at = "reading")]
        /\ picking[i] \in PickCalls
  OBVIOUS
<1>2. \A i \in Picks : picking'[i] \in PickCalls
                       /\ (picking'[i].at = "reading" => picking'[i].moved)
  BY <1>1
<1>3. \A s \in Sendings :
        /\ sending'[s] = [sending[s] EXCEPT !.moved = (sending[s].at = "recovering")]
        /\ sending[s] \in SendCalls
  OBVIOUS
<1>4. \A s \in Sendings :
        /\ sending'[s] \in SendCalls
        /\ sending'[s].at = sending[s].at /\ sending'[s].to = sending[s].to
        /\ sending'[s].reply = sending[s].reply
        /\ sending'[s].at = "recovering" => sending'[s].moved
  BY <1>3
<1> HIDE DEF PickCalls, SendCalls
<1> QED
  BY <1>2, <1>4

(* Writing the row hands over a call that is at home, with the file that is *)
(* staged: both are of the open conversation unless the call was left.      *)
LEMMA RowWrittenHome ==
  ASSUME HomeInv, NEW s \in Sendings, NEW call \in SendCalls,
         call.to # Nobody, call.reply \in {Nobody, call.to},
         ~call.moved => call.to = open,
         RowWritten(s, call)
  PROVE  /\ sending' \in [Sendings -> SendCalls]
         /\ \A t \in Sendings : sending'[t].at = "recovering" => sending'[t] = sending[t]
         /\ SentFromHome'
<1> USE DEF HomeInv, ComposerTypeOK
<1>1. [call EXCEPT !.at = "over"] \in SendCalls /\ [call EXCEPT !.at = "saving"] \in SendCalls
      /\ [call EXCEPT !.at = "over"].at = "over" /\ [call EXCEPT !.at = "saving"].at = "saving"
  BY DEF SendCalls
<1>2. sending \in [Sendings -> SendCalls] /\ call.file \in BOOLEAN /\ call.moved \in BOOLEAN
  BY DEF SendCalls
<1>3. CASE call.file /\ staged = NoFile
  BY <1>1, <1>2, <1>3 DEF RowWritten, SentFromHome
<1>4. CASE ~(call.file /\ staged = NoFile)
  <2>1. call.file /\ ~call.moved /\ ~staged.moved => staged.for = call.to
    BY <1>4 DEF StagedAtHome
  <2>2. SentFromHome'
    BY <1>4, <1>2, <2>1 DEF RowWritten, SentFromHome
  <2>3. sending' = [sending EXCEPT ![s] = [call EXCEPT !.at = "saving"]]
    BY <1>4 DEF RowWritten
  <2> QED
    BY <1>1, <1>2, <2>2, <2>3
<1> QED
  BY <1>3, <1>4

LEMMA HomeNext == HomeInv /\ [ComposerNext]_composerVars => HomeInv'
<1> SUFFICES ASSUME HomeInv, [ComposerNext]_composerVars PROVE HomeInv'
  OBVIOUS
<1> USE DEF HomeInv, ComposerTypeOK
<1>1. ASSUME NEW p \in People, ContactSelected(p) PROVE HomeInv'
  <2>1. Moves
    BY <1>1 DEF ContactSelected
  <2> QED
    BY <1>1, <2>1, MovesLeaves
       DEF ContactSelected, StagedCleared, PicksAtHome, StagedAtHome, SendsAtHome, SentFromHome,
           NoFile, SendCalls, PickCalls
<1>2. CASE BackPressed
  <2>1. Moves
    BY <1>2 DEF BackPressed
  <2> QED
    BY <1>2, <2>1, MovesLeaves
       DEF BackPressed, PicksAtHome, StagedAtHome, SendsAtHome, SentFromHome, SendCalls, PickCalls
<1>3. CASE SetReplyingTo
  BY <1>3 DEF SetReplyingTo, PicksAtHome, StagedAtHome, SendsAtHome, SentFromHome
<1>4. CASE RadioChanges
  BY <1>4 DEF RadioChanges, PicksAtHome, StagedAtHome, SendsAtHome, SentFromHome
<1>5. ASSUME NEW i \in Picks, PicksFile(i) PROVE HomeInv'
  BY <1>5 DEF PicksFile, PicksAtHome, StagedAtHome, SendsAtHome, SentFromHome
<1>6. ASSUME NEW i \in Picks, FileRead(i) PROVE HomeInv'
  BY <1>6 DEF FileRead, PicksAtHome, StagedAtHome, SendsAtHome, SentFromHome
<1>7. ASSUME NEW s \in Sendings, SendMessage(s) PROVE HomeInv'
  <2> DEFINE call == [at |-> "no", to |-> open, file |-> staged # NoFile,
                      reply |-> ReplyTarget, moved |-> FALSE]
  <2>1. open \in People /\ ReplyTarget \in {Nobody, open}
    BY <1>7 DEF SendMessage, ReplyTarget
  <2>2. CASE open \in known
    <3>1. RowWritten(s, call)
      BY <1>7, <2>2 DEF SendMessage
    <3>2. call \in SendCalls /\ call.to = open /\ call.moved = FALSE /\ call.reply = ReplyTarget
      BY <2>1 DEF SendCalls
    <3>3. open # Nobody /\ UNCHANGED <<radio, known, open, staged, replying, picking>>
      BY <1>7 DEF SendMessage
    <3> HIDE DEF call
    <3>4. /\ sending' \in [Sendings -> SendCalls] /\ SentFromHome'
          /\ \A t \in Sendings : sending'[t].at = "recovering" => sending'[t] = sending[t]
      BY <2>1, <3>1, <3>2, <3>3, RowWrittenHome
    <3> QED
      BY <3>3, <3>4 DEF PicksAtHome, StagedAtHome, SendsAtHome, SendCalls
  <2>3. CASE open \notin known
    <3>1. /\ sending' = [sending EXCEPT ![s] = [call EXCEPT !.at = "recovering"]]
          /\ open # Nobody
          /\ UNCHANGED <<radio, known, open, staged, replying, picking, outgoing>>
      BY <1>7, <2>3 DEF SendMessage
    <3> DEFINE asking == [call EXCEPT !.at = "recovering"]
    <3>2. asking \in SendCalls /\ asking.to = open /\ asking.reply = ReplyTarget
      BY <2>1 DEF SendCalls
    <3>3. sending \in [Sendings -> SendCalls]
      BY DEF SendCalls
    <3>4. sending' = [sending EXCEPT ![s] = asking]
      BY <3>1
    <3> HIDE DEF asking, call
    <3>5. sending' \in [Sendings -> SendCalls]
      BY <3>2, <3>3, <3>4
    <3>6. SendsAtHome'
      BY <2>1, <3>1, <3>2, <3>3, <3>4 DEF SendsAtHome
    <3> QED
      BY <3>1, <3>5, <3>6 DEF PicksAtHome, StagedAtHome, SentFromHome, SendCalls
  <2> QED
    BY <2>2, <2>3
<1>8. ASSUME NEW s \in Sendings, KeyRecovered(s) PROVE HomeInv'
  <2>1. /\ sending[s].at = "recovering" /\ RowWritten(s, sending[s])
        /\ known' = known \cup {sending[s].to}
        /\ UNCHANGED <<radio, open, staged, replying, picking>>
    BY <1>8 DEF KeyRecovered
  <2>2. /\ sending[s] \in SendCalls /\ sending[s].to \in People
        /\ sending[s].to # Nobody /\ sending[s].reply \in {Nobody, sending[s].to}
        /\ ~sending[s].moved => sending[s].to = open
    BY <2>1 DEF SendsAtHome, SendCalls
  <2>3. /\ sending' \in [Sendings -> SendCalls] /\ SentFromHome'
        /\ \A t \in Sendings : sending'[t].at = "recovering" => sending'[t] = sending[t]
    BY <2>1, <2>2, RowWrittenHome
  <2> QED
    BY <2>1, <2>2, <2>3 DEF PicksAtHome, StagedAtHome, SendsAtHome, SendCalls
<1>9. ASSUME NEW s \in Sendings, KeyNotFound(s) PROVE HomeInv'
  BY <1>9 DEF KeyNotFound, PicksAtHome, StagedAtHome, SendsAtHome, SentFromHome
<1>10. ASSUME NEW s \in Sendings, RowSaved(s) PROVE HomeInv'
  <2>1. /\ sending' = [sending EXCEPT ![s].at = "over"]
        /\ staged' = staged \/ staged' = NoFile
        /\ replying' = Nobody
        /\ UNCHANGED <<radio, known, open, picking, outgoing>>
    BY <1>10 DEF RowSaved
  <2> DEFINE over == [sending[s] EXCEPT !.at = "over"]
  <2>2. over \in SendCalls /\ over.at = "over" /\ sending \in [Sendings -> SendCalls]
    BY DEF SendCalls
  <2>3. sending' = [sending EXCEPT ![s] = over]
    BY <2>1
  <2> HIDE DEF over
  <2>4. sending' \in [Sendings -> SendCalls]
    BY <2>2, <2>3
  <2>5. staged' \in [for : People \cup {Nobody}, moved : BOOLEAN]
    <3>1. NoFile \in [for : People \cup {Nobody}, moved : BOOLEAN]
      BY DEF NoFile
    <3> QED
      BY <2>1, <3>1
  <2>6. /\ replying' = Nobody /\ UNCHANGED <<radio, known, open, picking, outgoing>>
    BY <2>1
  <2>7. ComposerTypeOK'
    BY <2>4, <2>5, <2>6 DEF SendCalls
  <2>8. \A t \in Sendings : sending'[t].at = "recovering" => sending'[t] = sending[t]
    BY <2>2, <2>3
  <2>9. StagedAtHome' /\ PicksAtHome' /\ SentFromHome'
    BY <2>1 DEF PicksAtHome, StagedAtHome, SentFromHome
  <2>10. SendsAtHome'
    BY <2>1, <2>8 DEF SendsAtHome
  <2> QED
    BY <2>7, <2>9, <2>10
<1>11. CASE UNCHANGED composerVars
  BY <1>11 DEF composerVars, PicksAtHome, StagedAtHome, SendsAtHome, SentFromHome
<1> QED
  BY <1>1, <1>2, <1>3, <1>4, <1>5, <1>6, <1>7, <1>8, <1>9, <1>10, <1>11 DEF ComposerNext

(* Whatever the user opens, picks and sends meanwhile, a message, its file  *)
(* and what it replies to are of its recipient's conversation, the calls    *)
(* excepted that the user left alone (SentFromHome).                        *)
THEOREM HomeCorrect == ComposerSpec => [](ComposerTypeOK /\ SentFromHome)
<1>1. HomeInv => ComposerTypeOK /\ SentFromHome
  BY DEF HomeInv
<1> QED
  BY <1>1, HomeInit, HomeNext, PTL DEF ComposerSpec

(***************************************************************************)
(* The wipe. Once the transport is closed, and as long as none opens,       *)
(* nothing begins any more: nothing is delivered, and with radioOn cleared  *)
(* no timer's handler sets out.                                             *)
(***************************************************************************)
Silenced ==
  /\ wipe \in {"closed", "deleting", "flames"} /\ ~unclosed => ~delivering
  /\ wipe \in {"deleting", "flames"} /\ ~unclosed => ~radioOn

LateUnclosed == late # {} => unclosed /\ wipe \notin {"no", "closing", "closed"}

WipeInv == WipeTypeOK /\ Silenced /\ LateUnclosed

LEMMA WipeInitInv == WipeInit => WipeInv
  BY DEF WipeInit, WipeInv, WipeTypeOK, Silenced, LateUnclosed, AllTimers

LEMMA WipeNextInv == WipeInv /\ [WipeNext]_wipeVars => WipeInv'
<1> SUFFICES ASSUME WipeInv, [WipeNext]_wipeVars PROVE WipeInv'
  OBVIOUS
<1> USE DEF WipeInv, WipeTypeOK, Silenced, LateUnclosed, AllTimers
<1>12. CASE ConnectBegins \/ ConnectFails
  <2>1. connecting' \in BOOLEAN
    BY <1>12, Zenon DEF ConnectBegins, ConnectFails
  <2>2. UNCHANGED <<delivering, radioOn, ticking, wipe, diskVars, workVars, unclosed>>
    BY <1>12 DEF ConnectBegins, ConnectFails
  <2> QED
    BY <2>1, <2>2 DEF diskVars, workVars
<1>13. CASE ConnectOpens
  <2>1. connecting' \in BOOLEAN /\ delivering' \in BOOLEAN /\ unclosed' \in BOOLEAN
    BY <1>13, Zenon DEF ConnectOpens
  <2>2. unclosed' <=> unclosed \/ wipe # "no"
    BY <1>13, Zenon DEF ConnectOpens
  <2> QED
    BY <1>13, <2>1, <2>2 DEF ConnectOpens, diskVars, workVars
<1>14. CASE InterfaceReady \/ TransportLost
  <2>1. /\ radioOn' \in BOOLEAN
        /\ radioOn' => delivering
    BY <1>14, Zenon DEF InterfaceReady, TransportLost
  <2>2. /\ delivering' \in {FALSE, delivering}
        /\ ticking' \subseteq AllTimers
        /\ UNCHANGED <<connecting, wipe, diskVars, workVars, unclosed>>
    BY <1>14 DEF InterfaceReady, TransportLost
  <2>3. delivering' \in BOOLEAN /\ (delivering' => delivering)
    <3>1. CASE delivering' = FALSE
      BY <3>1
    <3>2. CASE delivering' = delivering
      BY <3>2
    <3> QED
      BY <2>2, <3>1, <3>2
  <2> HIDE DEF AllTimers
  <2>4. WipeTypeOK'
    BY <2>1, <2>2, <2>3 DEF diskVars, workVars
  <2>5. Silenced' /\ LateUnclosed'
    BY <2>1, <2>2, <2>3 DEF diskVars, workVars
  <2> QED
    BY <2>4, <2>5
<1>1. CASE Silence
  <2>1. unclosed' \in BOOLEAN /\ (unclosed' <=> delivering /\ ~radioOn)
    BY <1>1, Zenon DEF Silence
  <2> QED
    BY <1>1, <2>1 DEF Silence, Closing, diskVars, workVars
<1>2. CASE Disconnected
  BY <1>2 DEF Disconnected, diskVars, workVars
<1>3. CASE DeleteAsked
  BY <1>3 DEF DeleteAsked, workVars
<1>4. CASE Deleted
  BY <1>4 DEF Deleted, linkVars, workVars
<1>5. CASE WipeGoesOn
  BY <1>5 DEF WipeGoesOn, linkVars, diskVars, workVars
<1>6. CASE WipeReloads
  BY <1>6 DEF WipeReloads, diskVars
<1>7. ASSUME NEW w \in Workers, HandlerBegins(w) PROVE WipeInv'
  BY <1>7 DEF HandlerBegins, linkVars, diskVars
<1>8. ASSUME NEW w \in Workers, RowPut(w) PROVE WipeInv'
  BY <1>8 DEF RowPut, linkVars
<1>9. ASSUME NEW w \in Workers, Reopened(w) PROVE WipeInv'
  BY <1>9 DEF Reopened, linkVars
<1>10. ASSUME NEW w \in Workers, HandlerEnds(w) PROVE WipeInv'
  BY <1>10 DEF HandlerEnds, linkVars, diskVars
<1>11. CASE UNCHANGED wipeVars
  BY <1>11 DEF wipeVars
<1> QED
  BY <1>1, <1>2, <1>3, <1>4, <1>5, <1>6, <1>7, <1>8, <1>9, <1>10, <1>11,
     <1>12, <1>13, <1>14 DEF WipeNext

(* No handler that begins after the deletion was asked for leaves a row, if *)
(* the wipe closed the transport and none opened since it began             *)
(* (runDestruct, ResidueWasInFlight), for any number of handlers.           *)
THEOREM WipeCorrect == WipeSpec => [](WipeTypeOK /\ ResidueWasInFlight)
<1>1. WipeInv => WipeTypeOK /\ ResidueWasInFlight
  BY DEF WipeInv, WipeTypeOK, LateUnclosed, ResidueWasInFlight
<1> QED
  BY <1>1, WipeInitInv, WipeNextInv, PTL DEF WipeSpec

(* A set of numbers that is not empty has a smallest one.                   *)
LEMMA Smallest ==
  ASSUME NEW T \in SUBSET Nat, T # {}
  PROVE  \E x \in T : \A y \in T : x <= y
<1>1. PICK R : IsWellFoundedOn(R, Nat) /\ \A x, y \in Nat : y < x => <<y, x>> \in R
  <2>1. \A x, y \in Nat : y < x => <<y, x>> \in OpToRel(<, Nat)
    BY DEF OpToRel
  <2> QED
    BY <2>1, NatLessThanWellFounded
<1>2. PICK x \in T : \A y \in T : ~ (<<y, x>> \in R)
  BY <1>1, WFMin
<1>3. \A y \in T : ~ (y < x)
  BY <1>1, <1>2
<1> QED
  BY <1>3

(***************************************************************************)
(* The open thread. A mark, in memory, on disk or held by an announce, has  *)
(* nothing below it that was not painted; and a render knows every row of   *)
(* its thread up to its newest, since later rows have higher ids.           *)
(***************************************************************************)
PaintedUpTo(p, mark) ==
  \A m \in store : m.peer = p /\ m.incoming /\ m.id <= mark => m.id \in painted

MarkFits(p, mark) == mark \in 0..lastId /\ PaintedUpTo(p, mark)

RenderFits(h) ==
  /\ h.of \in Peers \cup {None} /\ h.rows \subseteq 1..lastId
  /\ \A m \in store : \A i \in h.rows : m.peer = h.of /\ m.incoming /\ m.id <= i => m.id \in h.rows

ConvTyped ==
  /\ store \subseteq [id : 1..MaxRows, peer : Peers, incoming : BOOLEAN]
  /\ lastId \in 0..MaxRows /\ \A m \in store : m.id <= lastId
  /\ contact \in [Peers -> [present : BOOLEAN, read : 0..MaxRows, badge : BOOLEAN]]
  /\ saved \in [Peers -> [present : BOOLEAN, read : 0..MaxRows]]
  /\ opened \in Peers \cup {None} /\ view \in {"messages", "nodes"}
  /\ rendering \in [Renders -> [of : Peers \cup {None}, rows : SUBSET (1..MaxRows),
                                for : Deliveries \cup {None}]]
  /\ arriving \in [Deliveries -> [at : {"no", "known", "saved", "rendering", "over"},
                                  of : Peers \cup {None}]]
  /\ \A d \in Deliveries : arriving[d].at \in {"known", "saved"} => arriving[d].of \in Peers
  /\ announcing \in [Announcers -> [at : {"no", "verified", "over"}, of : Peers \cup {None},
                                    read : 0..MaxRows, badge : BOOLEAN, held : BOOLEAN]]
  /\ \A a \in Announcers : announcing[a].at = "verified" => announcing[a].of \in Peers

MarksFit ==
  /\ \A p \in Peers : MarkFits(p, contact[p].read) /\ MarkFits(p, saved[p].read)
  /\ \A a \in Announcers :
       announcing[a].at = "verified" => MarkFits(announcing[a].of, announcing[a].read)
  /\ \A r \in Renders : RenderFits(rendering[r])

ConvInv == ConvTyped /\ MarksFit

LEMMA ConvInvTyped == ConvInv => ConvTypeOK /\ ReadMeansPainted
<1> SUFFICES ASSUME ConvInv PROVE ConvTypeOK /\ ReadMeansPainted
  OBVIOUS
<1>1. ConvTypeOK
  BY DEF ConvInv, ConvTyped, ConvTypeOK
<1>2. ASSUME NEW m \in store, m.incoming,
             m.id <= (IF contact[m.peer].present THEN contact[m.peer].read
                                                 ELSE saved[m.peer].read)
      PROVE  m.id \in painted
  <2>1. m.peer \in Peers
    BY DEF ConvInv, ConvTyped
  <2> QED
    BY <1>2, <2>1 DEF ConvInv, MarksFit, MarkFits, PaintedUpTo
<1> QED
  BY <1>1, <1>2 DEF ReadMeansPainted

LEMMA ConvInitial == ConvInit => ConvInv
<1> SUFFICES ASSUME ConvInit PROVE ConvInv
  OBVIOUS
<1>1. MaxRows \in Nat
  BY ConversationsAssumption
<1>2. ConvTyped
  BY <1>1 DEF ConvInit, ConvTyped, Absent, Unsaved, NoRender
<1>3. MarksFit
  BY <1>1 DEF ConvInit, MarksFit, MarkFits, PaintedUpTo, RenderFits, Absent, Unsaved, NoRender
<1> QED
  BY <1>2, <1>3 DEF ConvInv

(* The newest of the rows that were read.                                   *)
LEMMA NewestIsLast ==
  ASSUME NEW n \in Nat, NEW ids \in SUBSET (1..n), ids # {}
  PROVE  Newest(ids) \in ids /\ \A j \in ids : j <= Newest(ids)
<1> DEFINE T == {k \in 0..n : n - k \in ids}
<1>1. T \in SUBSET Nat
  OBVIOUS
<1>2. T # {}
  <2>1. PICK i \in ids : TRUE
    OBVIOUS
  <2>2. n - i \in T
    OBVIOUS
  <2> QED
    BY <2>2
<1> HIDE DEF T
<1>3. PICK k \in T : \A y \in T : k <= y
  BY <1>1, <1>2, Smallest
<1>4. n - k \in ids
  BY <1>3 DEF T
<1>5. \A j \in ids : j <= n - k
  <2> SUFFICES ASSUME NEW j \in ids PROVE j <= n - k
    OBVIOUS
  <2>1. n - j \in T
    BY DEF T
  <2>2. k <= n - j /\ k \in Nat
    BY <1>1, <1>3, <2>1
  <2> QED
    BY <2>2
<1> QED
  BY <1>4, <1>5 DEF Newest

(* ThreadRows are added above, taken away, and painted; what fits still fits.     *)
RowsMove ==
  /\ lastId <= lastId' /\ lastId' \in 0..MaxRows
  /\ \A m \in store' : m \in store \/ (m.id \in Nat /\ m.id > lastId)
  /\ painted \subseteq painted'

MarkThen(p, mark) ==
  /\ mark \in 0..lastId'
  /\ \A m \in store' : m.peer = p /\ m.incoming /\ m.id <= mark => m.id \in painted'

RenderThen(h) ==
  /\ h.of \in Peers \cup {None} /\ h.rows \subseteq 1..lastId'
  /\ \A m \in store' : \A i \in h.rows :
       m.peer = h.of /\ m.incoming /\ m.id <= i => m.id \in h.rows

LEMMA MarkStill ==
  ASSUME ConvInv, RowsMove, NEW p, NEW mark, MarkFits(p, mark)
  PROVE  MarkThen(p, mark)
<1>1. mark \in 0..lastId /\ lastId \in Nat /\ lastId' \in Nat /\ lastId <= lastId'
  BY ConversationsAssumption DEF ConvInv, ConvTyped, RowsMove, MarkFits
<1>2. mark \in 0..lastId'
  BY <1>1
<1>3. ASSUME NEW m \in store', m.peer = p, m.incoming, m.id <= mark PROVE m.id \in painted'
  <2>1. CASE m \in store
    BY <1>3, <2>1 DEF MarkFits, PaintedUpTo, RowsMove
  <2>2. CASE m \notin store
    <3>1. m.id \in Nat /\ m.id > lastId
      BY <1>3, <2>2 DEF RowsMove
    <3> QED
      BY <1>1, <1>3, <3>1
  <2> QED
    BY <2>1, <2>2
<1> QED
  BY <1>2, <1>3 DEF MarkThen

LEMMA RenderStill ==
  ASSUME ConvInv, RowsMove, NEW h, RenderFits(h)
  PROVE  RenderThen(h)
<1>1. lastId \in Nat /\ lastId' \in Nat /\ lastId <= lastId' /\ 1..lastId \subseteq 1..lastId'
  BY ConversationsAssumption DEF ConvInv, ConvTyped, RowsMove
<1>2. ASSUME NEW m \in store', NEW i \in h.rows, m.peer = h.of, m.incoming, m.id <= i
      PROVE  m.id \in h.rows
  <2>1. CASE m \in store
    BY <1>2, <2>1 DEF RenderFits
  <2>2. CASE m \notin store
    <3>1. m.id \in Nat /\ m.id > lastId /\ i \in 1..lastId
      BY <1>2, <2>2 DEF RowsMove, RenderFits
    <3> QED
      BY <1>1, <1>2, <3>1
  <2> QED
    BY <2>1, <2>2
<1> QED
  BY <1>1, <1>2 DEF RenderFits, RenderThen

LEMMA OldMarks ==
  ASSUME ConvInv, RowsMove
  PROVE  /\ \A p \in Peers :
              MarkThen(p, 0) /\ MarkThen(p, contact[p].read) /\ MarkThen(p, saved[p].read)
         /\ \A a \in Announcers :
              announcing[a].at = "verified" => MarkThen(announcing[a].of, announcing[a].read)
         /\ \A r \in Renders : RenderThen(rendering[r])
<1>1. \A p \in Peers : MarkFits(p, 0)
  BY ConversationsAssumption DEF ConvInv, ConvTyped, MarkFits, PaintedUpTo
<1> QED
  BY <1>1, MarkStill, RenderStill DEF ConvInv, MarksFit

MarksThen ==
  /\ \A p \in Peers : MarkThen(p, contact'[p].read) /\ MarkThen(p, saved'[p].read)
  /\ \A a \in Announcers :
       announcing'[a].at = "verified" => MarkThen(announcing'[a].of, announcing'[a].read)
  /\ \A r \in Renders : RenderThen(rendering'[r])

LEMMA MarksThere == MarksThen => MarksFit'
BY DEF MarksThen, MarksFit, MarkThen, MarkFits, PaintedUpTo, RenderThen, RenderFits

LEMMA OldHeldKeeps ==
  ASSUME ConvInv, NEW p \in Peers
  PROVE  /\ OldHeld(p) \in [Announcers ->
              [at : {"no", "verified", "over"}, of : Peers \cup {None},
               read : 0..MaxRows, badge : BOOLEAN, held : BOOLEAN]]
         /\ \A a \in Announcers : /\ OldHeld(p)[a].at = announcing[a].at
                                  /\ OldHeld(p)[a].of = announcing[a].of
                                  /\ OldHeld(p)[a].read = announcing[a].read
<1> DEFINE Heard == [at : {"no", "verified", "over"}, of : Peers \cup {None},
                     read : 0..MaxRows, badge : BOOLEAN, held : BOOLEAN]
<1>1. contact[p].badge \in BOOLEAN /\ announcing \in [Announcers -> Heard]
  BY DEF ConvInv, ConvTyped
<1>2. ASSUME NEW h \in Heard
      PROVE  /\ [h EXCEPT !.held = TRUE, !.badge = contact[p].badge] \in Heard
             /\ [h EXCEPT !.held = TRUE, !.badge = contact[p].badge].at = h.at
             /\ [h EXCEPT !.held = TRUE, !.badge = contact[p].badge].of = h.of
             /\ [h EXCEPT !.held = TRUE, !.badge = contact[p].badge].read = h.read
  BY <1>1
<1> HIDE DEF Heard
<1>3. ASSUME NEW a \in Announcers
      PROVE  /\ OldHeld(p)[a] \in Heard
             /\ OldHeld(p)[a].at = announcing[a].at
             /\ OldHeld(p)[a].of = announcing[a].of
             /\ OldHeld(p)[a].read = announcing[a].read
  <2>1. \/ OldHeld(p)[a] = announcing[a]
        \/ OldHeld(p)[a] = [announcing[a] EXCEPT !.held = TRUE, !.badge = contact[p].badge]
    BY DEF OldHeld
  <2> QED
    BY <1>1, <1>2, <2>1
<1>4. OldHeld(p) \in [Announcers -> Heard]
  <2>1. \A a \in Announcers : OldHeld(p)[a] \in Heard
    BY <1>3
  <2> QED
    BY <2>1 DEF OldHeld
<1> QED
  BY <1>3, <1>4 DEF Heard

RenderCalls ==
  [of : Peers \cup {None}, rows : SUBSET (1..MaxRows), for : Deliveries \cup {None}]

(* A render that begins knows its thread.                                   *)
LEMMA ThreadRead ==
  ASSUME ConvInv, NEW p \in Peers
  PROVE  /\ RowsOf(p) \subseteq 1..lastId /\ RowsOf(p) \subseteq 1..MaxRows
         /\ \A m \in store : m.peer = p => m.id \in RowsOf(p)
<1>1. /\ store \subseteq [id : 1..MaxRows, peer : Peers, incoming : BOOLEAN]
      /\ \A m \in store : m.id <= lastId
      /\ lastId \in 0..MaxRows /\ MaxRows \in Nat
  BY ConversationsAssumption DEF ConvInv, ConvTyped
<1>2. \A m \in store : m.id \in 1..MaxRows /\ m.id \in 1..lastId
  BY <1>1
<1> QED
  BY <1>2 DEF RowsOf

LEMMA RenderBegun ==
  ASSUME ConvInv, RowsMove, NEW p \in Peers, NEW d \in Deliveries \cup {None},
         NEW ids \in SUBSET (1..MaxRows), ids \subseteq 1..lastId',
         \A m \in store' : m.peer = p /\ m.incoming => m.id \in ids,
         RenderBegins(p, d, ids)
  PROVE  rendering' \in [Renders -> RenderCalls] /\ \A r \in Renders : RenderThen(rendering'[r])
<1>1. PICK h : h = [of |-> p, rows |-> ids, for |-> d]
  OBVIOUS
<1>2. h \in RenderCalls /\ RenderThen(h)
  BY <1>1 DEF RenderCalls, RenderThen
<1>3. PICK r \in Renders : rendering' = [rendering EXCEPT ![r] = h]
  BY <1>1 DEF RenderBegins
<1>4. rendering \in [Renders -> RenderCalls] /\ \A q \in Renders : RenderThen(rendering[q])
  BY OldMarks DEF ConvInv, ConvTyped, RenderCalls
<1> QED
  BY <1>2, <1>3, <1>4

LEMMA RowsStill ==
  ASSUME ConvInv, store' = store, lastId' = lastId, painted \subseteq painted'
  PROVE  RowsMove
BY ConversationsAssumption DEF ConvInv, ConvTyped, RowsMove

ThreadTyped ==
  /\ store \subseteq [id : 1..MaxRows, peer : Peers, incoming : BOOLEAN]
  /\ lastId \in 0..MaxRows /\ \A m \in store : m.id <= lastId
  /\ opened \in Peers \cup {None} /\ view \in {"messages", "nodes"}

PeopleTyped ==
  /\ contact \in [Peers -> [present : BOOLEAN, read : 0..MaxRows, badge : BOOLEAN]]
  /\ saved \in [Peers -> [present : BOOLEAN, read : 0..MaxRows]]

CallsTyped ==
  /\ arriving \in [Deliveries -> [at : {"no", "known", "saved", "rendering", "over"},
                                  of : Peers \cup {None}]]
  /\ \A d \in Deliveries : arriving[d].at \in {"known", "saved"} => arriving[d].of \in Peers
  /\ announcing \in [Announcers -> [at : {"no", "verified", "over"}, of : Peers \cup {None},
                                    read : 0..MaxRows, badge : BOOLEAN, held : BOOLEAN]]
  /\ \A a \in Announcers : announcing[a].at = "verified" => announcing[a].of \in Peers

LEMMA ConvTypes ==
  ConvTyped <=> /\ ThreadTyped /\ PeopleTyped /\ CallsTyped
                /\ rendering \in [Renders -> RenderCalls]
BY DEF ConvTyped, ThreadTyped, PeopleTyped, CallsTyped, RenderCalls

LEMMA ConvTypesThen ==
  ThreadTyped' /\ PeopleTyped' /\ CallsTyped' /\ rendering' \in [Renders -> RenderCalls]
    => ConvTyped'
BY DEF ConvTyped, ThreadTyped, PeopleTyped, CallsTyped, RenderCalls

(* What the steps of the user, of contacts and of messages leave true.      *)
Good == ConvTyped' /\ MarksThen

LEMMA RenderPaintsWell ==
  ASSUME ConvInv, NEW r \in Renders, RenderPaints(r)
  PROVE  Good
<1> DEFINE p == rendering[r].of
           ids == rendering[r].rows
           d == rendering[r].for
           Cards == [present : BOOLEAN, read : 0..MaxRows, badge : BOOLEAN]
           ThreadRows == [present : BOOLEAN, read : 0..MaxRows]
<1>1. /\ ThreadTyped /\ PeopleTyped /\ CallsTyped /\ rendering \in [Renders -> RenderCalls]
      /\ MaxRows \in Nat /\ lastId \in 0..MaxRows
  BY ConvTypes, ConversationsAssumption DEF ConvInv, ConvTyped
<1>2. /\ p \in Peers /\ ids \in SUBSET (1..lastId) /\ d \in Deliveries \cup {None}
      /\ RenderFits(rendering[r])
  BY <1>1 DEF RenderPaints, ConvInv, MarksFit, RenderFits, RenderCalls
<1>3. /\ UNCHANGED <<store, lastId, opened, view, announcing, removing>>
      /\ painted' = IF view = "messages" THEN painted \cup ids ELSE painted
      /\ rendering' = [rendering EXCEPT ![r] = NoRender]
      /\ contact' = IF d = None THEN Marked(p, ids) ELSE Flagged(p, Marked(p, ids))
      /\ saved' = IF MarksRead(p, ids)
                    THEN [saved EXCEPT ![p] = [present |-> TRUE, read |-> UpTo(p, ids)]]
                    ELSE saved
      /\ arriving' = IF d = None THEN arriving ELSE [arriving EXCEPT ![d].at = "over"]
  BY DEF RenderPaints, rowVars
<1>4. RowsMove
  BY <1>3, RowsStill
<1>5. MarksRead(p, ids) =>
        UpTo(p, ids) \in ids /\ UpTo(p, ids) \in 0..MaxRows /\ MarkThen(p, UpTo(p, ids))
  <2> SUFFICES ASSUME MarksRead(p, ids)
               PROVE  /\ UpTo(p, ids) \in ids /\ UpTo(p, ids) \in 0..MaxRows
                      /\ MarkThen(p, UpTo(p, ids))
    OBVIOUS
  <2>1. ids # {} /\ view = "messages"
    BY DEF MarksRead
  <2>2. PICK k : k = UpTo(p, ids)
    OBVIOUS
  <2>3. k \in ids
    <3>1. PICK n \in Nat : n = lastId
      BY <1>1
    <3>2. PICK s \in SUBSET (1..n) : s = ids
      BY <1>2, <3>1
    <3>3. Newest(s) \in s
      BY <2>1, <3>2, NewestIsLast
    <3> QED
      BY <2>2, <3>2, <3>3 DEF UpTo
  <2>4. k \in 0..MaxRows /\ k \in 0..lastId
    BY <1>1, <1>2, <2>3
  <2>5. MarkThen(p, k)
    <3>1. \A m \in store : m.peer = p /\ m.incoming /\ m.id <= k => m.id \in ids
      <4>1. \A m \in store : \A i \in rendering[r].rows :
              m.peer = rendering[r].of /\ m.incoming /\ m.id <= i => m.id \in rendering[r].rows
        BY <1>2 DEF RenderFits
      <4> QED
        BY <2>3, <4>1
    <3>2. painted' = painted \cup ids /\ store' = store /\ lastId' = lastId
      BY <1>3, <2>1
    <3> HIDE DEF ids
    <3> QED
      BY <2>4, <3>1, <3>2 DEF MarkThen
  <2> QED
    BY <2>2, <2>3, <2>4, <2>5
<1> HIDE DEF ids, d
<1>6. ThreadTyped'
  BY <1>1, <1>3 DEF ThreadTyped
<1>7. arriving' \in [Deliveries -> [at : {"no", "known", "saved", "rendering", "over"},
                                   of : Peers \cup {None}]]
      /\ \A e \in Deliveries : arriving'[e].at \in {"known", "saved"} => arriving'[e].of \in Peers
  <2>1. CASE d = None
    BY <1>1, <1>3, <2>1 DEF CallsTyped
  <2>2. CASE d \in Deliveries /\ d # None
    BY <1>1, <1>3, <2>2 DEF CallsTyped
  <2> QED
    BY <1>2, <2>1, <2>2
<1>8. CallsTyped'
  BY <1>1, <1>3, <1>7 DEF CallsTyped
<1>9. NoRender \in RenderCalls /\ NoRender.rows = {} /\ NoRender.of = None
  BY DEF NoRender, RenderCalls
<1>10. rendering' \in [Renders -> RenderCalls]
  BY <1>1, <1>3, <1>9
<1>11. \A q \in Renders : RenderThen(rendering'[q])
  <2>1. RenderThen(NoRender)
    BY <1>9 DEF RenderThen
  <2>2. \A q \in Renders : rendering'[q] = NoRender \/ rendering'[q] = rendering[q]
    BY <1>1, <1>3
  <2> QED
    BY <1>4, <2>1, <2>2, OldMarks
<1>12. Marked(p, ids) \in [Peers -> Cards]
       /\ \A q \in Peers : \/ Marked(p, ids)[q].read = contact[q].read
                           \/ q = p /\ MarksRead(p, ids) /\ Marked(p, ids)[q].read = UpTo(p, ids)
  <2>1. contact \in [Peers -> Cards]
    BY <1>1 DEF PeopleTyped
  <2>2. CASE MarksRead(p, ids)
    <3>1. PICK h : h = [present |-> TRUE, read |-> UpTo(p, ids), badge |-> FALSE]
      OBVIOUS
    <3>2. h \in Cards /\ h.read = UpTo(p, ids)
      BY <1>5, <2>2, <3>1
    <3>3. Marked(p, ids) = [contact EXCEPT ![p] = h]
      BY <2>2, <3>1 DEF Marked
    <3> QED
      BY <1>2, <2>1, <2>2, <3>2, <3>3
  <2>3. CASE ~MarksRead(p, ids)
    BY <2>1, <2>3 DEF Marked
  <2> QED
    BY <2>2, <2>3
<1>13. ASSUME NEW f \in [Peers -> Cards]
       PROVE  /\ Flagged(p, f) \in [Peers -> Cards]
              /\ \A q \in Peers : Flagged(p, f)[q].read = f[q].read
  BY <1>2 DEF Flagged
<1>14. contact' \in [Peers -> Cards]
       /\ \A q \in Peers : \/ contact'[q].read = contact[q].read
                           \/ q = p /\ MarksRead(p, ids) /\ contact'[q].read = UpTo(p, ids)
  <2> HIDE DEF Cards
  <2>1. PICK f \in [Peers -> Cards] : f = Marked(p, ids)
    BY <1>12
  <2> QED
    BY <1>3, <1>12, <1>13, <2>1
<1>15. saved' \in [Peers -> ThreadRows]
       /\ \A q \in Peers : \/ saved'[q].read = saved[q].read
                           \/ q = p /\ MarksRead(p, ids) /\ saved'[q].read = UpTo(p, ids)
  <2>1. saved \in [Peers -> ThreadRows]
    BY <1>1 DEF PeopleTyped
  <2>2. CASE MarksRead(p, ids)
    <3>1. PICK h : h = [present |-> TRUE, read |-> UpTo(p, ids)]
      OBVIOUS
    <3>2. h \in ThreadRows /\ h.read = UpTo(p, ids)
      BY <1>5, <2>2, <3>1
    <3>3. saved' = [saved EXCEPT ![p] = h]
      BY <1>3, <2>2, <3>1
    <3> QED
      BY <1>2, <2>1, <2>2, <3>2, <3>3
  <2>3. CASE ~MarksRead(p, ids)
    BY <1>3, <2>1, <2>3
  <2> QED
    BY <2>2, <2>3
<1>16. \A q \in Peers : MarkThen(q, contact'[q].read) /\ MarkThen(q, saved'[q].read)
  BY <1>4, <1>5, <1>14, <1>15, OldMarks
<1>17. \A a \in Announcers :
         announcing'[a].at = "verified" => MarkThen(announcing'[a].of, announcing'[a].read)
  BY <1>3, <1>4, OldMarks
<1>18. ConvTyped'
  BY <1>6, <1>8, <1>10, <1>14, <1>15, ConvTypesThen DEF PeopleTyped
<1> QED
  BY <1>11, <1>16, <1>17, <1>18 DEF Good, MarksThen

LEMMA ScreenStepsWell ==
  ASSUME ConvInv, rowVars' = rowVars, painted' = painted, saved' = saved,
         announcing' = announcing, arriving' = arriving, opened' \in Peers \cup {None},
         view' \in {"messages", "nodes"},
         contact' = contact \/ \E p \in Peers : contact' = [contact EXCEPT ![p].badge = FALSE],
         rendering' = rendering
           \/ \E p \in Peers : RenderBegins(p, None, RowsOf(p))
  PROVE  Good
<1>1. /\ ThreadTyped /\ PeopleTyped /\ CallsTyped /\ rendering \in [Renders -> RenderCalls]
  BY ConvTypes DEF ConvInv
<1>2. store' = store /\ lastId' = lastId /\ RowsMove
  BY RowsStill DEF rowVars
<1>3. rendering' \in [Renders -> RenderCalls] /\ \A r \in Renders : RenderThen(rendering'[r])
  <2>1. CASE rendering' = rendering
    BY <1>1, <1>2, <2>1, OldMarks
  <2>2. ASSUME NEW p \in Peers, RenderBegins(p, None, RowsOf(p)) PROVE <1>3
    <3>1. PICK ids : ids = RowsOf(p)
      OBVIOUS
    <3>2. /\ ids \in SUBSET (1..MaxRows) /\ ids \subseteq 1..lastId'
          /\ \A m \in store' : m.peer = p /\ m.incoming => m.id \in ids
      BY <1>2, <3>1, ThreadRead
    <3>3. RenderBegins(p, None, ids)
      BY <2>2, <3>1
    <3> QED
      BY <1>2, <3>2, <3>3, RenderBegun
  <2> QED
    BY <2>1, <2>2
<1>4. PeopleTyped' /\ \A p \in Peers : contact'[p].read = contact[p].read
  <2>1. CASE contact' = contact
    BY <1>1, <2>1 DEF PeopleTyped
  <2>2. ASSUME NEW q \in Peers, contact' = [contact EXCEPT ![q].badge = FALSE] PROVE <1>4
    <3>1. contact' \in [Peers -> [present : BOOLEAN, read : 0..MaxRows, badge : BOOLEAN]]
      BY <1>1, <2>2, ZenonT(40) DEF PeopleTyped
    <3>2. \A p \in Peers : contact'[p].read = contact[p].read
      BY <1>1, <2>2 DEF PeopleTyped
    <3> QED
      BY <1>1, <3>1, <3>2 DEF PeopleTyped
  <2> QED
    BY <2>1, <2>2
<1>5. ThreadTyped'
  BY <1>1, <1>2 DEF ThreadTyped
<1>6. CallsTyped'
  BY <1>1, Zenon DEF CallsTyped
<1>7. MarksThen
  BY <1>2, <1>3, <1>4, OldMarks DEF MarksThen
<1> QED
  BY <1>3, <1>4, <1>5, <1>6, <1>7, ConvTypesThen DEF Good

(* A row is added above all marks.                                          *)
LEMMA RowAdded ==
  ASSUME ConvInv, NEW p \in Peers, NEW x \in BOOLEAN, lastId < MaxRows, lastId' = lastId + 1,
         store' = store \cup {[id |-> lastId + 1, peer |-> p, incoming |-> x]},
         painted' = painted, UNCHANGED <<opened, view>>
  PROVE  ThreadTyped' /\ RowsMove /\ lastId + 1 \in 1..MaxRows
<1>1. MaxRows \in Nat /\ lastId \in 0..MaxRows /\ lastId + 1 \in 1..MaxRows
  BY ConversationsAssumption DEF ConvInv, ConvTyped
<1>2. PICK k \in 1..MaxRows : k = lastId + 1
  BY <1>1
<1>3. PICK row : row = [id |-> k, peer |-> p, incoming |-> x]
  OBVIOUS
<1>4. row \in [id : 1..MaxRows, peer : Peers, incoming : BOOLEAN] /\ row.id = k
  BY <1>3
<1>5. store' = store \cup {row} /\ lastId' = k
  BY <1>2, <1>3
<1>6. /\ store \subseteq [id : 1..MaxRows, peer : Peers, incoming : BOOLEAN]
      /\ \A m \in store : m.id <= lastId
      /\ opened \in Peers \cup {None} /\ view \in {"messages", "nodes"}
  BY DEF ConvInv, ConvTyped
<1>7. \A m \in store' : m.id <= k
  <2>1. \A m \in store : m.id \in 1..MaxRows
    BY <1>6
  <2>2. \A m \in store : m.id <= k
    BY <1>1, <1>2, <1>6, <2>1
  <2> QED
    BY <1>2, <1>4, <1>5, <2>2
<1>8. ThreadTyped'
  BY <1>2, <1>4, <1>5, <1>6, <1>7 DEF ThreadTyped
<1>9. k > lastId /\ k \in Nat /\ lastId <= k /\ k \in 0..MaxRows
  BY <1>1, <1>2
<1>10. RowsMove
  BY <1>4, <1>5, <1>9 DEF RowsMove
<1> QED
  BY <1>1, <1>8, <1>10

LEMMA SendsRowWell == ASSUME ConvInv, SendsRow PROVE Good
<1>1. /\ ThreadTyped /\ PeopleTyped /\ CallsTyped /\ rendering \in [Renders -> RenderCalls]
  BY ConvTypes DEF ConvInv
<1>2. PICK p \in Peers : p = opened
  BY <1>1 DEF SendsRow, ThreadTyped
<1>3. /\ lastId < MaxRows /\ lastId' = lastId + 1
      /\ store' = store \cup {[id |-> lastId + 1, peer |-> p, incoming |-> FALSE]}
      /\ RenderBegins(p, None, RowsOf(p) \cup {lastId + 1})
      /\ UNCHANGED <<contact, saved, opened, view, painted, arriving, announcing>>
  BY <1>2 DEF SendsRow, screenVars
<1>4. ThreadTyped' /\ RowsMove /\ lastId + 1 \in 1..MaxRows
  BY <1>3, RowAdded
<1>5. PICK ids : ids = RowsOf(p) \cup {lastId + 1}
  OBVIOUS
<1>6. ids \in SUBSET (1..MaxRows) /\ ids \subseteq 1..lastId'
  <2>1. RowsOf(p) \subseteq 1..lastId /\ RowsOf(p) \subseteq 1..MaxRows
    BY ThreadRead
  <2>2. lastId \in Nat /\ lastId' \in Nat /\ MaxRows \in Nat
    BY <1>1, <1>3, ConversationsAssumption DEF ThreadTyped
  <2> QED
    BY <1>3, <1>4, <1>5, <2>1, <2>2
<1>7. \A m \in store' : m.peer = p /\ m.incoming => m.id \in ids
  BY <1>3, <1>5, ThreadRead
<1>8. rendering' \in [Renders -> RenderCalls] /\ \A r \in Renders : RenderThen(rendering'[r])
  BY <1>3, <1>4, <1>5, <1>6, <1>7, RenderBegun
<1>9. PeopleTyped' /\ CallsTyped'
  BY <1>1, <1>3 DEF PeopleTyped, CallsTyped
<1>10. MarksThen
  BY <1>3, <1>4, <1>8, OldMarks DEF MarksThen
<1> QED
  BY <1>4, <1>8, <1>9, <1>10, ConvTypesThen DEF Good

(* Steps that leave the renders alone.                                      *)
LEMMA UnrenderedWell ==
  ASSUME ConvInv, RowsMove, rendering' = rendering, ThreadTyped', PeopleTyped', CallsTyped',
         \A p \in Peers : \/ contact'[p].read = contact[p].read
                          \/ contact'[p].read = 0
                          \/ \E a \in Announcers : /\ announcing[a].at = "verified"
                                                   /\ announcing[a].of = p
                                                   /\ contact'[p].read = announcing[a].read,
         \A p \in Peers : \/ saved'[p].read = saved[p].read
                          \/ saved'[p].read = contact[p].read
                          \/ saved'[p].read = 0
                          \/ \E a \in Announcers : /\ announcing[a].at = "verified"
                                                   /\ announcing[a].of = p
                                                   /\ saved'[p].read = announcing[a].read,
         \A a \in Announcers : announcing'[a].at = "verified" =>
           \/ /\ announcing[a].at = "verified"
              /\ announcing'[a].of = announcing[a].of
              /\ announcing'[a].read = announcing[a].read
           \/ announcing'[a].of \in Peers /\ announcing'[a].read = contact[announcing'[a].of].read
  PROVE  Good
<1>1. /\ \A p \in Peers :
           MarkThen(p, 0) /\ MarkThen(p, contact[p].read) /\ MarkThen(p, saved[p].read)
      /\ \A a \in Announcers :
           announcing[a].at = "verified" => MarkThen(announcing[a].of, announcing[a].read)
      /\ \A r \in Renders : RenderThen(rendering[r])
  BY OldMarks
<1>2. \A p \in Peers : MarkThen(p, contact'[p].read)
  BY <1>1
<1>3. \A p \in Peers : MarkThen(p, saved'[p].read)
  BY <1>1
<1>4. \A a \in Announcers :
        announcing'[a].at = "verified" => MarkThen(announcing'[a].of, announcing'[a].read)
  BY <1>1
<1>5. MarksThen
  BY <1>1, <1>2, <1>3, <1>4 DEF MarksThen
<1>6. rendering' \in [Renders -> RenderCalls]
  BY ConvTypes DEF ConvInv
<1> QED
  BY <1>5, <1>6, ConvTypesThen DEF Good

Heard == [at : {"no", "verified", "over"}, of : Peers \cup {None}, read : 0..MaxRows,
          badge : BOOLEAN, held : BOOLEAN]

Arrived == [at : {"no", "known", "saved", "rendering", "over"}, of : Peers \cup {None}]

LEMMA ContactStepsWell ==
  ASSUME ConvInv, NEW p \in Peers,
         AddsContact(p) \/ RemoveContact(p) \/ ContactDeleted(p) \/ ThreadClosed(p)
  PROVE  Good
<1>1. /\ ThreadTyped /\ PeopleTyped /\ CallsTyped /\ rendering \in [Renders -> RenderCalls]
      /\ MaxRows \in Nat
  BY ConvTypes, ConversationsAssumption DEF ConvInv
<1>2. /\ OldHeld(p) \in [Announcers -> Heard]
      /\ \A a \in Announcers : /\ OldHeld(p)[a].at = announcing[a].at
                               /\ OldHeld(p)[a].of = announcing[a].of
                               /\ OldHeld(p)[a].read = announcing[a].read
  BY OldHeldKeeps DEF Heard
<1>3. announcing' \in {announcing, OldHeld(p)} /\ arriving' = arriving /\ rendering' = rendering
  BY DEF AddsContact, RemoveContact, ContactDeleted, ThreadClosed
<1>4. /\ \A a \in Announcers : /\ announcing'[a].at = announcing[a].at
                               /\ announcing'[a].of = announcing[a].of
                               /\ announcing'[a].read = announcing[a].read
      /\ announcing' \in [Announcers -> Heard]
  BY <1>1, <1>2, <1>3 DEF CallsTyped, Heard
<1>5. CallsTyped'
  BY <1>1, <1>3, <1>4 DEF CallsTyped, Heard
<1>6. lastId' = lastId /\ store' \subseteq store /\ painted' = painted /\ view' = view
      /\ opened' \in {opened, None}
  BY DEF AddsContact, RemoveContact, ContactDeleted, ThreadClosed, rowVars, screenVars
<1>7. ThreadTyped' /\ RowsMove
  BY <1>1, <1>6 DEF ThreadTyped, RowsMove
<1>8. /\ Absent \in [present : BOOLEAN, read : 0..MaxRows, badge : BOOLEAN] /\ Absent.read = 0
      /\ Unsaved \in [present : BOOLEAN, read : 0..MaxRows] /\ Unsaved.read = 0
  BY <1>1 DEF Absent, Unsaved
<1>9. /\ contact' \in [Peers -> [present : BOOLEAN, read : 0..MaxRows, badge : BOOLEAN]]
      /\ \A q \in Peers : contact'[q].read = contact[q].read \/ contact'[q].read = 0
  <2>1. CASE AddsContact(p)
    BY <1>1, <2>1 DEF PeopleTyped, AddsContact
  <2>2. CASE RemoveContact(p)
    BY <1>1, <1>8, <2>2 DEF PeopleTyped, RemoveContact
  <2>3. CASE ContactDeleted(p) \/ ThreadClosed(p)
    BY <1>1, <2>3 DEF PeopleTyped, ContactDeleted, ThreadClosed
  <2> QED
    BY <2>1, <2>2, <2>3
<1>10. /\ saved' \in [Peers -> [present : BOOLEAN, read : 0..MaxRows]]
       /\ \A q \in Peers : \/ saved'[q].read = saved[q].read
                           \/ saved'[q].read = contact[q].read
                           \/ saved'[q].read = 0
  <2>1. CASE AddsContact(p)
    <3>1. PICK h : h = [present |-> TRUE, read |-> contact[p].read]
      OBVIOUS
    <3>2. h \in [present : BOOLEAN, read : 0..MaxRows] /\ h.read = contact[p].read
      BY <1>1, <3>1 DEF PeopleTyped
    <3>3. saved' = [saved EXCEPT ![p] = h]
      BY <2>1, <3>1 DEF AddsContact
    <3> QED
      BY <1>1, <3>2, <3>3 DEF PeopleTyped
  <2>2. CASE ContactDeleted(p)
    BY <1>1, <1>8, <2>2 DEF PeopleTyped, ContactDeleted
  <2>3. CASE RemoveContact(p) \/ ThreadClosed(p)
    BY <1>1, <2>3 DEF PeopleTyped, RemoveContact, ThreadClosed
  <2> QED
    BY <2>1, <2>2, <2>3
<1>11. PeopleTyped'
  BY <1>9, <1>10 DEF PeopleTyped
<1> QED
  BY <1>3, <1>4, <1>5, <1>7, <1>9, <1>10, <1>11, UnrenderedWell

LEMMA AnnounceStepsWell ==
  ASSUME ConvInv, NEW a \in Announcers,
         (\E p \in Peers : AnnounceVerified(a, p)) \/ AnnounceStored(a)
  PROVE  Good
<1>1. /\ ThreadTyped /\ PeopleTyped /\ CallsTyped /\ rendering \in [Renders -> RenderCalls]
      /\ MaxRows \in Nat /\ announcing \in [Announcers -> Heard]
  BY ConvTypes, ConversationsAssumption DEF ConvInv, CallsTyped, Heard
<1>2. /\ UNCHANGED <<store, lastId, opened, view, painted, rendering, arriving>>
  BY DEF AnnounceVerified, AnnounceStored, rowVars, screenVars
<1>3. ThreadTyped' /\ RowsMove
  BY <1>1, <1>2, RowsStill DEF ThreadTyped
<1>4. ASSUME NEW p \in Peers, AnnounceVerified(a, p) PROVE Good
  <2>1. PICK h : h = [at |-> "verified", of |-> p, read |-> contact[p].read, badge |-> FALSE,
                      held |-> ~contact[p].present]
    OBVIOUS
  <2>2. h \in Heard /\ h.of = p /\ h.read = contact[p].read
    <3>1. contact[p].read \in 0..MaxRows
      BY <1>1 DEF PeopleTyped
    <3>2. (~contact[p].present) \in BOOLEAN
      OBVIOUS
    <3> QED
      BY <2>1, <3>1, <3>2 DEF Heard
  <2>3. announcing' = [announcing EXCEPT ![a] = h] /\ UNCHANGED <<contact, saved>>
    BY <1>4, <2>1 DEF AnnounceVerified
  <2>4. announcing' \in [Announcers -> Heard]
        /\ \A b \in Announcers : announcing'[b] = IF b = a THEN h ELSE announcing[b]
    BY <1>1, <2>2, <2>3
  <2>5. CallsTyped'
    BY <1>1, <1>2, <2>2, <2>4 DEF CallsTyped, Heard
  <2>6. PeopleTyped'
    BY <1>1, <2>3 DEF PeopleTyped
  <2> QED
    BY <1>2, <1>3, <2>2, <2>3, <2>4, <2>5, <2>6, UnrenderedWell
<1>5. CASE AnnounceStored(a)
  <2> DEFINE badge == IF announcing[a].held THEN announcing[a].badge
                      ELSE contact[announcing[a].of].badge
  <2>1. PICK p \in Peers : p = announcing[a].of
    BY <1>1, <1>5 DEF AnnounceStored, CallsTyped
  <2>2. announcing[a].read \in 0..MaxRows /\ badge \in BOOLEAN /\ announcing[a].at = "verified"
    BY <1>1, <1>5, <2>1 DEF AnnounceStored, PeopleTyped, Heard
  <2>3. PICK h : h = [present |-> TRUE, read |-> announcing[a].read, badge |-> badge]
    OBVIOUS
  <2>4. PICK s : s = [present |-> TRUE, read |-> announcing[a].read]
    OBVIOUS
  <2>5. /\ h \in [present : BOOLEAN, read : 0..MaxRows, badge : BOOLEAN]
        /\ s \in [present : BOOLEAN, read : 0..MaxRows]
        /\ h.read = announcing[a].read /\ s.read = announcing[a].read
    <3> HIDE DEF badge
    <3> QED
      BY <2>2, <2>3, <2>4
  <2>6. /\ contact' = [contact EXCEPT ![p] = h] /\ saved' = [saved EXCEPT ![p] = s]
        /\ announcing' = [OldHeld(p) EXCEPT ![a].at = "over"]
    BY <1>5, <2>1, <2>3, <2>4 DEF AnnounceStored
  <2>7. PICK f \in [Announcers -> Heard] : f = OldHeld(p)
    BY OldHeldKeeps DEF Heard
  <2>8. \A b \in Announcers : f[b].at = announcing[b].at /\ f[b].of = announcing[b].of
                              /\ f[b].read = announcing[b].read
    BY <2>7, OldHeldKeeps
  <2>9. announcing' \in [Announcers -> Heard]
        /\ announcing'[a].at = "over" /\ announcing'[a].of = announcing[a].of
        /\ \A b \in Announcers : b # a => announcing'[b] = f[b]
    BY <2>6, <2>7, <2>8 DEF Heard
  <2>10. CallsTyped'
    BY <1>1, <1>2, <2>8, <2>9 DEF CallsTyped, Heard
  <2>11. PeopleTyped' /\ \A q \in Peers : /\ contact'[q].read = IF q = p THEN announcing[a].read
                                                               ELSE contact[q].read
                                          /\ saved'[q].read = IF q = p THEN announcing[a].read
                                                              ELSE saved[q].read
    BY <1>1, <2>5, <2>6 DEF PeopleTyped
  <2> QED
    BY <1>2, <1>3, <2>1, <2>2, <2>8, <2>9, <2>10, <2>11, UnrenderedWell
<1> QED
  BY <1>4, <1>5

LEMMA ArrivalsTyped ==
  ASSUME CallsTyped, announcing' = announcing, arriving' \in [Deliveries -> Arrived],
         NEW d \in Deliveries,
         \A e \in Deliveries : e # d => arriving'[e] = arriving[e],
         arriving'[d].at \in {"known", "saved"} => arriving'[d].of \in Peers
  PROVE  CallsTyped'
<1>1. ASSUME NEW e \in Deliveries, arriving'[e].at \in {"known", "saved"}
      PROVE  arriving'[e].of \in Peers
  <2>1. CASE e = d
    BY <1>1, <2>1
  <2>2. CASE e # d
    BY <1>1, <2>2 DEF CallsTyped
  <2> QED
    BY <2>1, <2>2
<1>2. /\ announcing' \in [Announcers -> Heard]
      /\ \A a \in Announcers : announcing'[a].at = "verified" => announcing'[a].of \in Peers
  BY DEF CallsTyped, Heard
<1> QED
  BY <1>1, <1>2 DEF CallsTyped, Arrived, Heard

LEMMA MessageStepsWell ==
  ASSUME ConvInv, NEW d \in Deliveries,
         (\E p \in Peers : MessageArrives(d, p)) \/ MessageSaved(d) \/ MessageShown(d)
  PROVE  Good
<1> DEFINE Cards == [present : BOOLEAN, read : 0..MaxRows, badge : BOOLEAN]
           ThreadRows == [present : BOOLEAN, read : 0..MaxRows]
<1>1. /\ ThreadTyped /\ PeopleTyped /\ CallsTyped /\ rendering \in [Renders -> RenderCalls]
      /\ MaxRows \in Nat /\ arriving \in [Deliveries -> Arrived]
      /\ contact \in [Peers -> Cards] /\ saved \in [Peers -> ThreadRows]
  BY ConvTypes, ConversationsAssumption DEF ConvInv, CallsTyped, Arrived, PeopleTyped
<1>2. UNCHANGED <<opened, view, painted, announcing>>
  BY DEF MessageArrives, MessageSaved, MessageShown, screenVars
<1>3. ASSUME NEW p \in Peers, MessageArrives(d, p) PROVE Good
  <2>1. ThreadTyped' /\ RowsMove /\ rendering' = rendering
    BY <1>1, <1>2, <1>3, RowsStill DEF ThreadTyped, MessageArrives, rowVars
  <2>2. /\ arriving' \in [Deliveries -> Arrived]
        /\ \A e \in Deliveries : e # d => arriving'[e] = arriving[e]
        /\ arriving'[d].of = p
    BY <1>1, <1>3 DEF MessageArrives, Arrived
  <2>3. CallsTyped'
    BY <1>1, <1>2, <2>2, ArrivalsTyped
  <2>4. PICK s : s = [present |-> TRUE, read |-> 0]
    OBVIOUS
  <2>5. s \in ThreadRows /\ s.read = 0
    BY <1>1, <2>4
  <2>6. contact' \in [Peers -> Cards] /\ \A q \in Peers : contact'[q].read = contact[q].read
    <3>1. CASE contact' = contact
      BY <1>1, <3>1
    <3>2. CASE contact' = [contact EXCEPT ![p].present = TRUE]
      BY <1>1, <3>2
    <3> QED
      BY <1>3, <3>1, <3>2 DEF MessageArrives
  <2>7. saved' \in [Peers -> ThreadRows]
        /\ \A q \in Peers : saved'[q].read = saved[q].read \/ saved'[q].read = 0
    <3> HIDE DEF ThreadRows
    <3>1. saved' = saved \/ saved' = [saved EXCEPT ![p] = s]
      BY <1>3, <2>4 DEF MessageArrives
    <3> QED
      BY <1>1, <2>5, <3>1
  <2> QED
    BY <1>2, <2>1, <2>3, <2>6, <2>7, UnrenderedWell DEF PeopleTyped
<1>4. CASE MessageSaved(d)
  <2>1. PICK p \in Peers : p = arriving[d].of
    BY <1>1, <1>4 DEF MessageSaved, CallsTyped
  <2>2. /\ lastId < MaxRows /\ lastId' = lastId + 1
        /\ store' = store \cup {[id |-> lastId + 1, peer |-> p, incoming |-> TRUE]}
        /\ arriving' = [arriving EXCEPT ![d].at = "saved"]
        /\ UNCHANGED <<contact, saved, rendering>>
    BY <1>4, <2>1 DEF MessageSaved
  <2>3. ThreadTyped' /\ RowsMove
    BY <1>2, <2>2, RowAdded
  <2>4. /\ arriving' \in [Deliveries -> Arrived]
        /\ \A e \in Deliveries : e # d => arriving'[e] = arriving[e]
        /\ arriving'[d].of = p
    BY <1>1, <2>1, <2>2 DEF Arrived
  <2>5. CallsTyped' /\ PeopleTyped'
    BY <1>1, <1>2, <2>2, <2>4, ArrivalsTyped DEF PeopleTyped
  <2> QED
    BY <1>2, <2>2, <2>3, <2>5, UnrenderedWell
<1>5. CASE MessageShown(d)
  <2>1. PICK p \in Peers : p = arriving[d].of
    BY <1>1, <1>5 DEF MessageShown, CallsTyped
  <2>2. ThreadTyped' /\ RowsMove /\ saved' = saved /\ store' = store /\ lastId' = lastId
    BY <1>1, <1>2, <1>5, RowsStill DEF ThreadTyped, MessageShown, rowVars
  <2>3. ASSUME NEW at \in {"rendering", "over"}, arriving' = [arriving EXCEPT ![d].at = at]
        PROVE  CallsTyped'
    <3>1. /\ arriving' \in [Deliveries -> Arrived]
          /\ \A e \in Deliveries : e # d => arriving'[e] = arriving[e]
          /\ arriving'[d].at = at
      BY <1>1, <2>3 DEF Arrived
    <3> QED
      BY <1>1, <1>2, <3>1, ArrivalsTyped
  <2>4. CASE opened = p
    <3>1. /\ RenderBegins(p, d, RowsOf(p)) /\ contact' = contact
          /\ arriving' = [arriving EXCEPT ![d].at = "rendering"]
      BY <1>5, <2>1, <2>4 DEF MessageShown
    <3>2. PICK ids : ids = RowsOf(p)
      OBVIOUS
    <3>3. /\ ids \in SUBSET (1..MaxRows) /\ ids \subseteq 1..lastId'
          /\ \A m \in store' : m.peer = p /\ m.incoming => m.id \in ids
      BY <2>2, <3>2, ThreadRead
    <3>4. rendering' \in [Renders -> RenderCalls] /\ \A r \in Renders : RenderThen(rendering'[r])
      BY <2>2, <3>1, <3>2, <3>3, RenderBegun
    <3>5. PeopleTyped' /\ CallsTyped'
      BY <1>1, <2>2, <2>3, <3>1 DEF PeopleTyped
    <3>6. MarksThen
      BY <1>2, <2>2, <3>1, <3>4, OldMarks DEF MarksThen
    <3> QED
      BY <2>2, <3>4, <3>5, <3>6, ConvTypesThen DEF Good
  <2>5. CASE opened # p
    <3>1. /\ contact' = Flagged(p, contact) /\ rendering' = rendering
          /\ arriving' = [arriving EXCEPT ![d].at = "over"]
      BY <1>5, <2>1, <2>5 DEF MessageShown
    <3>2. contact' \in [Peers -> Cards] /\ \A q \in Peers : contact'[q].read = contact[q].read
      BY <1>1, <3>1 DEF Flagged
    <3>3. PeopleTyped' /\ CallsTyped'
      BY <1>1, <2>2, <2>3, <3>1, <3>2 DEF PeopleTyped
    <3> QED
      BY <1>2, <2>2, <3>1, <3>2, <3>3, UnrenderedWell
  <2> QED
    BY <2>4, <2>5
<1> QED
  BY <1>3, <1>4, <1>5

LEMMA ReloadWell == ASSUME ConvInv, Reload PROVE Good
<1> DEFINE Cards == [present : BOOLEAN, read : 0..MaxRows, badge : BOOLEAN]
<1>1. /\ ThreadTyped /\ PeopleTyped /\ CallsTyped
      /\ MaxRows \in Nat /\ arriving \in [Deliveries -> Arrived]
      /\ announcing \in [Announcers -> Heard]
  BY ConvTypes, ConversationsAssumption DEF ConvInv, CallsTyped, Arrived, Heard
<1>2. /\ UNCHANGED <<store, lastId, saved, painted>> /\ opened' = None /\ view' = "messages"
      /\ rendering' = [r \in Renders |-> NoRender]
  BY DEF Reload, rowVars
<1>3. ThreadTyped' /\ RowsMove
  BY <1>1, <1>2, RowsStill DEF ThreadTyped
<1>4. contact' \in [Peers -> Cards]
      /\ \A p \in Peers : contact'[p].read = saved[p].read \/ contact'[p].read = 0
  <2>1. Absent \in Cards /\ Absent.read = 0
    BY <1>1 DEF Absent
  <2>2. ASSUME NEW p \in Peers
        PROVE  /\ [present |-> TRUE, read |-> saved[p].read, badge |-> Unread(p) # {}] \in Cards
               /\ [present |-> TRUE, read |-> saved[p].read, badge |-> Unread(p) # {}].read
                    = saved[p].read
    <3>1. saved[p].read \in 0..MaxRows /\ (Unread(p) # {}) \in BOOLEAN
      BY <1>1 DEF PeopleTyped
    <3> QED
      BY <3>1
  <2>3. ASSUME NEW p \in Peers
        PROVE  \/ contact'[p] = Absent
               \/ contact'[p] =
                    [present |-> TRUE, read |-> saved[p].read, badge |-> Unread(p) # {}]
    BY DEF Reload
  <2>4. ASSUME NEW p \in Peers
        PROVE  contact'[p] \in Cards /\ (contact'[p].read = saved[p].read \/ contact'[p].read = 0)
    <3> HIDE DEF Cards
    <3> QED
      BY <2>1, <2>2, <2>3
  <2> HIDE DEF Cards
  <2> QED
    BY <2>4 DEF Reload
<1>5. /\ arriving' \in [Deliveries -> Arrived]
      /\ \A d \in Deliveries : arriving'[d].at \in {"no", "over"}
  <2>1. arriving' = [d \in Deliveries |->
                       [arriving[d] EXCEPT !.at = IF @ = "no" THEN "no" ELSE "over"]]
    BY DEF Reload
  <2> QED
    BY <1>1, <2>1 DEF Arrived
<1>6. announcing' \in [Announcers -> Heard]
      /\ \A a \in Announcers : announcing'[a].at \in {"no", "over"}
  <2>1. announcing' = [a \in Announcers |->
                         [announcing[a] EXCEPT !.at = IF @ = "no" THEN "no" ELSE "over"]]
    BY DEF Reload
  <2> QED
    BY <1>1, <2>1 DEF Heard
<1>7. CallsTyped'
  BY <1>5, <1>6 DEF CallsTyped, Arrived, Heard
<1>8. PeopleTyped'
  BY <1>1, <1>2, <1>4 DEF PeopleTyped
<1>9. NoRender \in RenderCalls /\ RenderThen(NoRender)
  BY DEF NoRender, RenderCalls, RenderThen
<1>10. rendering' \in [Renders -> RenderCalls] /\ \A r \in Renders : RenderThen(rendering'[r])
  BY <1>2, <1>9
<1>11. MarksThen
  BY <1>2, <1>3, <1>4, <1>6, <1>10, OldMarks DEF MarksThen
<1> QED
  BY <1>3, <1>7, <1>8, <1>10, <1>11, ConvTypesThen DEF Good

(* Nothing counts as read that was not painted, for any number of renders,  *)
(* messages, announces and contacts in any order; and the state is well     *)
(* typed (js/app.js, renderMessages, handleAnnounce,                        *)
(* dispatchIncomingMessage, removeContact).                                 *)
THEOREM ReadWasPainted == ConvSpec => [](ConvTypeOK /\ ReadMeansPainted)
<1>1. ConvInv /\ [ConvNext]_convVars => ConvInv'
  <2> SUFFICES ASSUME ConvInv, [ConvNext]_convVars PROVE Good
    BY MarksThere DEF Good, ConvInv
  <2>1. /\ opened \in Peers \cup {None} /\ view \in {"messages", "nodes"}
    BY DEF ConvInv, ConvTyped
  <2>2. ASSUME NEW p \in Peers, SelectContact(p) PROVE Good
    BY <2>1, <2>2, ScreenStepsWell DEF SelectContact
  <2>3. CASE GoesBack
    BY <2>1, <2>3, ScreenStepsWell DEF GoesBack
  <2>4. CASE SwitchView
    BY <2>1, <2>4, ScreenStepsWell DEF SwitchView
  <2>5. CASE Rerenders
    BY <2>1, <2>5, ScreenStepsWell DEF Rerenders, screenVars
  <2>6. CASE UNCHANGED convVars
    BY <2>1, <2>6, ScreenStepsWell DEF convVars, rowVars
  <2> QED
    BY <2>2, <2>3, <2>4, <2>5, <2>6, RenderPaintsWell, ContactStepsWell, SendsRowWell,
       AnnounceStepsWell, MessageStepsWell, ReloadWell DEF ConvNext
<1> QED
  BY <1>1, ConvInitial, ConvInvTyped, PTL DEF ConvSpec

(***************************************************************************)
(* The nodes store. The rows that came in past the count stay out of the    *)
(* sum. The others are within the bound, or a prune is under way that knows *)
(* of all but the counted ones.                                             *)
(***************************************************************************)
Bound == IF Cap > Cardinality(conversed) THEN Cap ELSE Cardinality(conversed)

HearingsTyped == [at : {"no", "read", "saved"}, node : Nodes \cup {"none"}, seen : 0..MaxClock,
                  was : BOOLEAN]

NodesTyped ==
  /\ nodes \in [Nodes -> 0..MaxClock]
  /\ clock \in 0..MaxClock /\ counted \in 0..(PruneEvery - 1)
  /\ hearing \in [Hearings -> HearingsTyped]
  /\ \A h \in Hearings : hearing[h].at # "no" => hearing[h].node \in Nodes
  /\ pruning \in [Prunes -> [on : BOOLEAN, rows : [Nodes -> 0..MaxClock],
                          spared : SUBSET Linked]]
  /\ listed \in [Nodes -> 0..MaxClock]
  /\ conversed \subseteq Linked /\ uncounted \subseteq Nodes

Within == Cardinality(Stored \ uncounted) <= Bound + counted

Knows(j) == pruning[j].on /\ Cardinality((Stored \ Rows(j)) \ uncounted) <= counted

(* What a prune spares is still spared when it deletes.                     *)
SparedStill == \A j \in Prunes : pruning[j].spared \subseteq conversed

NodesInv == NodesTyped /\ SparedStill /\ (failed \/ Within \/ \E j \in Prunes : Knows(j))

LEMMA NodesInvBounded == NodesInv => NodesTypeOK /\ StoreBounded
<1> SUFFICES ASSUME NodesInv PROVE NodesTypeOK /\ StoreBounded
  OBVIOUS
<1>1. NodesTypeOK
  BY DEF NodesInv, NodesTyped, NodesTypeOK
<1>2. IsFiniteSet(Nodes) /\ Linked \subseteq Nodes /\ Cap \in Nat /\ PruneEvery \in Nat \ {0}
  BY NodeStoreAssumption
<1>3. ASSUME Within PROVE Cardinality(Stored) <= Bound + counted + Cardinality(uncounted)
  <2>1. /\ IsFiniteSet(Stored \ uncounted) /\ IsFiniteSet(uncounted)
        /\ IsFiniteSet(conversed) /\ IsFiniteSet(Stored)
    <3>1. /\ Stored \ uncounted \in SUBSET Nodes /\ uncounted \in SUBSET Nodes
          /\ conversed \in SUBSET Nodes /\ Stored \in SUBSET Nodes
      BY <1>2 DEF NodesInv, NodesTyped, Stored
    <3> QED
      BY <1>2, <3>1, FS_Subset
  <2>2. PICK rest : rest = Stored \ uncounted
    OBVIOUS
  <2>3. PICK extra : extra = uncounted
    OBVIOUS
  <2>4. /\ IsFiniteSet(rest \cup extra)
        /\ Cardinality(rest \cup extra) <= Cardinality(rest) + Cardinality(extra)
        /\ Cardinality(rest) \in Nat /\ Cardinality(extra) \in Nat
        /\ Cardinality(rest \cup extra) \in Nat
    <3>1. IsFiniteSet(rest) /\ IsFiniteSet(extra)
      BY <2>1, <2>2, <2>3
    <3>2. /\ IsFiniteSet(rest \cup extra) /\ IsFiniteSet(rest \cap extra)
          /\ Cardinality(rest \cup extra) =
               Cardinality(rest) + Cardinality(extra) - Cardinality(rest \cap extra)
      <4>1. rest \cap extra \in SUBSET rest
        OBVIOUS
      <4> QED
        BY <3>1, <4>1, FS_Union, FS_Subset
    <3> QED
      BY <3>1, <3>2, FS_CardinalityType
  <2>5. Cardinality(Stored) <= Cardinality(rest \cup extra) /\ Cardinality(Stored) \in Nat
    <3>1. Stored \in SUBSET (rest \cup extra)
      BY <2>2, <2>3
    <3> QED
      BY <2>1, <2>4, <3>1, FS_Subset, FS_CardinalityType
  <2>6. Bound \in Nat /\ counted \in Nat
    BY <1>2, <2>1, FS_CardinalityType DEF Bound, NodesInv, NodesTyped
  <2> QED
    BY <1>3, <2>2, <2>3, <2>4, <2>5, <2>6 DEF Within
<1> QED
  BY <1>1, <1>3 DEF NodesInv, StoreBounded, Knows, Bound

LEMMA NodesInitial == NodesInit => NodesInv
<1> SUFFICES ASSUME NodesInit PROVE NodesInv
  OBVIOUS
<1>1. /\ IsFiniteSet(Nodes) /\ Linked \subseteq Nodes /\ Cap \in Nat
      /\ PruneEvery \in Nat \ {0} /\ MaxClock \in Nat
  BY NodeStoreAssumption
<1>2. Idle \in HearingsTyped /\ Idle.at = "no"
  BY <1>1 DEF Idle, HearingsTyped
<1>3. NoPrune \in [on : BOOLEAN, rows : [Nodes -> 0..MaxClock], spared : SUBSET Linked]
  BY <1>1 DEF NoPrune
<1>9. SparedStill
  BY DEF NodesInit, SparedStill, NoPrune
<1>4. hearing \in [Hearings -> HearingsTyped] /\ \A h \in Hearings : hearing[h].at = "no"
  BY <1>2 DEF NodesInit
<1>5. NodesTyped
  BY <1>1, <1>3, <1>4 DEF NodesInit, NodesTyped
<1>6. Stored \ uncounted = {} /\ counted = 0
  BY DEF NodesInit, Stored
<1>7. Bound \in Nat
  <2>1. conversed \in SUBSET Nodes
    BY <1>1 DEF NodesInit
  <2> QED
    BY <1>1, <2>1, FS_Subset, FS_CardinalityType DEF Bound
<1>8. Within
  BY <1>6, <1>7, FS_EmptySet DEF Within
<1> QED
  BY <1>5, <1>8, <1>9 DEF NodesInv

(* What a prune leaves of the rows it read: the victims are at least as many*)
(* as the rows above the cap, or all that may go. For of the rows that may  *)
(* go and stay, the oldest has only victims older than it.                  *)
LEMMA PruneLeaves ==
  ASSUME NodesTyped, SparedStill, NEW j \in Prunes
  PROVE  Cardinality(Rows(j) \ Victims(j)) <= Bound
<1>1. /\ IsFiniteSet(Nodes) /\ Linked \subseteq Nodes /\ Cap \in Nat
  BY NodeStoreAssumption
<1>2. PICK R \in SUBSET Nodes : R = Rows(j)
  BY DEF Rows
<1>3. PICK K \in SUBSET Nodes : K = pruning[j].spared
  BY <1>1 DEF NodesTyped
<1>4. PICK V \in SUBSET (R \ K) : V = Victims(j)
  BY <1>2, <1>3 DEF Victims, Candidates
<1>5. PICK seen \in [Nodes -> Nat] : seen = pruning[j].rows
  BY DEF NodesTyped
<1>6. PICK excess : excess = ExcessOf(R)
  OBVIOUS
<1>7. V = {n \in R \ K : Cardinality({m \in R \ K : seen[m] < seen[n]}) < excess}
  BY <1>2, <1>3, <1>4, <1>5, <1>6 DEF Victims, Candidates
<1>8. \A S \in SUBSET Nodes : IsFiniteSet(S) /\ Cardinality(S) \in Nat
  BY <1>1, FS_Subset, FS_CardinalityType
<1>9. \A S \in SUBSET Nodes : \A T \in SUBSET S : Cardinality(T) <= Cardinality(S)
  BY <1>8, FS_Subset
<1>10. Cardinality(R) \in Nat /\ Cardinality(K) \in Nat /\ Cardinality(R \ V) \in Nat
  BY <1>8
<1>11. Bound \in Nat /\ Bound >= Cap /\ Bound >= Cardinality(K)
  <2>1. PICK C \in SUBSET Nodes : C = conversed
    BY <1>1 DEF NodesTyped
  <2>2. K \in SUBSET C
    BY <1>3, <2>1 DEF SparedStill
  <2>3. Cardinality(K) <= Cardinality(C) /\ Cardinality(C) \in Nat
    BY <1>8, <1>9, <2>1, <2>2
  <2> QED
    BY <1>1, <1>10, <2>1, <2>3 DEF Bound
<1>12. excess = IF Cardinality(R) > Cap THEN Cardinality(R) - Cap ELSE 0
  BY <1>6 DEF ExcessOf
<1>13. CASE V = R \ K
  <2>1. R \ V \in SUBSET K
    BY <1>13
  <2>2. Cardinality(R \ V) <= Cardinality(K)
    BY <1>9, <2>1
  <2> QED
    BY <1>1, <1>2, <1>4, <1>10, <1>11, <2>2
<1>14. CASE V # R \ K
  <2> DEFINE T == {seen[n] : n \in (R \ K) \ V}
  <2>1. T \in SUBSET Nat /\ T # {}
    BY <1>14
  <2> HIDE DEF T
  <2>2. PICK t \in T : \A y \in T : t <= y
    BY <2>1, Smallest
  <2>3. PICK n \in (R \ K) \ V : \A m \in (R \ K) \ V : seen[n] <= seen[m]
    BY <2>2 DEF T
  <2> DEFINE older == {m \in R \ K : seen[m] < seen[n]}
  <2>4. older \in SUBSET V
    <3>1. ASSUME NEW m \in R \ K, seen[m] < seen[n], m \notin V PROVE FALSE
      <4>1. seen[n] <= seen[m] /\ seen[n] \in Nat /\ seen[m] \in Nat
        BY <2>3, <3>1
      <4> QED
        BY <3>1, <4>1
    <3> QED
      BY <3>1
  <2>5. ~(Cardinality(older) < excess)
    BY <1>7, <2>3
  <2> HIDE DEF older
  <2>6. Cardinality(older) <= Cardinality(V) /\ Cardinality(older) \in Nat
    BY <1>8, <1>9, <2>4
  <2>7. Cardinality(V) \in Nat /\ Cardinality(V) >= excess
    BY <1>8, <1>10, <1>12, <1>1, <2>5, <2>6
  <2>8. Cardinality(R \ V) = Cardinality(R) - Cardinality(V)
    <3>1. V \in SUBSET R /\ R \cap V = V
      OBVIOUS
    <3>2. Cardinality(R \ V) = Cardinality(R) - Cardinality(R \cap V)
      BY <1>8, FS_Difference
    <3> QED
      BY <3>1, <3>2
  <2>9. Cardinality(R \ V) <= Cap
    BY <1>1, <1>10, <1>12, <2>7, <2>8
  <2> QED
    BY <1>1, <1>2, <1>4, <1>10, <1>11, <2>9
<1> QED
  BY <1>13, <1>14

LEMMA NodeCounts ==
  /\ \A S \in SUBSET Nodes : IsFiniteSet(S) /\ Cardinality(S) \in Nat
  /\ \A S \in SUBSET Nodes : \A T \in SUBSET S : Cardinality(T) <= Cardinality(S)
  /\ \A S, T \in SUBSET Nodes : Cardinality(S \cup T) <= Cardinality(S) + Cardinality(T)
<1>1. \A S \in SUBSET Nodes : IsFiniteSet(S) /\ Cardinality(S) \in Nat
  BY NodeStoreAssumption, FS_Subset, FS_CardinalityType
<1>2. \A S \in SUBSET Nodes : \A T \in SUBSET S : Cardinality(T) <= Cardinality(S)
  BY <1>1, FS_Subset
<1>3. ASSUME NEW S \in SUBSET Nodes, NEW T \in SUBSET Nodes
      PROVE  Cardinality(S \cup T) <= Cardinality(S) + Cardinality(T)
  <2>1. Cardinality(S \cup T) = Cardinality(S) + Cardinality(T) - Cardinality(S \cap T)
    BY <1>1, FS_Union
  <2>2. S \cap T \in SUBSET Nodes /\ S \cup T \in SUBSET Nodes
    OBVIOUS
  <2> QED
    BY <1>1, <2>1, <2>2
<1> QED
  BY <1>1, <1>2, <1>3

LEMMA NodesTypedStep == NodesTyped /\ [NodesNext]_nodeVars => NodesTyped'
<1> SUFFICES ASSUME NodesTyped, [NodesNext]_nodeVars PROVE NodesTyped'
  OBVIOUS
<1>1. /\ Linked \subseteq Nodes /\ PruneEvery \in Nat \ {0} /\ MaxClock \in Nat
  BY NodeStoreAssumption
<1>2. Idle \in HearingsTyped /\ Idle.at = "no"
  BY <1>1 DEF Idle, HearingsTyped
<1> DEFINE Held == [on : BOOLEAN, rows : [Nodes -> 0..MaxClock], spared : SUBSET Linked]
<1>3. NoPrune \in Held /\ ReadNow \in Held
  BY <1>1 DEF NoPrune, ReadNow, NodesTyped
<1>4. ASSUME NEW h \in Hearings, NEW x \in HearingsTyped, hearing' = [hearing EXCEPT ![h] = x],
             x.at # "no" => x.node \in Nodes
      PROVE  /\ hearing' \in [Hearings -> HearingsTyped]
             /\ \A k \in Hearings : hearing'[k].at # "no" => hearing'[k].node \in Nodes
  <2>1. hearing' \in [Hearings -> HearingsTyped]
        /\ \A k \in Hearings : hearing'[k] = IF k = h THEN x ELSE hearing[k]
    BY <1>4 DEF NodesTyped
  <2> QED
    BY <1>4, <2>1 DEF NodesTyped
<1>5. ASSUME NEW n, NEW v \in 0..MaxClock, nodes' = [nodes EXCEPT ![n] = v]
      PROVE  nodes' \in [Nodes -> 0..MaxClock]
  BY <1>5 DEF NodesTyped
<1>6. ASSUME NEW h \in Hearings, NEW n \in Nodes, AnnounceHeard(h, n) PROVE NodesTyped'
  <2>1. clock' \in 0..MaxClock
    BY <1>1, <1>6 DEF AnnounceHeard, NodesTyped
  <2>2. PICK x : x = [at |-> "read", node |-> n, seen |-> clock', was |-> n \in Stored]
    OBVIOUS
  <2>3. (n \in Stored) \in BOOLEAN
    OBVIOUS
  <2>4. x \in HearingsTyped /\ x.node = n
    BY <2>1, <2>2, <2>3 DEF HearingsTyped
  <2>5. hearing' = [hearing EXCEPT ![h] = x]
    BY <1>6, <2>2 DEF AnnounceHeard
  <2> QED
    BY <1>4, <1>6, <2>1, <2>4, <2>5 DEF AnnounceHeard, NodesTyped
<1>7. ASSUME NEW h \in Hearings, NodeSaved(h) PROVE NodesTyped'
  <2>1. hearing[h] \in HearingsTyped /\ hearing[h].at = "read" /\ hearing[h].node \in Nodes
    BY <1>7 DEF NodeSaved, NodesTyped
  <2>2. hearing[h].seen \in 0..MaxClock
    BY <2>1 DEF HearingsTyped
  <2>3. PICK x : x = [hearing[h] EXCEPT !.at = "saved"]
    OBVIOUS
  <2>4. x \in HearingsTyped /\ x.node \in Nodes
    BY <2>1, <2>3 DEF HearingsTyped
  <2>5. hearing' = [hearing EXCEPT ![h] = x]
    BY <1>7, <2>3 DEF NodeSaved
  <2>6. nodes' \in [Nodes -> 0..MaxClock] /\ uncounted' \subseteq Nodes
    BY <1>5, <1>7, <2>1, <2>2 DEF NodeSaved, NodesTyped
  <2> QED
    BY <1>4, <1>7, <2>4, <2>5, <2>6 DEF NodeSaved, NodesTyped
<1>8. ASSUME PruneBegins
      PROVE  /\ pruning' \in [Prunes -> Held] /\ counted' \in 0..(PruneEvery - 1)
             /\ uncounted' \subseteq Nodes
  <2> HIDE DEF Held
  <2>1. pruning' \in [Prunes -> Held]
    <3>1. pruning \in [Prunes -> Held]
      BY DEF NodesTyped, Held
    <3> QED
      BY <1>3, <1>8, <3>1 DEF PruneBegins
  <2> QED
    BY <1>1, <1>8, <2>1 DEF PruneBegins
<1>9. ASSUME NEW h \in Hearings, NodeCounted(h) PROVE NodesTyped'
  <2>1. /\ hearing' \in [Hearings -> HearingsTyped]
        /\ \A k \in Hearings : hearing'[k].at # "no" => hearing'[k].node \in Nodes
    BY <1>2, <1>4, <1>9 DEF NodeCounted
  <2>2. /\ pruning' \in [Prunes -> Held] /\ counted' \in 0..(PruneEvery - 1)
        /\ uncounted' \subseteq Nodes
    <3>1. CASE PruneBegins
      BY <1>8, <3>1
    <3>2. CASE ~PruneBegins
      <4>1. /\ pruning' = pruning
            /\ uncounted' = uncounted \/ uncounted' = uncounted \ {hearing[h].node}
            /\ \/ counted' = counted
               \/ counted' = counted + 1 /\ ~(counted + 1 >= PruneEvery)
        BY <1>9, <3>2 DEF NodeCounted
      <4>2. pruning' \in [Prunes -> Held] /\ uncounted' \subseteq Nodes
        BY <4>1 DEF NodesTyped
      <4>3. counted' \in 0..(PruneEvery - 1)
        BY <1>1, <4>1 DEF NodesTyped
      <4> QED
        BY <4>2, <4>3
    <3> QED
      BY <3>1, <3>2
  <2> QED
    BY <1>9, <2>1, <2>2 DEF NodeCounted, NodesTyped
<1>10. ASSUME NEW j \in Prunes, pruning' = [pruning EXCEPT ![j] = NoPrune]
       PROVE  pruning' \in [Prunes -> Held]
  <2> HIDE DEF Held
  <2>1. pruning \in [Prunes -> Held]
    BY DEF NodesTyped, Held
  <2> QED
    BY <1>3, <1>10, <2>1
<1>11. ASSUME NEW j \in Prunes, PruneDeletes(j) PROVE NodesTyped'
  <2>1. nodes' \in [Nodes -> 0..MaxClock]
    BY <1>1, <1>11 DEF PruneDeletes, NodesTyped
  <2> QED
    BY <1>10, <1>11, <2>1 DEF PruneDeletes, NodesTyped
<1>12. ASSUME NEW j \in Prunes, PruneFails(j) PROVE NodesTyped'
  BY <1>10, <1>12 DEF PruneFails, NodesTyped
<1>13. ASSUME NEW n \in Nodes, Renamed(n) PROVE NodesTyped'
  <2>1. listed[n] \in 0..MaxClock
    BY DEF NodesTyped
  <2> QED
    BY <1>5, <1>13, <2>1 DEF Renamed, NodesTyped, heldVars
<1>14. ASSUME NEW n \in Nodes, NodeDeleted(n) PROVE NodesTyped'
  <2>1. 0 \in 0..MaxClock
    BY <1>1
  <2> QED
    BY <1>5, <1>14, <2>1 DEF NodeDeleted, NodesTyped, heldVars
<1>15. ASSUME NEW n \in Nodes, Converses(n) PROVE NodesTyped'
  BY <1>15 DEF Converses, NodesTyped, heldVars
<1>16. CASE ListRefreshed
  BY <1>16 DEF ListRefreshed, NodesTyped
<1>17. CASE NodesCleared
  BY <1>1, <1>17 DEF NodesCleared, NodesTyped, heldVars
<1>18. CASE NodesReload
  <2>1. /\ hearing' \in [Hearings -> HearingsTyped]
        /\ \A k \in Hearings : hearing'[k].at = "no"
    BY <1>2, <1>18 DEF NodesReload
  <2>2. pruning' \in [Prunes -> Held]
    <3> HIDE DEF Held
    <3> QED
      BY <1>3, <1>18 DEF NodesReload
  <2>3. listed' \in [Nodes -> 0..MaxClock] /\ counted' \in 0..(PruneEvery - 1)
    BY <1>1, <1>18 DEF NodesReload
  <2> QED
    BY <1>18, <2>1, <2>2, <2>3 DEF NodesReload, NodesTyped
<1>19. CASE UNCHANGED nodeVars
  BY <1>19 DEF nodeVars, NodesTyped
<1> QED
  BY <1>6, <1>7, <1>9, <1>11, <1>12, <1>13, <1>14, <1>15, <1>16, <1>17, <1>18, <1>19
     DEF NodesNext

(* A prune spares what is linked when it reads, and nothing is unlinked.    *)
LEMMA SparedStep ==
  ASSUME NodesTyped, SparedStill, [NodesNext]_nodeVars
  PROVE  SparedStill'
<1>1. NoPrune.spared = {} /\ ReadNow.spared = conversed
  BY DEF NoPrune, ReadNow
<1>2. ASSUME \A j \in Prunes : pruning'[j] \in {pruning[j], NoPrune, ReadNow},
             conversed \subseteq conversed'
      PROVE  SparedStill'
  BY <1>1, <1>2 DEF SparedStill
<1>3. conversed \subseteq conversed'
  BY DEF NodesNext, AnnounceHeard, NodeSaved, NodeCounted, PruneDeletes, PruneFails, Renamed,
         NodeDeleted, Converses, ListRefreshed, NodesCleared, NodesReload, nodeVars
<1>4. \A j \in Prunes : pruning'[j] \in {pruning[j], NoPrune, ReadNow}
  <2>1. CASE pruning' = pruning
    BY <2>1
  <2>2. CASE PruneBegins
    BY <2>2 DEF PruneBegins, NodesTyped
  <2>3. CASE \E j \in Prunes : PruneDeletes(j) \/ PruneFails(j)
    BY <2>3 DEF PruneDeletes, PruneFails, NodesTyped
  <2>4. CASE NodesReload
    BY <2>4 DEF NodesReload
  <2> QED
    BY <2>1, <2>2, <2>3, <2>4
    DEF NodesNext, AnnounceHeard, NodeSaved, NodeCounted, Renamed, NodeDeleted, Converses,
        ListRefreshed, NodesCleared, nodeVars, heldVars
<1> QED
  BY <1>2, <1>3, <1>4

(* Steps that bring nothing into the sum.                                   *)
LEMMA RestShrinks ==
  ASSUME NodesInv, NodesTyped', NEW d \in {0, 1}, counted' = counted + d,
         NEW X \in SUBSET Nodes, Cardinality(X) <= d,
         (Stored \ uncounted)' \subseteq (Stored \ uncounted) \cup X,
         Stored' \subseteq Stored \cup uncounted', conversed \subseteq conversed',
         pruning' = pruning, failed' = failed
  PROVE  (failed \/ Within \/ \E j \in Prunes : Knows(j))'
<1>1. /\ Linked \subseteq Nodes /\ Cap \in Nat /\ PruneEvery \in Nat \ {0}
  BY NodeStoreAssumption
<1>2. /\ conversed \in SUBSET Nodes /\ conversed' \in SUBSET Nodes
      /\ conversed \in SUBSET conversed' /\ counted \in Nat /\ counted' \in Nat
  BY <1>1 DEF NodesInv, NodesTyped
<1>3. Bound \in Nat /\ Bound' \in Nat /\ Bound <= Bound'
  <2>1. /\ Cardinality(conversed) \in Nat /\ Cardinality(conversed') \in Nat
        /\ Cardinality(conversed) <= Cardinality(conversed')
    BY <1>2, NodeCounts
  <2> QED
    BY <1>1, <2>1 DEF Bound
<1>4. ASSUME NEW A \in SUBSET Nodes, NEW B \in SUBSET (A \cup X)
      PROVE  /\ Cardinality(B) <= Cardinality(A) + d
             /\ Cardinality(A) \in Nat /\ Cardinality(B) \in Nat
  <2>1. /\ A \cup X \in SUBSET Nodes /\ B \in SUBSET Nodes
    OBVIOUS
  <2>2. /\ Cardinality(A \cup X) <= Cardinality(A) + Cardinality(X)
        /\ Cardinality(B) <= Cardinality(A \cup X)
        /\ Cardinality(A) \in Nat /\ Cardinality(B) \in Nat /\ Cardinality(X) \in Nat
        /\ Cardinality(A \cup X) \in Nat
    BY <2>1, NodeCounts
  <2> QED
    BY <2>2
<1>5. CASE failed
  BY <1>5
<1>6. CASE Within
  <2>1. PICK A \in SUBSET Nodes : A = Stored \ uncounted
    BY DEF Stored
  <2>2. PICK B \in SUBSET (A \cup X) : B = (Stored \ uncounted)'
    BY <2>1
  <2>3. Cardinality(A) <= Bound + counted
    BY <1>6, <2>1 DEF Within
  <2>4. Cardinality(B) <= Bound' + counted'
    BY <1>2, <1>3, <1>4, <2>3
  <2> QED
    BY <2>2, <2>4 DEF Within
<1>7. ASSUME NEW j \in Prunes, Knows(j) PROVE Knows(j)'
  <2>1. PICK A \in SUBSET Nodes : A = (Stored \ Rows(j)) \ uncounted
    BY DEF Stored
  <2>2. Rows(j)' = Rows(j)
    BY DEF Rows
  <2>3. ((Stored \ Rows(j)) \ uncounted)' \subseteq A \cup X
    BY <2>1, <2>2
  <2>4. PICK B \in SUBSET (A \cup X) : B = ((Stored \ Rows(j)) \ uncounted)'
    BY <2>3
  <2>5. Cardinality(A) <= counted
    BY <1>7, <2>1 DEF Knows
  <2>6. Cardinality(B) <= counted'
    BY <1>2, <1>4, <2>5
  <2> QED
    BY <1>7, <2>4, <2>6 DEF Knows
<1> QED
  BY <1>5, <1>6, <1>7 DEF NodesInv

LEMMA PruneKeeps ==
  ASSUME NodesInv, NodesTyped', NEW j \in Prunes, PruneDeletes(j)
  PROVE  (failed \/ Within \/ \E k \in Prunes : Knows(k))'
<1>1. PICK V \in SUBSET Nodes : V = Victims(j)
  BY DEF Victims, Candidates, Rows
<1>2. Stored' = Stored \ V
  BY <1>1 DEF PruneDeletes, Stored
<1>3. uncounted' = uncounted /\ counted' = counted /\ conversed' = conversed /\ failed' = failed
  BY DEF PruneDeletes
<1>4. Bound' = Bound /\ counted \in Nat
  BY <1>3 DEF Bound, NodesInv, NodesTyped
<1>5. /\ NodesTyped /\ SparedStill /\ Cap \in Nat /\ Linked \subseteq Nodes
      /\ Stored \in SUBSET Nodes /\ Rows(j) \in SUBSET Nodes /\ conversed \in SUBSET Nodes
  BY NodeStoreAssumption DEF NodesInv, NodesTyped, Stored, Rows
<1>6. Bound \in Nat
  BY <1>5, NodeCounts DEF Bound
<1>7. CASE failed
  BY <1>3, <1>7
<1>8. CASE Within
  <2>1. PICK A \in SUBSET Nodes : A = Stored \ uncounted
    BY <1>5
  <2>2. PICK B \in SUBSET A : B = (Stored \ uncounted)'
    BY <1>2, <1>3, <2>1
  <2>3. Cardinality(B) <= Cardinality(A) /\ Cardinality(A) \in Nat /\ Cardinality(B) \in Nat
    BY <2>1, <2>2, NodeCounts
  <2>4. Cardinality(A) <= Bound + counted
    BY <1>8, <2>1 DEF Within
  <2>5. Cardinality(B) <= Bound' + counted'
    BY <1>3, <1>4, <1>6, <2>3, <2>4
  <2> QED
    BY <2>2, <2>5 DEF Within
<1>9. ASSUME NEW k \in Prunes, k # j, Knows(k) PROVE Knows(k)'
  <2>1. PICK A \in SUBSET Nodes : A = (Stored \ Rows(k)) \ uncounted
    BY <1>5
  <2>2. pruning'[k] = pruning[k]
    BY <1>9 DEF PruneDeletes, NodesInv, NodesTyped
  <2>3. Rows(k)' = Rows(k)
    BY <2>2 DEF Rows
  <2>4. PICK B \in SUBSET A : B = ((Stored \ Rows(k)) \ uncounted)'
    BY <1>2, <1>3, <2>1, <2>3
  <2>5. Cardinality(B) <= Cardinality(A) /\ Cardinality(A) \in Nat /\ Cardinality(B) \in Nat
    BY <2>1, <2>4, NodeCounts
  <2>6. Cardinality(B) <= counted'
    BY <1>3, <1>4, <1>9, <2>1, <2>5 DEF Knows
  <2> QED
    BY <1>9, <2>2, <2>4, <2>6 DEF Knows
<1>10. CASE Knows(j)
  <2>1. PICK A \in SUBSET Nodes : A = (Stored \ Rows(j)) \ uncounted
    BY <1>5
  <2>2. PICK L \in SUBSET Nodes : L = Rows(j) \ V
    BY <1>5
  <2>3. Cardinality(L) <= Bound /\ Cardinality(A) <= counted
    BY <1>1, <1>5, <1>10, <2>1, <2>2, PruneLeaves DEF Knows
  <2>4. L \cup A \in SUBSET Nodes
    OBVIOUS
  <2>5. PICK B \in SUBSET (L \cup A) : B = (Stored \ uncounted)'
    BY <1>2, <1>3, <2>1, <2>2
  <2>6. B \in SUBSET Nodes
    BY <2>4, <2>5
  <2>7. /\ Cardinality(B) <= Cardinality(L \cup A)
        /\ Cardinality(L \cup A) <= Cardinality(L) + Cardinality(A)
        /\ Cardinality(B) \in Nat /\ Cardinality(L \cup A) \in Nat
        /\ Cardinality(L) \in Nat /\ Cardinality(A) \in Nat
    BY <2>4, <2>5, <2>6, NodeCounts
  <2>8. Cardinality(B) <= Bound' + counted'
    BY <1>3, <1>4, <1>6, <2>3, <2>7
  <2> QED
    BY <2>5, <2>8 DEF Within
<1> QED
  BY <1>7, <1>8, <1>9, <1>10 DEF NodesInv

LEMMA NodesNextInv == NodesInv /\ [NodesNext]_nodeVars => NodesInv'
<1> SUFFICES ASSUME NodesInv, [NodesNext]_nodeVars PROVE NodesInv'
  OBVIOUS
<1> DEFINE Kept == failed \/ Within \/ \E j \in Prunes : Knows(j)
<1>1. NodesTyped'
  BY NodesTypedStep DEF NodesInv
<1>2. SUFFICES Kept'
  BY <1>1, SparedStep DEF NodesInv
<1>3. {} \in SUBSET Nodes /\ Cardinality({}) = 0
  BY FS_EmptySet
(* A call of pruneNodeStore that has just read every row knows them all.    *)
<1>4. ASSUME NEW j \in Prunes, pruning'[j] = ReadNow, nodes' = nodes
      PROVE  Kept'
  <2>1. Rows(j)' = Stored'
    BY <1>4 DEF Rows, Stored, ReadNow
  <2>2. ((Stored \ Rows(j)) \ uncounted)' = {}
    BY <2>1
  <2>3. counted' \in Nat /\ pruning'[j].on
    BY <1>1, <1>4 DEF NodesTyped, ReadNow
  <2>4. Knows(j)'
    BY <1>3, <2>2, <2>3 DEF Knows
  <2> QED
    BY <2>4
<1>5. ASSUME counted' = counted, (Stored \ uncounted)' \subseteq Stored \ uncounted,
             Stored' \subseteq Stored \cup uncounted', conversed \subseteq conversed',
             pruning' = pruning, failed' = failed
      PROVE  Kept'
  <2>1. counted' = counted + 0 /\ 0 \in {0, 1} /\ Cardinality({}) <= 0
    BY <1>3, <1>5 DEF NodesInv, NodesTyped
  <2>2. (Stored \ uncounted)' \subseteq (Stored \ uncounted) \cup {}
    BY <1>5
  <2> QED
    BY <1>1, <1>3, <1>5, <2>1, <2>2, RestShrinks
<1>6. ASSUME NEW n \in Nodes, NEW v, nodes' = [nodes EXCEPT ![n] = v],
             uncounted' = IF n \in Stored THEN uncounted ELSE uncounted \cup {n}
      PROVE  /\ (Stored \ uncounted)' \subseteq Stored \ uncounted
             /\ Stored' \subseteq Stored \cup uncounted'
  <2>1. Stored' \subseteq Stored \cup {n}
    BY <1>6 DEF Stored, NodesInv, NodesTyped
  <2> QED
    BY <1>6, <2>1
<1>7. ASSUME NEW h \in Hearings, NEW n \in Nodes, AnnounceHeard(h, n) PROVE Kept'
  <2>1. Stored' = Stored /\ uncounted' = uncounted
    BY <1>7 DEF AnnounceHeard, Stored
  <2> QED
    BY <1>5, <1>7, <2>1 DEF AnnounceHeard
<1>8. ASSUME NEW h \in Hearings, NodeSaved(h) PROVE Kept'
  <2>1. hearing[h].node \in Nodes
    BY <1>8 DEF NodeSaved, NodesInv, NodesTyped
  <2>2. /\ (Stored \ uncounted)' \subseteq Stored \ uncounted
        /\ Stored' \subseteq Stored \cup uncounted'
    BY <1>6, <1>8, <2>1 DEF NodeSaved
  <2> QED
    BY <1>5, <1>8, <2>2 DEF NodeSaved
<1>9. ASSUME NEW h \in Hearings, NodeCounted(h) PROVE Kept'
  <2>1. Stored' = Stored
    BY <1>9 DEF NodeCounted, Stored
  <2>2. CASE PruneBegins
    <3>1. PICK j \in Prunes : pruning' = [pruning EXCEPT ![j] = ReadNow]
      BY <2>2 DEF PruneBegins
    <3>2. pruning'[j] = ReadNow /\ nodes' = nodes
      BY <1>9, <3>1 DEF NodeCounted, NodesInv, NodesTyped
    <3> QED
      BY <1>4, <3>2
  <2>3. CASE ~PruneBegins /\ ~IsNew(h)
    <3>1. /\ counted' = counted /\ pruning' = pruning /\ failed' = failed
          /\ conversed' = conversed /\ uncounted' = uncounted
      BY <1>9, <2>3 DEF NodeCounted, IsNew
    <3> QED
      BY <1>5, <2>1, <3>1
  <2>4. CASE ~PruneBegins /\ IsNew(h)
    <3>1. PICK n \in Nodes : n = hearing[h].node
      BY <1>9 DEF NodeCounted, NodesInv, NodesTyped
    <3>2. /\ counted' = counted + 1 /\ pruning' = pruning /\ failed' = failed
          /\ conversed' = conversed /\ uncounted' = uncounted \ {n}
      BY <1>9, <2>4, <3>1 DEF NodeCounted, IsNew
    <3>3. (Stored \ uncounted)' \subseteq (Stored \ uncounted) \cup {n}
      BY <2>1, <3>2
    <3>4. Cardinality({n}) <= 1 /\ {n} \in SUBSET Nodes /\ 1 \in {0, 1}
      BY FS_Singleton
    <3>5. Stored' \subseteq Stored \cup uncounted' /\ conversed \subseteq conversed'
      BY <2>1, <3>2
    <3> QED
      BY <1>1, <3>2, <3>3, <3>4, <3>5, RestShrinks
  <2> QED
    BY <2>2, <2>3, <2>4
<1>10. ASSUME NEW j \in Prunes, PruneDeletes(j) PROVE Kept'
  BY <1>1, <1>10, PruneKeeps
<1>11. ASSUME NEW j \in Prunes, PruneFails(j) PROVE Kept'
  BY <1>11 DEF PruneFails
<1>12. ASSUME NEW n \in Nodes, Renamed(n) PROVE Kept'
  <2>1. /\ (Stored \ uncounted)' \subseteq Stored \ uncounted
        /\ Stored' \subseteq Stored \cup uncounted'
    BY <1>6, <1>12 DEF Renamed
  <2> QED
    BY <1>5, <1>12, <2>1 DEF Renamed, heldVars
<1>13. ASSUME NEW n \in Nodes, NodeDeleted(n) PROVE Kept'
  <2>1. Stored' \subseteq Stored /\ uncounted' = uncounted
    BY <1>13 DEF NodeDeleted, Stored, NodesInv, NodesTyped
  <2> QED
    BY <1>5, <1>13, <2>1 DEF NodeDeleted, heldVars
<1>14. ASSUME NEW n \in Nodes, Converses(n) PROVE Kept'
  <2>1. Stored' = Stored /\ uncounted' = uncounted
    BY <1>14 DEF Converses, Stored
  <2> QED
    BY <1>5, <1>14, <2>1 DEF Converses, heldVars
<1>15. CASE ListRefreshed
  <2>1. Stored' = Stored /\ uncounted' = uncounted
    BY <1>15 DEF ListRefreshed, Stored
  <2> QED
    BY <1>5, <1>15, <2>1 DEF ListRefreshed
<1>16. CASE NodesCleared
  <2>1. Stored' = {} /\ uncounted' = uncounted
    BY <1>16 DEF NodesCleared, Stored
  <2> QED
    BY <1>5, <1>16, <2>1 DEF NodesCleared, heldVars
<1>17. CASE NodesReload
  <2>1. PICK j \in Prunes : pruning'[j] = ReadNow
    BY <1>17 DEF NodesReload
  <2>2. nodes' = nodes
    BY <1>17 DEF NodesReload
  <2> QED
    BY <1>4, <2>1, <2>2
<1>18. CASE UNCHANGED nodeVars
  <2>1. Stored' = Stored /\ uncounted' = uncounted
    BY <1>18 DEF nodeVars, Stored
  <2> QED
    BY <1>5, <1>18, <2>1 DEF nodeVars
<1> QED
  BY <1>7, <1>8, <1>9, <1>10, <1>11, <1>12, <1>13, <1>14, <1>15, <1>16, <1>17, <1>18
     DEF NodesNext

(* The nodes store stays bounded however announces, prunes, renames and     *)
(* reloads overlap (pruneNodeStore), for any cap, any interval between      *)
(* prunes and any number of destinations and of handlers under way.         *)
THEOREM StoreStaysBounded == NodesSpec => [](NodesTypeOK /\ StoreBounded)
<1>1. NodesInit => NodesInv
  BY NodesInitial
<1>2. NodesInv /\ [NodesNext]_nodeVars => NodesInv'
  BY NodesNextInv
<1>3. NodesInv => NodesTypeOK /\ StoreBounded
  BY NodesInvBounded
<1> QED
  BY <1>1, <1>2, <1>3, PTL DEF NodesSpec
=============================================================================
