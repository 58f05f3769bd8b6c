-------------------------------- MODULE Inbound --------------------------------
(***************************************************************************)
(* Incoming messages of one peer (js/app.js, handleData, handleLinkData,    *)
(* dispatchIncomingMessage, handleIncomingReaction, handleAnnounce,         *)
(* removeContact): a message arrives in several copies, by radio, over a    *)
(* link and from a propagation node. Each copy has a handler of its own,    *)
(* which nobody awaits, so handlers suspend at every key, row and packet    *)
(* and act on the map of recent messages and on the rows in between.        *)
(* IndexedDB runs the transactions on a store in the order of their         *)
(* creation: a write takes effect where it is created, and its handler      *)
(* goes on later.                                                           *)
(***************************************************************************)
EXTENDS Naturals, Sequences, FiniteSets

CONSTANTS
  Copies,     \* the copies that arrive in all, numbered as they arrive
  Texts,      \* messages
  Reactions,  \* reactions, all to the same message
  Target,     \* that message
  Beacons,    \* announces of the peer
  MaxRecent,  \* RECENT_MESSAGE_MAP_LIMIT
  MaxReloads  \* bound: reloads of the page

ASSUME InboundAssumption ==
  /\ Copies \subseteq Nat /\ Target \in Texts /\ Texts \cap Reactions = {}
  /\ MaxRecent \in Nat \ {0} /\ MaxReloads \in Nat

VARIABLES
  copy,      \* where each copy's handler is, and what it is a copy of
  rows,      \* the message rows, in the order of their ids
  recent,    \* recentMessageMap, oldest entry first
  contact,   \* the peer's entry in contacts
  saved,     \* the peer's row in the contacts store
  beacon,    \* where each announce's handler is, and the pin it read
  proved,    \* what was proved to its sender over a link
  stored,    \* history: messages whose row was ever saved
  taken,     \* history: copies of each message that were saved or counted
  removed,   \* history: the conversation has been removed
  removing,  \* removeContact is between its two deletions
  reloads    \* counter, for the bound

inboundVars == <<copy, rows, recent, contact, saved, beacon, proved, stored,
                 taken, removed, removing, reloads>>

Ways == {"data", "link", "sync"}

Away == [at |-> "no", msg |-> Target, way |-> "data", seen |-> {}, row |-> 0]

NoContact == [kind |-> "none", pinned |-> FALSE]

InboundInit ==
  /\ copy = [c \in Copies |-> Away]
  /\ rows = <<>> /\ recent = <<>>
  /\ contact = NoContact /\ saved = NoContact
  /\ beacon = [b \in Beacons |-> [at |-> "no", pinned |-> FALSE]]
  /\ proved = {} /\ stored = {}
  /\ taken = [m \in Texts |-> 0]
  /\ removed = FALSE /\ removing = FALSE /\ reloads = 0

At(c, place) == copy[c].at = place

Goes(c, place) == copy' = [copy EXCEPT ![c].at = place]

(* A handler that is over, or threw: what it held does not matter.          *)
Ends(c) == copy' = [copy EXCEPT ![c] = [Away EXCEPT !.at = "done"]]

contactVars == <<contact, saved, beacon>>
historyVars == <<proved, stored, taken>>
userVars    == <<removed, removing, reloads>>

-----------------------------------------------------------------------------
(* The copies.                                                              *)

(* A copy that arrives is decrypted first, with the session key of its link *)
(* or one of our own keys. The messages of a sync come decrypted, one after *)
(* the other.                                                               *)
CopyArrives(c) ==
  /\ At(c, "no") /\ \A d \in Copies : At(d, "no") => c <= d
  /\ \E m \in Texts \cup Reactions, w \in Ways :
       /\ w = "sync" => \A d \in Copies : copy[d].way # "sync"
       /\ copy' = [copy EXCEPT ![c] =
            [Away EXCEPT !.at = IF w = "sync" THEN "unpack" ELSE "decrypt",
                         !.msg = m, !.way = w]]
  /\ UNCHANGED <<rows, recent, contactVars, historyVars, userVars>>

(* No key fits: nothing is proved, and the sender will retry. Otherwise the *)
(* proof of a single packet goes out before it is looked into.              *)
Decrypted(c) ==
  /\ At(c, "decrypt")
  /\ \/ Ends(c)
     \/ Goes(c, IF copy[c].way = "data" THEN "proof" ELSE "unpack")
  /\ UNCHANGED <<rows, recent, contactVars, historyVars, userVars>>

ProveData(c) ==
  /\ At(c, "proof")
  /\ Goes(c, "unpack")
  /\ UNCHANGED <<rows, recent, contactVars, historyVars, userVars>>

RecentOf(m) == {i \in DOMAIN recent : recent[i].msg = m}

RowsOf(m) == {i \in DOMAIN rows : rows[i].live /\ rows[i].msg = m}

CountedUnstored(e) == recent

(* One more copy of an entry.                                               *)
Counted(e) == [recent EXCEPT ![e].count = @ + 1]

(* updateMessage with the new count; a deleted row stays deleted.           *)
CountCopy(c, e) ==
  LET r == recent[e].row IN
  /\ recent' = Counted(e)
  /\ rows' = IF rows[r].live THEN [rows EXCEPT ![r].count = recent[e].count + 1]
                             ELSE rows
  /\ taken' = [taken EXCEPT ![copy[c].msg] = @ + 1]
  /\ Goes(c, "told")

Placeholder ==
  /\ contact' = [kind |-> "placeholder", pinned |-> FALSE]
  /\ saved' = contact'

(* A reaction reads the rows; a message is looked up in the recent ones; a  *)
(* new one has a contact made if there is none.                             *)
Dispatch(c) ==
  /\ At(c, "unpack")
  /\ LET m == copy[c].msg IN
     \/ /\ m \in Reactions
        /\ \/ /\ RowsOf(Target) = {}
              /\ Goes(c, "told")
           \/ \E r \in RowsOf(Target) :
                /\ \A q \in RowsOf(Target) : r <= q
                /\ copy' = [copy EXCEPT ![c].at = "react", ![c].row = r,
                                        ![c].seen = rows[r].reactions]
        /\ UNCHANGED <<rows, recent, contact, saved, taken>>
     \/ /\ m \in Texts
        /\ \E e \in RecentOf(m) : CountCopy(c, e)
        /\ UNCHANGED <<contact, saved>>
     \/ /\ m \in Texts /\ RecentOf(m) = {}
        /\ IF contact.kind = "none" THEN Placeholder
                                    ELSE UNCHANGED <<contact, saved>>
        /\ Goes(c, "save")
        /\ UNCHANGED <<rows, recent, taken>>
  /\ UNCHANGED <<beacon, proved, stored, userVars>>

(* Malformed, or its contact could not be saved: the handler throws.        *)
DispatchThrows(c) ==
  /\ copy[c].at \in {"unpack", "save"}
  /\ Ends(c)
  /\ UNCHANGED <<rows, recent, contactVars, historyVars, userVars>>

(* The row gets the reactions that were read, and this one.                 *)
React(c) ==
  /\ At(c, "react")
  /\ LET r == copy[c].row IN
       rows' = IF rows[r].live /\ copy[c].msg \notin copy[c].seen
                 THEN [rows EXCEPT ![r].reactions = copy[c].seen \cup {copy[c].msg}]
                 ELSE rows
  /\ Goes(c, "told")
  /\ UNCHANGED <<recent, contactVars, historyVars, userVars>>

SaveMessage(c) ==
  /\ At(c, "save")
  /\ rows' = Append(rows, [msg |-> copy[c].msg, count |-> 1, live |-> TRUE,
                           reactions |-> {}])
  /\ copy' = [copy EXCEPT ![c].at = "saved", ![c].row = Len(rows) + 1]
  /\ stored' = stored \cup {copy[c].msg}
  /\ taken' = [taken EXCEPT ![copy[c].msg] = @ + 1]
  /\ UNCHANGED <<recent, contactVars, proved, userVars>>

(* The oldest entry leaves a full map.                                      *)
NewestUnbounded(s) == s

Newest(s) == IF Len(s) > MaxRecent THEN Tail(s) ELSE s

(* The row's id is known: the entry is made, or replaced where it is.       *)
EnterRecent(c) ==
  /\ At(c, "saved")
  /\ LET m == copy[c].msg
         entry == [msg |-> m, row |-> copy[c].row, count |-> 1]
     IN recent' = IF RecentOf(m) = {} THEN Newest(Append(recent, entry))
                  ELSE [i \in DOMAIN recent |->
                          IF recent[i].msg = m THEN entry ELSE recent[i]]
  /\ Goes(c, "told")
  /\ UNCHANGED <<rows, contactVars, historyVars, userVars>>

(* What came over a link is proved once it was dispatched.                  *)
ReadyToProveEarly(c) == copy[c].at \in {"unpack", "told"}

ReadyToProve(c) == At(c, "told")

ProveLink(c) ==
  /\ ReadyToProve(c) /\ copy[c].way = "link"
  /\ \/ proved' = proved \cup {copy[c].msg}
     \/ UNCHANGED proved
  /\ Ends(c)
  /\ UNCHANGED <<rows, recent, contactVars, stored, taken, userVars>>

HandlerEnds(c) ==
  /\ At(c, "told") /\ copy[c].way # "link"
  /\ Ends(c)
  /\ UNCHANGED <<rows, recent, contactVars, historyVars, userVars>>

-----------------------------------------------------------------------------
(* The contact.                                                             *)

(* handleAnnounce, once the announce is verified: what the user set is read *)
(* from the contact, and the key is loaded.                                 *)
AnnounceVerified(b) ==
  /\ beacon[b].at = "no"
  /\ beacon' = [beacon EXCEPT ![b] = [at |-> "loading", pinned |-> contact.pinned]]
  /\ UNCHANGED <<copy, rows, recent, contact, saved, historyVars, userVars>>

UpsertContact(b) ==
  /\ beacon[b].at = "loading"
  /\ beacon' = [beacon EXCEPT ![b] = [at |-> "done", pinned |-> FALSE]]
  /\ contact' = [kind |-> "real", pinned |-> beacon[b].pinned]
  /\ saved' = contact'
  /\ UNCHANGED <<copy, rows, recent, historyVars, userVars>>

TogglePin ==
  /\ contact.kind # "none"
  /\ contact' = [contact EXCEPT !.pinned = ~@]
  /\ saved' = contact'
  /\ UNCHANGED <<copy, rows, recent, beacon, historyVars, userVars>>

(* removeContact deletes the rows, and when that is done the contact's row. *)
RemoveContact ==
  /\ contact.kind # "none" /\ ~removing
  /\ contact' = NoContact
  /\ rows' = [i \in DOMAIN rows |-> [rows[i] EXCEPT !.live = FALSE]]
  /\ removed' = TRUE /\ removing' = TRUE
  /\ UNCHANGED <<copy, recent, saved, beacon, historyVars, reloads>>

ContactRemoved ==
  /\ removing
  /\ removing' = FALSE
  /\ saved' = NoContact
  /\ UNCHANGED <<copy, rows, recent, contact, beacon, historyVars, removed, reloads>>

(* A reload ends the handlers and forgets the recent messages; the contact  *)
(* comes back from its row (initIdentity).                                  *)
InboundReload ==
  /\ reloads < MaxReloads
  /\ reloads' = reloads + 1
  /\ copy' = [c \in Copies |-> IF At(c, "no") THEN Away ELSE [Away EXCEPT !.at = "done"]]
  /\ beacon' = [b \in Beacons |->
       [at |-> IF beacon[b].at = "no" THEN "no" ELSE "done", pinned |-> FALSE]]
  /\ recent' = <<>>
  /\ contact' = saved
  /\ removing' = FALSE
  /\ UNCHANGED <<rows, saved, historyVars, removed>>

CopyStep(c) ==
  \/ CopyArrives(c) \/ Decrypted(c) \/ ProveData(c) \/ Dispatch(c)
  \/ DispatchThrows(c) \/ React(c) \/ SaveMessage(c) \/ EnterRecent(c)
  \/ ProveLink(c) \/ HandlerEnds(c)

InboundNext ==
  \/ \E c \in Copies : CopyStep(c)
  \/ \E b \in Beacons : AnnounceVerified(b) \/ UpsertContact(b)
  \/ TogglePin \/ RemoveContact \/ ContactRemoved \/ InboundReload

InboundSpec == InboundInit /\ [][InboundNext]_inboundVars

-----------------------------------------------------------------------------
(* Properties.                                                              *)

(* Well typed; and every entry and every handler that wrote a row names one *)
(* that was made for its message (recentMessageMap).                        *)
InboundTypeOK ==
  /\ copy \in [Copies ->
       [at : {"no", "decrypt", "proof", "unpack", "react", "save", "saved", "told", "done"},
        msg : Texts \cup Reactions, way : Ways, seen : SUBSET Reactions,
        row : 0..Len(rows)]]
  /\ rows \in Seq([msg : Texts, count : Nat \ {0}, live : BOOLEAN,
                   reactions : SUBSET Reactions])
  /\ recent \in Seq([msg : Texts, row : DOMAIN rows, count : Nat \ {0}])
  /\ Len(recent) <= MaxRecent
  /\ \A i \in DOMAIN recent : rows[recent[i].row].msg = recent[i].msg
  /\ \A c \in Copies : At(c, "saved") =>
       copy[c].row # 0 /\ rows[copy[c].row].msg = copy[c].msg
  /\ {contact, saved} \subseteq
       [kind : {"none", "placeholder", "real"}, pinned : BOOLEAN]
  /\ beacon \in [Beacons -> [at : {"no", "loading", "done"}, pinned : BOOLEAN]]
  /\ proved \subseteq Texts \cup Reactions /\ stored \subseteq Texts
  /\ taken \in [Texts -> Nat]
  /\ removed \in BOOLEAN /\ removing \in BOOLEAN /\ reloads \in Nat

(* The proof of a message that came over a link is sent only when the       *)
(* message has been stored, by this copy's handler or an earlier one's:     *)
(* the sender does not show a message as delivered that the user will never *)
(* see (handleLinkData awaits dispatchIncomingMessage before it proves).    *)
LinkProofMeansStored ==
  \A m \in Texts : m \in proved => m \in stored

(* The copies that the rows of a message show: as many as each row counts.  *)
CopiesShown(m) == UNION {{i} \X (1..rows[i].count) : i \in RowsOf(m)}

(* As long as no conversation is removed, the counts shown with the rows of *)
(* a message add up to the copies that came: none is dropped and none is    *)
(* counted twice, also when copies that arrive together get a row each, one *)
(* takes the other's place in the map, or a reload empties it               *)
(* (dispatchIncomingMessage: dupeCount).                                    *)
CopiesCounted ==
  ~removed => \A m \in Texts : Cardinality(CopiesShown(m)) = taken[m]

(* A message has one row in a session, however many copies of it arrive     *)
(* (js/app.js:1473, "Persisted rows already contain only one copy because   *)
(* the dedupe ran before saving").                                          *)
OneRowPerMessage ==
  reloads = 0 => \A m \in Texts : Cardinality(RowsOf(m)) <= 1
=============================================================================
