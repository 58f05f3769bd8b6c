------------------------------ MODULE Conversations ------------------------------
(***************************************************************************)
(* The open thread and what counts as read (js/app.js, selectContact,       *)
(* renderMessages, switchView, removeContact, the tail of                   *)
(* dispatchIncomingMessage, the upsert of handleAnnounce, the loading of    *)
(* contacts; js/store.js). A render reads the thread, suspends, and paints  *)
(* and marks read what it read, whatever is open by then. A contact is an   *)
(* object that an announce replaces while other handlers hold it.           *)
(***************************************************************************)
EXTENDS Naturals, Sequences, FiniteSets

CONSTANTS
  Peers,      \* contacts
  MaxRows,    \* bound: message rows saved; ids are 1..MaxRows
  Renders,    \* calls of renderMessages in flight
  Deliveries, \* calls of dispatchIncomingMessage
  Announcers  \* calls of handleAnnounce

ASSUME ConversationsAssumption == MaxRows \in Nat

VARIABLES
  store,      \* the messages store
  lastId,     \* the last id it gave
  contact,    \* contacts: the row last read, and whether a badge counts unread rows
  saved,      \* the contacts store: lastReadId
  opened,     \* activeContactHash
  view,       \* _activeView
  rendering,  \* each call of renderMessages: of what, the rows it read, for which delivery
  arriving,   \* each call of dispatchIncomingMessage
  announcing, \* each call of handleAnnounce, and the contact it read
  removing,   \* where removeContact of each contact is
  painted     \* history: rows that were shown in the Messages view

convVars == <<store, lastId, contact, saved, opened, view, rendering, arriving, announcing,
              removing, painted>>

rowVars == <<store, lastId>>
screenVars == <<opened, view, painted>>

None == "none"

Absent == [present |-> FALSE, read |-> 0, badge |-> FALSE]

Unsaved == [present |-> FALSE, read |-> 0]

NoRender == [of |-> None, rows |-> {}, for |-> None]

ConvInit ==
  /\ store = {} /\ lastId = 0
  /\ contact = [p \in Peers |-> Absent] /\ saved = [p \in Peers |-> Unsaved]
  /\ opened = None /\ view = "messages"
  /\ rendering = [r \in Renders |-> NoRender]
  /\ arriving = [d \in Deliveries |-> [at |-> "no", of |-> None]]
  /\ announcing = [a \in Announcers |->
                     [at |-> "no", of |-> None, read |-> 0, badge |-> FALSE, held |-> FALSE]]
  /\ removing = [p \in Peers |-> "no"]
  /\ painted = {}

-----------------------------------------------------------------------------
(* renderMessages.                                                          *)

RowsOf(p) == {m.id : m \in {x \in store : x.peer = p}}

Newest(ids) == CHOOSE i \in ids : \A j \in ids : j <= i

(* The thread is read as it is when renderMessages is called.               *)
RenderBegins(p, d, ids) ==
  \E r \in Renders :
     /\ rendering[r] = NoRender
     /\ rendering' = [rendering EXCEPT ![r] = [of |-> p, rows |-> ids, for |-> d]]

(* It is read up to the newest row just painted, when the Messages view is  *)
(* on screen.                                                               *)
UpToStored(p, ids) == Newest(RowsOf(p) \cup ids)

UpTo(p, ids) == Newest(ids)

MarksRead(p, ids) ==
  ids # {} /\ view = "messages" /\ contact[p].present /\ UpTo(p, ids) > contact[p].read

Marked(p, ids) ==
  IF MarksRead(p, ids)
    THEN [contact EXCEPT ![p] = [present |-> TRUE, read |-> UpTo(p, ids), badge |-> FALSE]]
    ELSE contact

(* The end of dispatchIncomingMessage: the badge, unless the thread is on   *)
(* the screen.                                                              *)
Flagged(p, people) ==
  IF people[p].present /\ ~(opened = p /\ view = "messages")
    THEN [people EXCEPT ![p].badge = TRUE]
    ELSE people

RenderPaints(r) ==
  LET p == rendering[r].of
      ids == rendering[r].rows
      d == rendering[r].for
  IN /\ p # None
     /\ rendering' = [rendering EXCEPT ![r] = NoRender]
     /\ painted' = IF view = "messages" THEN painted \cup ids ELSE painted
     /\ contact' = IF d = None THEN Marked(p, ids) ELSE Flagged(p, Marked(p, ids))
     /\ saved' = IF MarksRead(p, ids)
                   THEN [saved EXCEPT ![p] = [present |-> TRUE, read |-> UpTo(p, ids)]]
                   ELSE saved
     /\ arriving' = IF d = None THEN arriving ELSE [arriving EXCEPT ![d].at = "over"]
     /\ UNCHANGED <<rowVars, opened, view, announcing, removing>>

-----------------------------------------------------------------------------
(* The user.                                                                *)

SelectContact(p) ==
  /\ contact[p].present \/ removing[p] # "no"
  /\ opened' = p
  /\ contact' = [contact EXCEPT ![p].badge = FALSE]
  /\ RenderBegins(p, None, RowsOf(p))
  /\ UNCHANGED <<rowVars, saved, view, painted, arriving, announcing, removing>>

(* The back button; to this contact, that another one is selected is no     *)
(* different.                                                               *)
GoesBack ==
  /\ opened' = None
  /\ UNCHANGED <<rowVars, contact, saved, view, rendering, arriving, announcing, removing,
                 painted>>

SwitchView ==
  /\ view' \in {"messages", "nodes"} \ {view}
  /\ IF view' = "messages" /\ opened # None
       THEN RenderBegins(opened, None, RowsOf(opened))
       ELSE UNCHANGED rendering
  /\ UNCHANGED <<rowVars, contact, saved, opened, arriving, announcing, removing,
                 painted>>

(* A repeated message, a reaction or a change of a row's state.             *)
Rerenders ==
  /\ opened # None
  /\ RenderBegins(opened, None, RowsOf(opened))
  /\ UNCHANGED <<rowVars, contact, saved, screenVars, arriving, announcing, removing>>

SendsRow ==
  /\ opened # None /\ contact[opened].present /\ lastId < MaxRows
  /\ lastId' = lastId + 1
  /\ store' = store \cup {[id |-> lastId', peer |-> opened, incoming |-> FALSE]}
  /\ RenderBegins(opened, None, RowsOf(opened) \cup {lastId'})
  /\ UNCHANGED <<contact, saved, screenVars, arriving, announcing, removing>>

-----------------------------------------------------------------------------
(* The contact. Whoever read it before it is replaced or removed holds the  *)
(* old object, and its badge then.                                          *)

OldHeld(p) ==
  [a \in Announcers |->
     IF announcing[a].of = p /\ announcing[a].at = "verified" /\ ~announcing[a].held
       THEN [announcing[a] EXCEPT !.held = TRUE, !.badge = contact[p].badge]
       ELSE announcing[a]]

(* handleAnnounce: the read mark is copied before an await, the badge after.*)
AnnounceVerified(a, p) ==
  /\ announcing[a].at = "no"
  /\ announcing' = [announcing EXCEPT ![a] =
       [at |-> "verified", of |-> p, read |-> contact[p].read, badge |-> FALSE,
        held |-> ~contact[p].present]]
  /\ UNCHANGED <<rowVars, contact, saved, screenVars, rendering, arriving, removing>>

AnnounceStored(a) ==
  LET p == announcing[a].of
      badge == IF announcing[a].held THEN announcing[a].badge ELSE contact[p].badge
  IN /\ announcing[a].at = "verified"
     /\ contact' = [contact EXCEPT ![p] = [present |-> TRUE, read |-> announcing[a].read,
                                           badge |-> badge]]
     /\ saved' = [saved EXCEPT ![p] = [present |-> TRUE, read |-> announcing[a].read]]
     /\ announcing' = [OldHeld(p) EXCEPT ![a].at = "over"]
     /\ UNCHANGED <<rowVars, screenVars, rendering, arriving, removing>>

(* importContactCard, addManualHash, lxmfContactFromNode: a contact made    *)
(* anew with the marks of the one there was.                                *)
AddsContact(p) ==
  /\ contact' = [contact EXCEPT ![p].present = TRUE]
  /\ saved' = [saved EXCEPT ![p] = [present |-> TRUE, read |-> contact[p].read]]
  /\ announcing' = OldHeld(p)
  /\ UNCHANGED <<rowVars, screenVars, rendering, arriving, removing>>

(* removeContact: contacts and messages, then the stored contact, then the  *)
(* thread.                                                                  *)
RemoveContact(p) ==
  /\ removing[p] = "no" /\ contact[p].present
  /\ contact' = [contact EXCEPT ![p] = Absent]
  /\ announcing' = OldHeld(p)
  /\ store' = {m \in store : m.peer # p}
  /\ removing' = [removing EXCEPT ![p] = "contact"]
  /\ UNCHANGED <<lastId, saved, screenVars, rendering, arriving>>

ContactDeleted(p) ==
  /\ removing[p] = "contact"
  /\ saved' = [saved EXCEPT ![p] = Unsaved]
  /\ removing' = [removing EXCEPT ![p] = "thread"]
  /\ UNCHANGED <<rowVars, contact, screenVars, rendering, arriving, announcing>>

ThreadClosed(p) ==
  /\ removing[p] = "thread"
  /\ removing' = [removing EXCEPT ![p] = "no"]
  /\ opened' = IF opened = p THEN None ELSE opened
  /\ UNCHANGED <<rowVars, contact, saved, view, rendering, arriving, announcing, painted>>

-----------------------------------------------------------------------------
(* dispatchIncomingMessage. A sender that is not a contact becomes one; the *)
(* row is saved whether the contact still is.                               *)

MessageArrives(d, p) ==
  /\ arriving[d].at = "no"
  /\ arriving' = [arriving EXCEPT ![d] = [at |-> "known", of |-> p]]
  /\ IF contact[p].present
       THEN UNCHANGED <<contact, saved>>
       ELSE /\ contact' = [contact EXCEPT ![p].present = TRUE]
            /\ saved' = [saved EXCEPT ![p] = [present |-> TRUE, read |-> 0]]
  /\ UNCHANGED <<rowVars, screenVars, rendering, announcing, removing>>

MessageSaved(d) ==
  /\ arriving[d].at = "known" /\ lastId < MaxRows
  /\ lastId' = lastId + 1
  /\ store' = store \cup {[id |-> lastId', peer |-> arriving[d].of, incoming |-> TRUE]}
  /\ arriving' = [arriving EXCEPT ![d].at = "saved"]
  /\ UNCHANGED <<contact, saved, screenVars, rendering, announcing, removing>>

MessageShown(d) ==
  LET p == arriving[d].of IN
  /\ arriving[d].at = "saved"
  /\ IF opened = p
       THEN /\ RenderBegins(p, d, RowsOf(p))
            /\ arriving' = [arriving EXCEPT ![d].at = "rendering"]
            /\ UNCHANGED contact
       ELSE /\ contact' = Flagged(p, contact)
            /\ arriving' = [arriving EXCEPT ![d].at = "over"]
            /\ UNCHANGED rendering
  /\ UNCHANGED <<rowVars, saved, screenVars, announcing, removing>>

-----------------------------------------------------------------------------
(* A reload: the badge is counted from what is stored. (Contacts without a  *)
(* read mark, saved by an earlier version, are left out.)                   *)
Unread(p) == {m \in store : m.peer = p /\ m.incoming /\ m.id > saved[p].read}

Reload ==
  /\ contact' = [p \in Peers |-> IF saved[p].present
                                   THEN [present |-> TRUE, read |-> saved[p].read,
                                         badge |-> Unread(p) # {}]
                                   ELSE Absent]
  /\ opened' = None /\ view' = "messages"
  /\ rendering' = [r \in Renders |-> NoRender]
  /\ arriving' = [d \in Deliveries |->
                    [arriving[d] EXCEPT !.at = IF @ = "no" THEN "no" ELSE "over"]]
  /\ announcing' = [a \in Announcers |->
                      [announcing[a] EXCEPT !.at = IF @ = "no" THEN "no" ELSE "over"]]
  /\ removing' = [p \in Peers |-> "no"]
  /\ UNCHANGED <<rowVars, saved, painted>>

ConvNext ==
  \/ \E r \in Renders : RenderPaints(r)
  \/ \E p \in Peers : \/ SelectContact(p) \/ AddsContact(p) \/ RemoveContact(p)
                       \/ ContactDeleted(p) \/ ThreadClosed(p)
  \/ GoesBack \/ SwitchView \/ Rerenders \/ SendsRow
  \/ \E a \in Announcers : (\E p \in Peers : AnnounceVerified(a, p)) \/ AnnounceStored(a)
  \/ \E d \in Deliveries : (\E p \in Peers : MessageArrives(d, p)) \/ MessageSaved(d)
                            \/ MessageShown(d)
  \/ Reload

ConvSpec == ConvInit /\ [][ConvNext]_convVars

-----------------------------------------------------------------------------
(* Properties.                                                              *)

ConvTypeOK ==
  /\ store \subseteq [id : 1..MaxRows, peer : Peers, incoming : BOOLEAN] /\ lastId \in 0..MaxRows
  /\ contact \in [Peers -> [present : BOOLEAN, read : 0..MaxRows, badge : BOOLEAN]]
  /\ saved \in [Peers -> [present : BOOLEAN, read : 0..MaxRows]]
  /\ opened \in Peers \cup {None} /\ view \in {"messages", "nodes"}
  /\ \A r \in Renders : rendering[r].rows \subseteq 1..MaxRows

(* A row that counts as read, in memory or after a reload, was painted in   *)
(* the Messages view: a render that finishes late, in another thread, under *)
(* another view, after an announce replaced the contact or after a newer    *)
(* row came marks nothing that was not on the screen ("the highest message  *)
(* id the user has had on screen", above activeThreadBaselineId).           *)
ReadMeansPainted ==
  \A m \in store :
     m.incoming /\ m.id <= (IF contact[m.peer].present THEN contact[m.peer].read
                                                      ELSE saved[m.peer].read)
       => m.id \in painted
=============================================================================
