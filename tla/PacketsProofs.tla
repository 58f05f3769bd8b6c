----------------------------- MODULE PacketsProofs -----------------------------
(***************************************************************************)
(* Proofs about the components that carry packets, for any number of        *)
(* interfaces, of copies of a packet, of handlers under way and of presses  *)
(* of a button. A link that a peer opens has one key; the session's timers  *)
(* run while the radio is on; a message is proved only when it was stored,  *)
(* and shown as often as it was taken; a ratchet that was announced is kept *)
(* until enough newer ones follow; a page is shown as what it is; a packet, *)
(* an announce and a message, whole, are understood as they were meant, and *)
(* not otherwise; and all of these, with the router, the framings and the   *)
(* transports of WireProofs, are well typed.                                *)
(***************************************************************************)
EXTENDS MCPackets, WireProofs

(***************************************************************************)
(* The responder's link. ProofsAgree is inductive with the types: the first *)
(* object to be stored stays until the link ends, and no proof was sent     *)
(* before it was stored.                                                    *)
(***************************************************************************)
ResponderInv == ResponderTypeOK /\ ProofsAgree

LEMMA ResponderInitInv == ResponderInit => ResponderInv
<1> SUFFICES ASSUME ResponderInit PROVE ResponderInv
  OBVIOUS
<1>1. FreeReceiver \in [at : {"no", "decrypt", "answer"},
                       link : Requests \cup {NoLink}, context : Contexts]
      /\ FreeReceiver.at = "no" /\ FreeReceiver.link = NoLink
  BY DEF FreeReceiver, Contexts
<1> QED
  BY <1>1, ResponderAssumption DEF ResponderInit, ResponderInv, ResponderTypeOK, ProofsAgree

LEMMA ResponderNextInv == ResponderInv /\ [ResponderNext]_responderVars => ResponderInv'
<1> SUFFICES ASSUME ResponderInv, [ResponderNext]_responderVars PROVE ResponderInv'
  OBVIOUS
<1> USE ResponderAssumption DEF ResponderInv, ResponderTypeOK, ProofsAgree, requestVars, peerVars
<1>1. ASSUME NEW r \in Requests, LinkRequestArrives(r) PROVE ResponderInv'
  BY <1>1 DEF LinkRequestArrives
<1>2. ASSUME NEW r \in Requests, LinkRequestRefused(r) PROVE ResponderInv'
  BY <1>2 DEF LinkRequestRefused
<1>3. ASSUME NEW r \in Requests, Validated(r) PROVE ResponderInv'
  BY <1>3 DEF Validated, StoreFirst
<1>4. ASSUME NEW r \in Requests, ProofSent(r) PROVE ResponderInv'
  BY <1>4 DEF ProofSent
<1>5. CASE PeerAccepts
  BY <1>5 DEF PeerAccepts, Contexts
<1>6. CASE PeerSends
  BY <1>6 DEF PeerSends
<1>7. ASSUME NEW h \in Receivers, LinkDataArrives(h) PROVE ResponderInv'
  BY <1>7 DEF LinkDataArrives, Receives
<1>8. ASSUME NEW h \in Receivers, LinkDataDecrypted(h) PROVE ResponderInv'
  <2> DEFINE k == receiver[h].link
  <2>1. /\ receiver[h] \in [at : {"no", "decrypt", "answer"},
                             link : Requests \cup {NoLink}, context : Contexts]
        /\ receiver[h].at = "decrypt" /\ k \in Requests
        /\ UNCHANGED <<request, proofs, peerKey, datagrams, closing>>
    BY <1>8 DEF LinkDataDecrypted
  <2>2. receiver' = [receiver EXCEPT ![h] = FreeReceiver]
        \/ receiver' = [receiver EXCEPT ![h] = [at |-> "answer", link |-> k,
                                               context |-> receiver[h].context]]
    BY <1>8 DEF LinkDataDecrypted, Receives
  <2>3. FreeReceiver \in [at : {"no", "decrypt", "answer"},
                         link : Requests \cup {NoLink}, context : Contexts]
        /\ FreeReceiver.at = "no" /\ FreeReceiver.link = NoLink
    BY DEF FreeReceiver, Contexts
  <2>4. \/ UNCHANGED <<listed, state, ended>>
        \/ k = peerKey /\ state' = [state EXCEPT ![k] = "ACTIVE"] /\ UNCHANGED <<listed, ended>>
        \/ state' = [state EXCEPT ![k] = "CLOSED"] /\ listed' = NoLink /\ ended' = TRUE
    BY <1>8 DEF LinkDataDecrypted
  <2> HIDE DEF k
  <2>5. /\ receiver' \in [Receivers -> [at : {"no", "decrypt", "answer"},
                                      link : Requests \cup {NoLink}, context : Contexts]]
        /\ \A g \in Receivers : receiver'[g].at = "no" <=> receiver'[g].link = NoLink
    BY <2>1, <2>2, <2>3 DEF k
  <2>6. /\ listed' \in Requests \cup {NoLink} /\ ended' \in BOOLEAN
        /\ state' \in [Requests -> {"HANDSHAKE", "ACTIVE", "CLOSED"}]
        /\ ProofsAgree'
    BY <2>1, <2>4
  <2> QED
    BY <2>1, <2>5, <2>6
<1>9. ASSUME NEW h \in Receivers, LinkDataAnswered(h) PROVE ResponderInv'
  BY <1>9 DEF LinkDataAnswered, FreeReceiver, Contexts
<1>10. CASE CloseBegins
  BY <1>10 DEF CloseBegins
<1>11. CASE CloseEnds
  BY <1>11 DEF CloseEnds
<1>12. CASE TransportDies
  BY <1>12 DEF TransportDies
<1>13. CASE UNCHANGED responderVars
  BY <1>13 DEF responderVars
<1> QED
  BY <1>1, <1>2, <1>3, <1>4, <1>5, <1>6, <1>7, <1>8, <1>9, <1>10, <1>11, <1>12, <1>13
     DEF ResponderNext

(* The type of the responder's link and ProofsAgree hold of it, however     *)
(* many copies of the request and handlers of packets overlap.              *)
THEOREM ResponderCorrect == ResponderSpec => [](ResponderTypeOK /\ ProofsAgree)
<1>1. ResponderInv => ResponderTypeOK /\ ProofsAgree
  BY DEF ResponderInv
<1> QED
  BY <1>1, ResponderInitInv, ResponderNextInv, PTL DEF ResponderSpec

(***************************************************************************)
(* The session. ReadyIsDriven is inductive: whoever sets radioOn has set    *)
(* the timers, and whoever stops them clears it, now or, for Disconnect, at *)
(* its end.                                                                 *)
(***************************************************************************)
DrivenInv ==
  /\ ready \in BOOLEAN /\ ticking \in [Timers -> Nat]
  /\ leaving \in [Goodbyes -> {"no", "closing", "disconnecting", "over"}]
  /\ ReadyIsDriven

LEMMA SessionInitInv == SessionInit => DrivenInv
<1> SUFFICES ASSUME SessionInit PROVE DrivenInv
  OBVIOUS
<1>1. ticking \in [Timers -> Nat] /\ \A t \in Timers : ticking[t] = 0
  BY DEF SessionInit, AllStopped
<1>2. \A t \in Timers : ticking[t] <= 1
  BY <1>1
<1>3. ready = FALSE /\ leaving \in [Goodbyes -> {"no", "closing", "disconnecting", "over"}]
  BY DEF SessionInit
<1> QED
  BY <1>1, <1>2, <1>3 DEF DrivenInv, ReadyIsDriven

(* Setting the timers, and stopping them, leave no second one behind.       *)
LEMMA TimersSet ==
  /\ MarkInterfaceReady => /\ ready' = TRUE /\ ticking' \in [Timers -> Nat]
                           /\ \A t \in Timers : ticking'[t] = 1
  /\ AllStopped \in [Timers -> Nat] /\ \A t \in Timers : AllStopped[t] = 0
  BY DEF MarkInterfaceReady, TicksReplaced, AllStopped

(* A radio that answers is ready with its timers; one that does not changes *)
(* nothing but, perhaps, radioOn to false.                                  *)
LEMMA AnswersDriven ==
  ASSUME DrivenInv, UNCHANGED leaving,
         MarkInterfaceReady \/ (ready' = FALSE /\ UNCHANGED ticking) \/ UNCHANGED readyVars
  PROVE  DrivenInv'
<1>1. CASE MarkInterfaceReady
  BY <1>1, TimersSet DEF DrivenInv, ReadyIsDriven
<1>2. CASE ready' = FALSE /\ UNCHANGED ticking
  BY <1>2 DEF DrivenInv, ReadyIsDriven
<1>3. CASE UNCHANGED readyVars
  BY <1>3 DEF DrivenInv, ReadyIsDriven, readyVars
<1> QED
  BY <1>1, <1>2, <1>3

LEMMA SessionNextInv == DrivenInv /\ [SessionNext]_sessionVars => DrivenInv'
<1> SUFFICES ASSUME DrivenInv, [SessionNext]_sessionVars PROVE DrivenInv'
  OBVIOUS
<1>1. ASSUME NEW i \in Ifaces, Connects(i) \/ IfaceOpens(i) \/ IfaceFails(i) \/ ProbeEnds(i)
      PROVE  DrivenInv'
  BY <1>1, AnswersDriven DEF Connects, IfaceOpens, IfaceFails, ProbeEnds, RadioAnswers, readyVars
<1>2. ASSUME NEW i \in Ifaces, IfaceEnds(i) PROVE DrivenInv'
  <2>1. ready' = FALSE /\ ticking' = AllStopped /\ UNCHANGED leaving
    BY <1>2 DEF IfaceEnds, ReadyLost
  <2>2. ticking' \in [Timers -> Nat] /\ \A t \in Timers : ticking'[t] = 0
    BY <2>1, TimersSet
  <2>3. \A t \in Timers : ticking'[t] <= 1
    BY <2>2
  <2>4. leaving' \in [Goodbyes -> {"no", "closing", "disconnecting", "over"}]
    BY <2>1 DEF DrivenInv
  <2> QED
    BY <2>1, <2>2, <2>3, <2>4 DEF DrivenInv, ReadyIsDriven
<1>3. ASSUME NEW s \in Presses, StartPressed(s) \/ StartEnds(s) PROVE DrivenInv'
  BY <1>3, AnswersDriven DEF StartPressed, StartEnds, RadioAnswers
<1>4. ASSUME NEW d \in Goodbyes, DisconnectPressed(d) PROVE DrivenInv'
  BY <1>4, TimersSet DEF DisconnectPressed, DrivenInv, ReadyIsDriven
<1>5. ASSUME NEW d \in Goodbyes, LinksClosed(d) PROVE DrivenInv'
  BY <1>5 DEF LinksClosed, DrivenInv, ReadyIsDriven, readyVars
<1>6. ASSUME NEW d \in Goodbyes, Disconnected(d) PROVE DrivenInv'
  BY <1>6 DEF Disconnected, DrivenInv, ReadyIsDriven
<1>7. CASE RadioStopped \/ HelperClosed
  BY <1>7, AnswersDriven DEF RadioStopped, HelperClosed
<1>8. CASE UNCHANGED sessionVars
  BY <1>8, AnswersDriven DEF sessionVars, readyVars
<1> QED
  BY <1>1, <1>2, <1>3, <1>4, <1>5, <1>6, <1>7, <1>8 DEF SessionNext

(* Types of the rest of the session.                                        *)
LEMMA SessionInitTyped == SessionInit => SessionTypeOK
<1> SUFFICES ASSUME SessionInit PROVE SessionTypeOK
  OBVIOUS
<1>1. rnode \in 0..MaxIfaces
  BY SessionAssumption DEF SessionInit
<1>2. iface \in [Ifaces -> [at : {"no", "opening", "open", "ending", "gone"}, radio : BOOLEAN]]
  BY DEF SessionInit
<1>3. /\ connecting \in [Ifaces -> {"no", "opening", "probing", "over"}]
      /\ starting \in [Presses -> {"no", "configuring", "over"}]
      /\ leaving \in [Goodbyes -> {"no", "closing", "disconnecting", "over"}]
      /\ {busy, showing, polling, ready} \subseteq BOOLEAN
      /\ ticking \in [Timers -> Nat]
  BY DEF SessionInit, AllStopped
<1> QED
  BY <1>1, <1>2, <1>3 DEF SessionTypeOK

LEMMA SessionNextTyped ==
  SessionTypeOK /\ DrivenInv /\ [SessionNext]_sessionVars => SessionTypeOK'
<1> SUFFICES ASSUME SessionTypeOK, DrivenInv, [SessionNext]_sessionVars PROVE SessionTypeOK'
  OBVIOUS
<1> DEFINE Transported == [at : {"no", "opening", "open", "ending", "gone"}, radio : BOOLEAN]
<1>1. /\ rnode \in 0..MaxIfaces /\ iface \in [Ifaces -> Transported]
      /\ connecting \in [Ifaces -> {"no", "opening", "probing", "over"}]
      /\ starting \in [Presses -> {"no", "configuring", "over"}]
      /\ leaving \in [Goodbyes -> {"no", "closing", "disconnecting", "over"}]
      /\ busy \in BOOLEAN /\ showing \in BOOLEAN /\ polling \in BOOLEAN /\ ready \in BOOLEAN
      /\ MaxIfaces \in Nat /\ Ifaces = 1..MaxIfaces
  BY SessionAssumption DEF SessionTypeOK, Ifaces
<1>2. ready' \in BOOLEAN /\ ticking' \in [Timers -> Nat]
      /\ leaving' \in [Goodbyes -> {"no", "closing", "disconnecting", "over"}]
  BY SessionNextInv DEF DrivenInv
<1>3. \A i \in Ifaces : i \in 0..MaxIfaces
  BY <1>1
<1>4. SUFFICES /\ rnode' \in 0..MaxIfaces /\ iface' \in [Ifaces -> Transported]
               /\ connecting' \in [Ifaces -> {"no", "opening", "probing", "over"}]
               /\ starting' \in [Presses -> {"no", "configuring", "over"}]
               /\ busy' \in BOOLEAN /\ showing' \in BOOLEAN /\ polling' \in BOOLEAN
  BY <1>1, <1>2 DEF SessionTypeOK
<1>5. ASSUME NEW i \in Ifaces, NEW t \in {"no", "opening", "open", "ending", "gone"},
             iface' = [iface EXCEPT ![i].at = t]
      PROVE  iface' \in [Ifaces -> Transported]
  BY <1>1, <1>5
<1> HIDE DEF Transported
<1>6. ASSUME NEW i \in Ifaces, Connects(i) PROVE iface' \in [Ifaces -> Transported]
  BY <1>1, <1>6 DEF Connects, Transported
<1>7. ASSUME NEW i \in Ifaces, Connects(i)
      PROVE  /\ rnode' \in 0..MaxIfaces /\ UNCHANGED starting
             /\ connecting' \in [Ifaces -> {"no", "opening", "probing", "over"}]
             /\ busy' \in BOOLEAN /\ showing' \in BOOLEAN /\ polling' \in BOOLEAN
  BY <1>1, <1>3, <1>7 DEF Connects
<1>8. ASSUME NEW i \in Ifaces, IfaceOpens(i)
      PROVE  /\ UNCHANGED <<rnode, starting>> /\ iface' \in [Ifaces -> Transported]
             /\ connecting' \in [Ifaces -> {"no", "opening", "probing", "over"}]
             /\ busy' \in BOOLEAN /\ showing' \in BOOLEAN /\ polling' \in BOOLEAN
  <2>1. iface' \in [Ifaces -> Transported]
    BY <1>5, <1>8 DEF IfaceOpens
  <2> QED
    BY <1>1, <1>8, <2>1 DEF IfaceOpens, Finished
<1>9. ASSUME NEW i \in Ifaces, IfaceFails(i)
      PROVE  /\ UNCHANGED <<rnode, starting>> /\ iface' \in [Ifaces -> Transported]
             /\ connecting' \in [Ifaces -> {"no", "opening", "probing", "over"}]
             /\ busy' \in BOOLEAN /\ showing' \in BOOLEAN /\ polling' \in BOOLEAN
  <2>1. PICK t : t = IF iface[i].at = "gone" THEN iface[i].at ELSE "ending"
    OBVIOUS
  <2>2. t \in {"no", "opening", "open", "ending", "gone"} /\ iface' = [iface EXCEPT ![i].at = t]
    BY <1>9, <2>1 DEF IfaceFails
  <2>3. iface' \in [Ifaces -> Transported]
    BY <1>5, <2>2
  <2> QED
    BY <1>1, <1>9, <2>3 DEF IfaceFails, Finished
<1>10. ASSUME NEW i \in Ifaces, ProbeEnds(i) \/ IfaceEnds(i)
       PROVE  /\ UNCHANGED <<rnode, starting>> /\ iface' \in [Ifaces -> Transported]
              /\ connecting' \in [Ifaces -> {"no", "opening", "probing", "over"}]
              /\ busy' \in BOOLEAN /\ showing' \in BOOLEAN /\ polling' \in BOOLEAN
  <2>1. CASE ProbeEnds(i)
    BY <1>1, <2>1 DEF ProbeEnds, Finished
  <2>2. CASE IfaceEnds(i)
    <3>1. iface' \in [Ifaces -> Transported]
      BY <1>5, <2>2 DEF IfaceEnds
    <3> QED
      BY <1>1, <2>2, <3>1 DEF IfaceEnds
  <2> QED
    BY <1>10, <2>1, <2>2
<1>11. ASSUME NEW s \in Presses, StartPressed(s) \/ StartEnds(s)
       PROVE  /\ UNCHANGED <<rnode, iface, connecting, busy, showing, polling>>
              /\ starting' \in [Presses -> {"no", "configuring", "over"}]
  BY <1>1, <1>11 DEF StartPressed, StartEnds, buttonVars
<1>12. ASSUME NEW d \in Goodbyes, LinksClosed(d)
       PROVE  /\ UNCHANGED <<rnode, starting, connecting, busy, showing, polling>>
              /\ iface' \in [Ifaces -> Transported]
  <2>1. PICK t \in AfterDisconnect(iface[rnode]) : iface' = [iface EXCEPT ![rnode].at = t]
    BY <1>12 DEF LinksClosed
  <2>2. iface' = [iface EXCEPT ![rnode].at = t]
    BY <2>1
  <2>3. CASE rnode \in Ifaces
    <3>1. iface[rnode].at \in {"no", "opening", "open", "ending", "gone"}
      BY <1>1, <2>3 DEF Transported
    <3>2. t \in {"no", "opening", "open", "ending", "gone"}
      BY <2>1, <3>1 DEF AfterDisconnect
    <3>3. iface' \in [Ifaces -> Transported]
      BY <1>5, <2>2, <2>3, <3>2
    <3> QED
      BY <1>12, <3>3 DEF LinksClosed, buttonVars
  <2>4. CASE rnode \notin Ifaces
    <3>1. iface' = iface
      BY <1>1, <2>2, <2>4
    <3> QED
      BY <1>1, <1>12, <3>1 DEF LinksClosed, buttonVars
  <2> QED
    BY <2>3, <2>4
<1>13. ASSUME NEW d \in Goodbyes, DisconnectPressed(d) \/ Disconnected(d)
       PROVE  /\ UNCHANGED <<rnode, iface, connecting, starting, busy, polling>>
              /\ showing' \in BOOLEAN
  BY <1>1, <1>13 DEF DisconnectPressed, Disconnected, buttonVars
<1>14. CASE RadioStopped \/ HelperClosed \/ UNCHANGED sessionVars
  BY <1>1, <1>14 DEF RadioStopped, HelperClosed, sessionVars, buttonVars
<1>15. CASE \E i \in Ifaces :
              Connects(i) \/ IfaceOpens(i) \/ IfaceFails(i) \/ ProbeEnds(i) \/ IfaceEnds(i)
  BY <1>1, <1>6, <1>7, <1>8, <1>9, <1>10, <1>15
<1>16. CASE \E s \in Presses : StartPressed(s) \/ StartEnds(s)
  BY <1>1, <1>11, <1>16
<1>17. CASE \E d \in Goodbyes : DisconnectPressed(d) \/ LinksClosed(d) \/ Disconnected(d)
  BY <1>1, <1>12, <1>13, <1>17
<1> QED
  BY <1>14, <1>15, <1>16, <1>17 DEF SessionNext

(* As long as radioOn is set each timer runs exactly once, whatever         *)
(* connects, presses and late events overlap.                               *)
THEOREM DrivenCorrect == SessionSpec => []ReadyIsDriven
<1>1. DrivenInv => ReadyIsDriven
  BY DEF DrivenInv
<1> QED
  BY <1>1, SessionInitInv, SessionNextInv, PTL DEF SessionSpec

(***************************************************************************)
(* Incoming messages. What a handler has saved, and what is entered among   *)
(* the recent messages, is in a row of its own text and was stored: rows    *)
(* are only added. So what a handler proves, or has seen before, was too.   *)
(***************************************************************************)
Places == {"no", "decrypt", "proof", "unpack", "react", "save", "saved", "told", "done"}

Handlers(n) ==
  [at : Places, msg : Texts \cup Reactions, way : Ways, seen : SUBSET Reactions, row : 0..n]

MessageRows ==
  [msg : Texts, count : Nat \ {0}, live : BOOLEAN, reactions : SUBSET Reactions]

Entries(n) == [msg : Texts, row : 1..n, count : Nat \ {0}]

Contacts == [kind : {"none", "placeholder", "real"}, pinned : BOOLEAN]

AsideTyped ==
  /\ contact \in Contacts /\ saved \in Contacts
  /\ beacon \in [Beacons -> [at : {"no", "loading", "done"}, pinned : BOOLEAN]]
  /\ taken \in [Texts -> Nat]
  /\ removed \in BOOLEAN /\ removing \in BOOLEAN /\ reloads \in Nat

RowsTyped ==
  /\ rows \in Seq(MessageRows)
  /\ recent \in Seq(Entries(Len(rows))) /\ Len(recent) <= MaxRecent
  /\ copy \in [Copies -> Handlers(Len(rows))]
  /\ proved \subseteq Texts \cup Reactions /\ stored \subseteq Texts

HandlerStored(c) ==
  /\ At(c, "react") => copy[c].msg \in Reactions
  /\ copy[c].at \in {"save", "saved"} => copy[c].msg \in Texts
  /\ At(c, "saved") => copy[c].row # 0 /\ rows[copy[c].row].msg = copy[c].msg
  /\ copy[c].at \in {"saved", "told"} /\ copy[c].msg \in Texts => copy[c].msg \in stored

EntryStored(i) == recent[i].msg \in stored /\ rows[recent[i].row].msg = recent[i].msg

InboundInv ==
  /\ AsideTyped /\ RowsTyped
  /\ \A c \in Copies : HandlerStored(c)
  /\ \A i \in 1..Len(recent) : EntryStored(i)
  /\ LinkProofMeansStored

LEMMA InboundInvTyped == InboundInv => InboundTypeOK
<1> SUFFICES ASSUME InboundInv PROVE InboundTypeOK
  OBVIOUS
<1>1. DOMAIN rows = 1..Len(rows) /\ DOMAIN recent = 1..Len(recent)
  BY LenProperties DEF InboundInv, RowsTyped
<1>2. /\ copy \in [Copies -> [at : Places, msg : Texts \cup Reactions, way : Ways,
                              seen : SUBSET Reactions, row : 0..Len(rows)]]
      /\ rows \in Seq([msg : Texts, count : Nat \ {0}, live : BOOLEAN,
                       reactions : SUBSET Reactions])
      /\ recent \in Seq([msg : Texts, row : DOMAIN rows, count : Nat \ {0}])
      /\ Len(recent) <= MaxRecent
      /\ proved \subseteq Texts \cup Reactions /\ stored \subseteq Texts
  BY <1>1 DEF InboundInv, RowsTyped, Handlers, MessageRows, Entries
<1>3. /\ \A i \in DOMAIN recent : rows[recent[i].row].msg = recent[i].msg
      /\ \A c \in Copies : At(c, "saved") =>
           copy[c].row # 0 /\ rows[copy[c].row].msg = copy[c].msg
  BY <1>1 DEF InboundInv, EntryStored, HandlerStored
<1>4. /\ {contact, saved} \subseteq [kind : {"none", "placeholder", "real"}, pinned : BOOLEAN]
      /\ beacon \in [Beacons -> [at : {"no", "loading", "done"}, pinned : BOOLEAN]]
      /\ taken \in [Texts -> Nat]
      /\ removed \in BOOLEAN /\ removing \in BOOLEAN /\ reloads \in Nat
  BY DEF InboundInv, AsideTyped, Contacts
<1> QED
  BY <1>2, <1>3, <1>4 DEF InboundTypeOK, Places

LEMMA InboundInitial == InboundInit => InboundInv
<1> SUFFICES ASSUME InboundInit PROVE InboundInv
  OBVIOUS
<1>1. Target \in Texts /\ MaxRecent \in Nat
  BY InboundAssumption
<1>2. AsideTyped
  BY DEF InboundInit, AsideTyped, Contacts, NoContact
<1>3. /\ rows \in Seq(MessageRows) /\ recent \in Seq(Entries(Len(rows)))
      /\ Len(rows) = 0 /\ Len(recent) = 0
  BY EmptySeq DEF InboundInit
<1>4. Away \in Handlers(0) /\ Away.at = "no"
  BY <1>1 DEF Away, Handlers, Places, Ways
<1>5. copy \in [Copies -> Handlers(Len(rows))] /\ \A c \in Copies : copy[c].at = "no"
  BY <1>3, <1>4 DEF InboundInit
<1>6. \A c \in Copies : HandlerStored(c)
  BY <1>5 DEF HandlerStored, At
<1> QED
  BY <1>1, <1>2, <1>3, <1>5, <1>6 DEF InboundInit, InboundInv, RowsTyped, LinkProofMeansStored

LEMMA AsideKept == AsideTyped /\ RowsTyped /\ [InboundNext]_inboundVars => AsideTyped'
<1> SUFFICES ASSUME AsideTyped, RowsTyped, [InboundNext]_inboundVars PROVE AsideTyped'
  OBVIOUS
<1> USE DEF AsideTyped
<1>1. ASSUME NEW c \in Copies, CopyStep(c) PROVE AsideTyped'
  <2>1. /\ UNCHANGED <<beacon, removed, removing, reloads>>
        /\ contact' \in Contacts /\ saved' \in Contacts
    <3>1. CASE Dispatch(c)
      <4>1. UNCHANGED <<beacon, removed, removing, reloads>>
        BY <3>1 DEF Dispatch, userVars
      <4>2. Placeholder \/ UNCHANGED <<contact, saved>>
        BY <3>1 DEF Dispatch
      <4>3. [kind |-> "placeholder", pinned |-> FALSE] \in Contacts
        BY DEF Contacts
      <4> QED
        BY <4>1, <4>2, <4>3 DEF Placeholder
    <3>2. CASE ~Dispatch(c)
      <4>1. UNCHANGED <<contact, saved, beacon, removed, removing, reloads>>
        BY <1>1, <3>2 DEF CopyStep, CopyArrives, Decrypted, ProveData, DispatchThrows, React,
           SaveMessage, EnterRecent, ProveLink, HandlerEnds, contactVars, userVars
      <4> QED
        BY <4>1
    <3> QED
      BY <3>1, <3>2
  <2>2. UNCHANGED taken \/ \E m : taken' = [taken EXCEPT ![m] = taken[m] + 1]
    <3>1. CASE SaveMessage(c)
      BY <3>1 DEF SaveMessage
    <3>2. CASE Dispatch(c)
      BY <3>2 DEF Dispatch, CountCopy
    <3> QED
      BY <1>1, <3>1, <3>2 DEF CopyStep, CopyArrives, Decrypted, ProveData, DispatchThrows, React,
                EnterRecent, ProveLink, HandlerEnds, historyVars
  <2>3. taken' \in [Texts -> Nat]
    BY <2>2
  <2> QED
    BY <2>1, <2>3
<1>2. ASSUME NEW b \in Beacons, AnnounceVerified(b) PROVE AsideTyped'
  BY <1>2 DEF AnnounceVerified, Contacts, historyVars, userVars
<1>3. ASSUME NEW b \in Beacons, UpsertContact(b) PROVE AsideTyped'
  <2>1. contact' \in Contacts /\ saved' = contact'
    BY <1>3 DEF UpsertContact, Contacts
  <2> QED
    BY <1>3, <2>1 DEF UpsertContact, historyVars, userVars
<1>4. ASSUME TogglePin PROVE AsideTyped'
  <2>1. contact' \in Contacts /\ saved' = contact'
    BY <1>4 DEF TogglePin, Contacts
  <2> QED
    BY <1>4, <2>1 DEF TogglePin, historyVars, userVars
<1>5. NoContact \in Contacts
  BY DEF NoContact, Contacts
<1>6. ASSUME RemoveContact PROVE AsideTyped'
  BY <1>5, <1>6 DEF RemoveContact, historyVars
<1>7. ASSUME ContactRemoved PROVE AsideTyped'
  BY <1>5, <1>7 DEF ContactRemoved, historyVars
<1>8. ASSUME InboundReload PROVE AsideTyped'
  <2>1. beacon' \in [Beacons -> [at : {"no", "loading", "done"}, pinned : BOOLEAN]]
    BY <1>8 DEF InboundReload
  <2>2. /\ contact' = saved /\ saved' = saved /\ taken' = taken
        /\ removed' = removed /\ removing' = FALSE /\ reloads' = reloads + 1
    BY <1>8 DEF InboundReload, historyVars
  <2>3. reloads' \in Nat
    BY <2>2
  <2> QED
    BY <2>1, <2>2, <2>3, Zenon
<1>9. CASE UNCHANGED inboundVars
  BY <1>9 DEF inboundVars
<1> QED
  BY <1>1, <1>2, <1>3, <1>4, <1>6, <1>7, <1>8, <1>9 DEF InboundNext

(* Rows are added and marked and keep their messages.                       *)
RowsGrow ==
  /\ rows' \in Seq(MessageRows) /\ Len(rows) <= Len(rows')
  /\ \A i \in 1..Len(rows) : rows'[i].msg = rows[i].msg
  /\ stored \subseteq stored' /\ stored' \subseteq Texts

LEMMA RowsOnlyGrow == InboundInv /\ [InboundNext]_inboundVars => RowsGrow
<1> SUFFICES ASSUME InboundInv, [InboundNext]_inboundVars PROVE RowsGrow
  OBVIOUS
<1>1. /\ rows \in Seq(MessageRows) /\ Len(rows) \in Nat
      /\ \A i \in 1..Len(rows) : rows[i] \in MessageRows
      /\ rows \in [1..Len(rows) -> MessageRows] /\ DOMAIN rows = 1..Len(rows)
      /\ stored \subseteq Texts
  BY LenProperties, ElementOfSeq DEF InboundInv, RowsTyped
<1>2. ASSUME UNCHANGED <<rows, stored>> PROVE RowsGrow
  BY <1>1, <1>2 DEF RowsGrow
<1>3. ASSUME NEW f \in [1..Len(rows) -> MessageRows], rows' = f, stored' = stored,
             \A i \in 1..Len(rows) : f[i].msg = rows[i].msg
      PROVE RowsGrow
  <2>1. f \in Seq(MessageRows)
    BY <1>1, SeqDef
  <2>2. Len(f) = Len(rows)
    BY <1>1, <2>1, LenProperties
  <2> QED
    BY <1>1, <1>3, <2>1, <2>2 DEF RowsGrow
<1>4. ASSUME NEW r \in 1..Len(rows), NEW x \in MessageRows, x.msg = rows[r].msg,
             rows' = [rows EXCEPT ![r] = x], stored' = stored
      PROVE RowsGrow
  <2> DEFINE f == [rows EXCEPT ![r] = x]
  <2>1. f \in [1..Len(rows) -> MessageRows] /\ \A i \in 1..Len(rows) : f[i].msg = rows[i].msg
    BY <1>1, <1>4
  <2>2. rows' = f
    BY <1>4
  <2> HIDE DEF f
  <2> QED
    BY <1>3, <1>4, <2>1, <2>2
<1>5. ASSUME NEW c \in Copies, CopyStep(c) PROVE RowsGrow
  <2>1. CASE SaveMessage(c)
    <3>1. copy[c].msg \in Texts
      BY <2>1 DEF SaveMessage, At, InboundInv, HandlerStored
    <3> DEFINE x == [msg |-> copy[c].msg, count |-> 1, live |-> TRUE, reactions |-> {}]
    <3>2. x \in MessageRows
      BY <3>1 DEF MessageRows
    <3>3. rows' = Append(rows, x) /\ stored' = stored \cup {copy[c].msg}
      BY <2>1 DEF SaveMessage
    <3> HIDE DEF x
    <3>4. /\ rows' \in Seq(MessageRows) /\ Len(rows') = Len(rows) + 1
          /\ \A i \in 1..Len(rows) : rows'[i] = rows[i]
      BY <1>1, <3>2, <3>3, AppendProperties
    <3> QED
      BY <1>1, <3>1, <3>3, <3>4 DEF RowsGrow
  <2>2. CASE React(c)
    <3>1. stored' = stored
      BY <2>2 DEF React, historyVars
    <3>2. /\ copy[c].row \in 0..Len(rows) /\ copy[c].seen \subseteq Reactions
          /\ copy[c].msg \in Reactions
      BY <2>2 DEF React, At, InboundInv, RowsTyped, Handlers, HandlerStored
    <3> DEFINE r == copy[c].row
               x == [rows[r] EXCEPT !.reactions = copy[c].seen \cup {copy[c].msg}]
    <3>3. rows' = [rows EXCEPT ![r] = x] \/ rows' = rows
      BY <2>2 DEF React
    <3>4. CASE r \in 1..Len(rows)
      <4>1. x \in MessageRows /\ x.msg = rows[r].msg
        BY <1>1, <3>2, <3>4 DEF MessageRows
      <4> QED
        <5> HIDE DEF x
        <5>1. PICK k \in 1..Len(rows) : k = r
          BY <3>4
        <5>2. rows' = [rows EXCEPT ![k] = x] \/ rows' = rows
          BY <3>3, <5>1
        <5>3. PICK y : y = x
          OBVIOUS
        <5>4. y \in MessageRows /\ y.msg = rows[k].msg
          BY <4>1, <5>1, <5>3
        <5> QED
          BY <1>2, <1>4, <3>1, <5>2, <5>3, <5>4
    <3>5. CASE r \notin 1..Len(rows)
      <4>1. rows' = rows
        BY <1>1, <3>3, <3>5
      <4> QED
        BY <1>2, <3>1, <4>1
    <3> QED
      BY <3>4, <3>5
  <2>3. CASE Dispatch(c)
    <3>1. stored' = stored
      BY <2>3 DEF Dispatch
    <3>2. CASE rows' = rows
      BY <1>2, <3>1, <3>2
    <3>3. CASE rows' # rows
      <4>1. PICK e \in RecentOf(copy[c].msg) : CountCopy(c, e)
        BY <2>3, <3>3 DEF Dispatch
      <4>2. e \in 1..Len(recent) /\ recent[e] \in Entries(Len(rows))
        BY <4>1, LenProperties, ElementOfSeq DEF InboundInv, RowsTyped, RecentOf
      <4>3. PICK r \in 1..Len(rows) : r = recent[e].row
        BY <4>2 DEF Entries
      <4>4. PICK k \in Nat \ {0} : k = recent[e].count + 1
        BY <4>2 DEF Entries
      <4>5. rows' = [rows EXCEPT ![r] = [rows[r] EXCEPT !.count = k]]
        BY <3>3, <4>1, <4>3, <4>4 DEF CountCopy
      <4>6. /\ [rows[r] EXCEPT !.count = k] \in MessageRows
            /\ [rows[r] EXCEPT !.count = k].msg = rows[r].msg
        BY <1>1 DEF MessageRows
      <4>7. PICK y \in MessageRows : y = [rows[r] EXCEPT !.count = k]
        BY <4>6
      <4> QED
        BY <1>4, <3>1, <4>5, <4>6, <4>7
    <3> QED
      BY <3>2, <3>3
  <2> QED
    BY <1>2, <1>5, <2>1, <2>2, <2>3 DEF CopyStep, CopyArrives, Decrypted, ProveData,
       DispatchThrows, EnterRecent, ProveLink, HandlerEnds, historyVars
<1>6. ASSUME RemoveContact PROVE RowsGrow
  <2> DEFINE f == [i \in DOMAIN rows |-> [rows[i] EXCEPT !.live = FALSE]]
  <2>1. \A i \in 1..Len(rows) : [rows[i] EXCEPT !.live = FALSE] \in MessageRows
    BY <1>1 DEF MessageRows
  <2>2. f \in [1..Len(rows) -> MessageRows]
    BY <1>1, <2>1
  <2>3. \A i \in 1..Len(rows) : f[i].msg = rows[i].msg
    BY <1>1 DEF MessageRows
  <2>4. rows' = f /\ stored' = stored
    BY <1>6 DEF RemoveContact, historyVars
  <2> HIDE DEF f
  <2> QED
    BY <1>3, <2>2, <2>3, <2>4
<1> QED
  BY <1>2, <1>5, <1>6 DEF InboundNext, AnnounceVerified, UpsertContact, TogglePin,
     ContactRemoved, InboundReload, inboundVars, historyVars

(* A handler fits what is stored.                                           *)
HandlerFits(h) ==
  /\ h \in Handlers(Len(rows'))
  /\ h.at = "react" => h.msg \in Reactions
  /\ h.at \in {"save", "saved"} => h.msg \in Texts
  /\ h.at = "saved" => h.row # 0 /\ rows'[h.row].msg = h.msg
  /\ h.at \in {"saved", "told"} /\ h.msg \in Texts => h.msg \in stored'

LEMMA HandlersAsIs ==
  ASSUME InboundInv, RowsGrow, NEW c \in Copies
  PROVE  HandlerFits(copy[c])
<1>1. Len(rows) \in Nat /\ Len(rows') \in Nat /\ Len(rows) <= Len(rows')
  BY LenProperties DEF InboundInv, RowsTyped, RowsGrow
<1>2. Handlers(Len(rows)) \subseteq Handlers(Len(rows'))
  BY <1>1 DEF Handlers
<1>3. copy[c] \in Handlers(Len(rows)) /\ HandlerStored(c)
  BY DEF InboundInv, RowsTyped
<1>4. copy[c].row \in 0..Len(rows)
  BY <1>3 DEF Handlers
<1>5. copy[c].row # 0 => rows'[copy[c].row].msg = rows[copy[c].row].msg
  BY <1>1, <1>4 DEF RowsGrow
<1>6. stored \subseteq stored'
  BY DEF RowsGrow
<1> QED
  BY <1>2, <1>3, <1>5, <1>6 DEF HandlerFits, HandlerStored, At

LEMMA HandlersKept ==
  ASSUME InboundInv, RowsGrow, [InboundNext]_inboundVars
  PROVE  /\ copy' \in [Copies -> Handlers(Len(rows'))]
         /\ \A c \in Copies : HandlerStored(c)'
<1>1. \A c \in Copies : HandlerFits(copy[c])
  BY HandlersAsIs
<1>2. SUFFICES copy' \in [Copies -> {h \in Handlers(Len(rows')) : HandlerFits(h)}]
  <2>1. \A c \in Copies : copy'[c] \in Handlers(Len(rows')) /\ HandlerFits(copy'[c])
    BY <1>2
  <2> QED
    BY <1>2, <2>1 DEF HandlerFits, HandlerStored, At
<1> DEFINE Fit == {h \in Handlers(Len(rows')) : HandlerFits(h)}
<1>3. copy \in [Copies -> Fit]
  BY <1>1 DEF InboundInv, RowsTyped, HandlerFits
<1>4. Target \in Texts /\ Len(rows) \in Nat /\ Len(rows') \in Nat /\ Texts \cap Reactions = {}
  BY LenProperties, InboundAssumption DEF InboundInv, RowsTyped, RowsGrow
<1>5. [Away EXCEPT !.at = "done"] \in Fit /\ Away \in Fit
  BY <1>4 DEF HandlerFits, Handlers, Places, Ways, Away
<1> DEFINE Goal == copy' \in [Copies -> Fit]
<1>6. ASSUME NEW c \in Copies, NEW h \in Fit, copy' = [copy EXCEPT ![c] = h] PROVE Goal
  <2> HIDE DEF Fit
  <2> QED
    BY <1>3, <1>6
<1>7. ASSUME NEW c \in Copies, Ends(c) PROVE Goal
  <2> HIDE DEF Fit, Goal
  <2>1. PICK h \in Fit : h = [Away EXCEPT !.at = "done"]
    BY <1>5
  <2> QED
    BY <1>6, <1>7, <2>1 DEF Ends
<1>8. ASSUME NEW c \in Copies, NEW place \in Places, Goes(c, place),
             [copy[c] EXCEPT !.at = place] \in Fit
      PROVE Goal
  <2> HIDE DEF Fit, Goal
  <2>1. PICK h \in Fit : h = [copy[c] EXCEPT !.at = place]
    BY <1>8
  <2>2. copy' = [copy EXCEPT ![c] = h]
    BY <1>8, <2>1 DEF Goes
  <2> QED
    BY <1>6, <2>2
<1>9. ASSUME NEW c \in Copies, CopyStep(c) PROVE Goal
  <2>1. copy[c] \in Fit /\ HandlerFits(copy[c])
    BY <1>1, <1>3
  <2> HIDE DEF Goal
  <2>2. CASE CopyArrives(c)
    <3>1. PICK m \in Texts \cup Reactions, w \in Ways :
            copy' = [copy EXCEPT ![c] =
              [Away EXCEPT !.at = IF w = "sync" THEN "unpack" ELSE "decrypt",
                           !.msg = m, !.way = w]]
      BY <2>2 DEF CopyArrives
    <3>2. PICK p \in {"unpack", "decrypt"} : p = IF w = "sync" THEN "unpack" ELSE "decrypt"
      OBVIOUS
    <3>3. PICK h : h = [Away EXCEPT !.at = p, !.msg = m, !.way = w]
      OBVIOUS
    <3>4. h \in Fit
      <4>1. h = [at |-> p, msg |-> m, way |-> w, seen |-> {}, row |-> 0]
        BY <3>3 DEF Away
      <4>2. h \in Handlers(Len(rows'))
        BY <1>4, <4>1 DEF Handlers, Places
      <4> QED
        BY <4>1, <4>2 DEF HandlerFits
    <3>5. copy' = [copy EXCEPT ![c] = h]
      BY <3>1, <3>2, <3>3
    <3> QED
      BY <1>6, <3>4, <3>5
  <2>3. CASE Decrypted(c)
    <3>1. ASSUME NEW p \in {"proof", "unpack"} PROVE [copy[c] EXCEPT !.at = p] \in Fit
      BY <2>1, <3>1 DEF HandlerFits, Handlers, Places
    <3>2. Ends(c) \/ \E p \in {"proof", "unpack"} : Goes(c, p)
      BY <2>3 DEF Decrypted
    <3> QED
      <4> HIDE DEF Fit
      <4> QED
        BY <1>7, <1>8, <3>1, <3>2 DEF Places
  <2>4. CASE ProveData(c)
    <3>1. [copy[c] EXCEPT !.at = "unpack"] \in Fit
      BY <2>1 DEF HandlerFits, Handlers, Places
    <3> QED
      <4> HIDE DEF Fit
      <4> QED
        BY <1>8, <2>4, <3>1 DEF Places, ProveData
  <2>5. CASE Dispatch(c)
    <3>1. CASE copy[c].msg \in Reactions
      <4>1. [copy[c] EXCEPT !.at = "told"] \in Fit
        BY <1>4, <2>1, <3>1 DEF HandlerFits, Handlers, Places
      <4>2. CASE Goes(c, "told")
        <5> HIDE DEF Fit
        <5> QED
          BY <1>8, <4>1, <4>2 DEF Places
      <4>3. CASE ~Goes(c, "told")
        <5>1. PICK r \in RowsOf(Target) :
                 copy' = [copy EXCEPT ![c].at = "react", ![c].row = r,
                                      ![c].seen = rows[r].reactions]
          BY <1>4, <3>1, <4>3, <2>5 DEF Dispatch
        <5>2. r \in 1..Len(rows) /\ rows[r] \in MessageRows
          BY LenProperties, ElementOfSeq DEF InboundInv, RowsTyped, RowsOf
        <5>3. r \in 0..Len(rows') /\ rows[r].reactions \subseteq Reactions
          BY <1>4, <5>2 DEF MessageRows, RowsGrow
        <5>4. PICK h : h = [copy[c] EXCEPT !.at = "react", !.row = r, !.seen = rows[r].reactions]
          OBVIOUS
        <5>5. h \in Fit
          BY <2>1, <3>1, <5>3, <5>4 DEF HandlerFits, Handlers, Places
        <5>6. copy' = [copy EXCEPT ![c] = h]
          BY <1>3, <5>1, <5>4
        <5> QED
          BY <1>6, <5>5, <5>6
      <4> QED
        BY <4>2, <4>3
    <3>2. CASE copy[c].msg \in Texts
      <4>1. CASE \E e \in RecentOf(copy[c].msg) : CountCopy(c, e)
        <5>1. copy[c].msg \in stored /\ Goes(c, "told")
          BY <4>1, LenProperties DEF CountCopy, RecentOf, InboundInv, RowsTyped, EntryStored
        <5>2. [copy[c] EXCEPT !.at = "told"] \in Fit
          BY <2>1, <5>1 DEF HandlerFits, Handlers, Places, RowsGrow
        <5> HIDE DEF Fit
        <5> QED
          BY <1>8, <5>1, <5>2 DEF Places
      <4>2. CASE Goes(c, "save")
        <5>1. [copy[c] EXCEPT !.at = "save"] \in Fit
          BY <2>1, <3>2 DEF HandlerFits, Handlers, Places
        <5> HIDE DEF Fit
        <5> QED
          BY <1>8, <4>2, <5>1 DEF Places
      <4> QED
        BY <1>4, <2>5, <3>2, <4>1, <4>2 DEF Dispatch
    <3> QED
      BY <2>5, <3>1, <3>2 DEF Dispatch
  <2>6. CASE React(c)
    <3>1. [copy[c] EXCEPT !.at = "told"] \in Fit
      BY <1>4, <2>1, <2>6 DEF HandlerFits, Handlers, Places, React, At
    <3> QED
      <4> HIDE DEF Fit
      <4> QED
        BY <1>8, <2>6, <3>1 DEF Places, React
  <2>7. CASE SaveMessage(c)
    <3> DEFINE x == [msg |-> copy[c].msg, count |-> 1, live |-> TRUE, reactions |-> {}]
    <3>1. copy[c].msg \in Texts /\ x \in MessageRows
      BY <2>1, <2>7 DEF HandlerFits, SaveMessage, At, MessageRows
    <3>2. rows' = Append(rows, x) /\ copy[c].msg \in stored'
      BY <2>7 DEF SaveMessage
    <3>3. x.msg = copy[c].msg
      OBVIOUS
    <3> HIDE DEF x
    <3>4. Len(rows') = Len(rows) + 1 /\ rows'[Len(rows) + 1] = x
      BY <3>1, <3>2, AppendProperties DEF InboundInv, RowsTyped
    <3>5. PICK k \in Nat : k = Len(rows) + 1
      BY <1>4
    <3>6. PICK h : h = [copy[c] EXCEPT !.at = "saved", !.row = k]
      OBVIOUS
    <3>7. k # 0 /\ k \in 0..Len(rows') /\ rows'[k].msg = copy[c].msg
      BY <1>4, <3>3, <3>4, <3>5
    <3>8. h \in Fit
      BY <2>1, <3>1, <3>2, <3>6, <3>7 DEF HandlerFits, Handlers, Places
    <3>9. copy' = [copy EXCEPT ![c] = h]
      BY <1>3, <2>7, <3>5, <3>6 DEF SaveMessage
    <3> QED
      BY <1>6, <3>8, <3>9
  <2>8. CASE EnterRecent(c)
    <3>1. [copy[c] EXCEPT !.at = "told"] \in Fit
      BY <2>1, <2>8 DEF HandlerFits, Handlers, Places, EnterRecent, At
    <3> QED
      <4> HIDE DEF Fit
      <4> QED
        BY <1>8, <2>8, <3>1 DEF Places, EnterRecent
  <2> QED
    BY <1>7, <1>9, <2>2, <2>3, <2>4, <2>5, <2>6, <2>7, <2>8
       DEF CopyStep, DispatchThrows, ProveLink, HandlerEnds
<1>10. ASSUME copy' = copy PROVE Goal
  BY <1>3, <1>10
<1>11. ASSUME InboundReload PROVE Goal
  <2> HIDE DEF Fit
  <2>1. PICK d \in Fit : d = [Away EXCEPT !.at = "done"]
    BY <1>5
  <2>2. copy' = [c \in Copies |-> IF At(c, "no") THEN Away ELSE d]
    BY <1>11, <2>1 DEF InboundReload
  <2> QED
    BY <1>5, <2>2
<1> QED
  <2> HIDE DEF Goal
  <2>1. Goal
    BY <1>9, <1>10, <1>11 DEF InboundNext, AnnounceVerified, UpsertContact, TogglePin,
       RemoveContact, ContactRemoved, inboundVars
  <2> QED
    BY <2>1 DEF Goal

LEMMA RecentKept ==
  ASSUME InboundInv, RowsGrow, [InboundNext]_inboundVars
  PROVE  /\ recent' \in Seq(Entries(Len(rows'))) /\ Len(recent') <= MaxRecent
         /\ \A i \in 1..Len(recent') : EntryStored(i)'
<1> DEFINE Standing == {e \in Entries(Len(rows')) :
                      e.msg \in stored' /\ rows'[e.row].msg = e.msg}
<1>1. /\ Len(rows) \in Nat /\ Len(rows') \in Nat /\ Len(recent) \in Nat
      /\ MaxRecent \in Nat \ {0} /\ DOMAIN recent = 1..Len(recent)
      /\ Len(recent) <= MaxRecent
  BY LenProperties, InboundAssumption DEF InboundInv, RowsTyped, RowsGrow
<1>2. \A i \in 1..Len(recent) : recent[i] \in Standing
  <2> SUFFICES ASSUME NEW i \in 1..Len(recent) PROVE recent[i] \in Standing
    OBVIOUS
  <2>1. recent[i] \in Entries(Len(rows)) /\ EntryStored(i)
    BY ElementOfSeq DEF InboundInv, RowsTyped
  <2>2. recent[i].row \in 1..Len(rows) /\ recent[i] \in Entries(Len(rows'))
    BY <1>1, <2>1 DEF Entries, RowsGrow
  <2> QED
    BY <2>1, <2>2 DEF EntryStored, RowsGrow
<1>3. recent \in [1..Len(recent) -> Standing]
  BY <1>2, LenProperties DEF InboundInv, RowsTyped
<1>4. recent \in Seq(Standing)
  <2> HIDE DEF Standing
  <2> QED
    BY <1>1, <1>3, SeqDef
<1>5. SUFFICES recent' \in Seq(Standing) /\ Len(recent') <= MaxRecent
  <2>1. Standing \subseteq Entries(Len(rows'))
    OBVIOUS
  <2>2. recent' \in Seq(Entries(Len(rows')))
    <3> HIDE DEF Standing
    <3> QED
      BY <1>5, <2>1, SeqMonotonic
  <2>3. \A i \in 1..Len(recent') : recent'[i] \in Standing
    <3> HIDE DEF Standing
    <3> QED
      BY <1>5, ElementOfSeq
  <2> QED
    BY <1>5, <2>2, <2>3 DEF EntryStored
<1> DEFINE Goal == recent' \in Seq(Standing) /\ Len(recent') <= MaxRecent
<1>6. CASE recent' = recent
  BY <1>1, <1>4, <1>6
<1>7. CASE recent' = <<>>
  <2> HIDE DEF Standing
  <2> QED
    BY <1>1, <1>7, EmptySeq
<1>8. ASSUME NEW c \in Copies, CopyStep(c) PROVE Goal
  <2>1. CASE Dispatch(c)
    <3>1. CASE recent' # recent
      <4>1. PICK e \in RecentOf(copy[c].msg) : CountCopy(c, e)
        BY <2>1, <3>1 DEF Dispatch
      <4>2. e \in 1..Len(recent) /\ recent[e] \in Standing
        BY <1>1, <1>2, <4>1 DEF RecentOf
      <4>3. PICK k \in Nat \ {0} : k = recent[e].count + 1
        BY <4>2 DEF Entries
      <4>4. PICK x : x = [recent[e] EXCEPT !.count = k]
        OBVIOUS
      <4>5. x \in Standing
        BY <4>2, <4>4 DEF Entries
      <4>6. recent' = [recent EXCEPT ![e] = x]
        BY <4>1, <4>3, <4>4 DEF CountCopy, Counted
      <4> HIDE DEF Standing
      <4> QED
        BY <1>1, <1>4, <4>2, <4>5, <4>6, ExceptSeq
    <3> QED
      BY <1>6, <3>1
  <2>2. CASE EnterRecent(c)
    <3> DEFINE entry == [msg |-> copy[c].msg, row |-> copy[c].row, count |-> 1]
    <3>1. /\ copy[c].at = "saved" /\ copy[c].msg \in Texts /\ copy[c].row # 0
          /\ rows[copy[c].row].msg = copy[c].msg /\ copy[c].msg \in stored
          /\ copy[c].row \in 0..Len(rows)
      BY <2>2 DEF EnterRecent, At, InboundInv, HandlerStored, RowsTyped, Handlers
    <3>2. copy[c].row \in 1..Len(rows) /\ copy[c].row \in 1..Len(rows')
      BY <1>1, <3>1 DEF RowsGrow
    <3>3. entry \in Standing
      BY <3>1, <3>2 DEF RowsGrow, Entries
    <3>4. recent' = IF RecentOf(copy[c].msg) = {} THEN Newest(Append(recent, entry))
                    ELSE [i \in DOMAIN recent |->
                            IF recent[i].msg = copy[c].msg THEN entry ELSE recent[i]]
      BY <2>2 DEF EnterRecent
    <3> HIDE DEF entry, Standing
    <3>5. CASE RecentOf(copy[c].msg) = {}
      <4>1. PICK s : s = Append(recent, entry)
        OBVIOUS
      <4>2. s \in Seq(Standing) /\ Len(s) = Len(recent) + 1 /\ s # <<>>
        BY <1>1, <1>4, <3>3, <4>1, AppendProperties
      <4>3. Tail(s) \in Seq(Standing) /\ Len(Tail(s)) = Len(s) - 1
        BY <4>2, HeadTailProperties
      <4>4. recent' = IF Len(s) > MaxRecent THEN Tail(s) ELSE s
        BY <3>4, <3>5, <4>1 DEF Newest
      <4> QED
        BY <1>1, <4>2, <4>3, <4>4
    <3>6. CASE RecentOf(copy[c].msg) # {}
      <4>1. recent' \in [1..Len(recent) -> Standing]
        BY <1>1, <1>2, <3>3, <3>4, <3>6
      <4>2. recent' \in Seq(Standing)
        BY <1>1, <4>1, SeqDef
      <4>3. Len(recent') = Len(recent)
        BY <1>1, <4>1, <4>2, LenProperties
      <4> QED
        BY <1>1, <4>2, <4>3
    <3> QED
      BY <3>5, <3>6
  <2> QED
    BY <1>6, <1>8, <2>1, <2>2 DEF CopyStep, CopyArrives, Decrypted, ProveData,
       DispatchThrows, React, SaveMessage, ProveLink, HandlerEnds
<1> QED
  BY <1>6, <1>7, <1>8 DEF InboundNext, AnnounceVerified, UpsertContact, TogglePin,
     RemoveContact, ContactRemoved, InboundReload, inboundVars

LEMMA InboundInvStep == InboundInv /\ [InboundNext]_inboundVars => InboundInv'
<1> SUFFICES ASSUME InboundInv, [InboundNext]_inboundVars PROVE InboundInv'
  OBVIOUS
<1>1. RowsGrow
  BY RowsOnlyGrow
<1>2. AsideTyped'
  BY AsideKept DEF InboundInv
<1>3. /\ copy' \in [Copies -> Handlers(Len(rows'))]
      /\ \A c \in Copies : HandlerStored(c)'
  BY <1>1, HandlersKept
<1>4. /\ recent' \in Seq(Entries(Len(rows'))) /\ Len(recent') <= MaxRecent
      /\ \A i \in 1..Len(recent') : EntryStored(i)'
  BY <1>1, RecentKept
<1>5. /\ proved' \subseteq Texts \cup Reactions
      /\ \A m \in Texts : m \in proved' => m \in stored'
  <2>1. CASE \E c \in Copies : ProveLink(c)
    <3>1. PICK c \in Copies : ProveLink(c)
      BY <2>1
    <3>2. copy[c].at = "told" /\ proved' \subseteq proved \cup {copy[c].msg}
      BY <3>1 DEF ProveLink, ReadyToProve, At
    <3>3. HandlerStored(c) /\ copy[c].msg \in Texts \cup Reactions
      BY DEF InboundInv, RowsTyped, Handlers
    <3> QED
      BY <1>1, <3>2, <3>3 DEF InboundInv, RowsTyped, HandlerStored, LinkProofMeansStored, RowsGrow
  <2>2. CASE ~\E c \in Copies : ProveLink(c)
    <3>1. proved' = proved
      BY <2>2 DEF InboundNext, CopyStep, CopyArrives, Decrypted, ProveData, Dispatch,
         DispatchThrows, React, SaveMessage, EnterRecent, HandlerEnds, AnnounceVerified,
         UpsertContact, TogglePin, RemoveContact, ContactRemoved, InboundReload,
         inboundVars, historyVars
    <3> QED
      BY <1>1, <3>1 DEF InboundInv, RowsTyped, LinkProofMeansStored, RowsGrow
  <2> QED
    BY <2>1, <2>2
<1> QED
  BY <1>1, <1>2, <1>3, <1>4, <1>5 DEF InboundInv, RowsTyped, RowsGrow, LinkProofMeansStored

(* What came over a link is proved to its sender only when it was stored;   *)
(* and handlers, rows and recent messages are well typed, every entry and   *)
(* every handler that wrote a row naming a row of its message (js/app.js,   *)
(* handleLinkData, dispatchIncomingMessage).                                *)
THEOREM StoredCorrect == InboundSpec => [](InboundTypeOK /\ LinkProofMeansStored)
<1>1. InboundInv => InboundTypeOK /\ LinkProofMeansStored
  BY InboundInvTyped DEF InboundInv
<1> QED
  BY <1>1, InboundInitial, InboundInvStep, PTL DEF InboundSpec

(***************************************************************************)
(* The counts. Until a conversation is removed every row is live; an entry  *)
(* has the count of its row, and is the only one of its message; and a      *)
(* handler that has saved a row and not entered it yet has it to itself.    *)
(***************************************************************************)
EntriesCount ==
  /\ \A i \in 1..Len(recent) : rows[recent[i].row].count = recent[i].count
  /\ \A i, j \in 1..Len(recent) : recent[i].msg = recent[j].msg => i = j

SavedAlone ==
  /\ \A c \in Copies : At(c, "saved") => rows[copy[c].row].count = 1
  /\ \A c \in Copies, i \in 1..Len(recent) : At(c, "saved") => recent[i].row # copy[c].row
  /\ \A c, d \in Copies : At(c, "saved") /\ At(d, "saved") /\ c # d => copy[c].row # copy[d].row

AllLive == \A i \in 1..Len(rows) : rows[i].live

AllCounted ==
  \A m \in Texts : IsFiniteSet(CopiesShown(m)) /\ Cardinality(CopiesShown(m)) = taken[m]

CountInv == ~removed => AllLive /\ EntriesCount /\ SavedAlone /\ AllCounted

(* The same of any rows: what they show of a message.                       *)
Shown(s, m) ==
  {p \in (1..Len(s)) \X Nat : s[p[1]].live /\ s[p[1]].msg = m /\ 1 <= p[2] /\ p[2] <= s[p[1]].count}

LEMMA RowsShow ==
  ASSUME NEW s \in Seq(MessageRows), NEW m
  PROVE  UNION {{i} \X (1..s[i].count) : i \in {j \in DOMAIN s : s[j].live /\ s[j].msg = m}}
         = Shown(s, m)
<1> DEFINE Of == {i \in DOMAIN s : s[i].live /\ s[i].msg = m}
           All == UNION {{i} \X (1..s[i].count) : i \in Of}
<1> SUFFICES All = Shown(s, m)
  OBVIOUS
<1>1. DOMAIN s = 1..Len(s) /\ \A i \in 1..Len(s) : s[i].count \in Nat
  <2>1. DOMAIN s = 1..Len(s) /\ \A i \in 1..Len(s) : s[i] \in MessageRows
    BY LenProperties, ElementOfSeq
  <2> QED
    BY <2>1 DEF MessageRows
<1>2. ASSUME NEW p \in All PROVE p \in Shown(s, m)
  <2>1. PICK i \in Of : p \in {i} \X (1..s[i].count)
    BY <1>2
  <2>2. i \in 1..Len(s) /\ s[i].live /\ s[i].msg = m /\ s[i].count \in Nat
    BY <1>1, <2>1
  <2>3. PICK k \in Nat : p = <<i, k>> /\ 1 <= k /\ k <= s[i].count
    BY <2>1, <2>2
  <2> QED
    BY <2>2, <2>3 DEF Shown
<1>3. ASSUME NEW p \in Shown(s, m) PROVE p \in All
  <2>1. PICK i \in 1..Len(s), k \in Nat : p = <<i, k>>
    BY <1>3 DEF Shown
  <2>2. s[i].live /\ s[i].msg = m /\ 1 <= k /\ k <= s[i].count
    BY <1>3, <2>1 DEF Shown
  <2>3. i \in Of /\ p \in {i} \X (1..s[i].count)
    BY <1>1, <2>1, <2>2
  <2> QED
    BY <2>3
<1> QED
  BY <1>2, <1>3

LEMMA ShownByRows ==
  /\ rows \in Seq(MessageRows) => \A m \in Texts : CopiesShown(m) = Shown(rows, m)
  /\ rows' \in Seq(MessageRows) => \A m \in Texts : CopiesShown(m)' = Shown(rows', m)
  BY RowsShow DEF CopiesShown, RowsOf

(* Rows that differ in their reactions only show the same.                  *)
LEMMA SameShown ==
  ASSUME NEW s \in Seq(MessageRows), NEW t \in Seq(MessageRows), Len(s) = Len(t),
         \A i \in 1..Len(s) : /\ t[i].live = s[i].live /\ t[i].msg = s[i].msg
                              /\ t[i].count = s[i].count,
         NEW m \in Texts
  PROVE  Shown(t, m) = Shown(s, m)
  BY DEF Shown

(* A row that is counted once more shows one more copy of its message.      *)
LEMMA OneMoreCounted ==
  ASSUME NEW s \in Seq(MessageRows), NEW r, r \in 1..Len(s), s[r].live,
         NEW t \in Seq(MessageRows), Len(t) = Len(s),
         \A i \in 1..Len(s) : i # r => t[i] = s[i],
         t[r].live, t[r].msg = s[r].msg, t[r].count = s[r].count + 1,
         NEW m \in Texts
  PROVE  /\ s[r].msg # m => Shown(t, m) = Shown(s, m)
         /\ s[r].msg = m => /\ Shown(t, m) = Shown(s, m) \cup {<<r, s[r].count + 1>>}
                            /\ <<r, s[r].count + 1>> \notin Shown(s, m)
<1>1. \A i \in 1..Len(s) : s[i] \in MessageRows
  BY ElementOfSeq
<1>2. /\ \A i \in 1..Len(s) : s[i].count \in Nat /\ t[i].msg = s[i].msg
      /\ \A i \in 1..Len(s) : t[i].live <=> s[i].live
  BY <1>1 DEF MessageRows
<1>3. t[r].count = s[r].count + 1 /\ \A i \in 1..Len(s) : i # r => t[i].count = s[i].count
  OBVIOUS
<1> DEFINE k == s[r].count + 1
<1>4. k \in Nat /\ 1 <= k /\ \A n \in Nat : n <= k <=> (n <= s[r].count \/ n = k)
  BY <1>2
<1>5. CASE s[r].msg # m
  <2>1. \A i \in 1..Len(s), n \in Nat :
          /\ t[i].live /\ t[i].msg = m /\ 1 <= n /\ n <= t[i].count
             <=> s[i].live /\ s[i].msg = m /\ 1 <= n /\ n <= s[i].count
    BY <1>2, <1>3, <1>5
  <2> QED
    BY <1>5, <2>1 DEF Shown
<1>6. CASE s[r].msg = m
  <2>1. \A i \in 1..Len(s), n \in Nat :
          /\ (t[i].live /\ t[i].msg = m /\ 1 <= n /\ n <= t[i].count)
             <=> ((s[i].live /\ s[i].msg = m /\ 1 <= n /\ n <= s[i].count) \/ (i = r /\ n = k))
    <3> SUFFICES ASSUME NEW i \in 1..Len(s), NEW n \in Nat
                 PROVE (t[i].live /\ t[i].msg = m /\ 1 <= n /\ n <= t[i].count)
             <=> ((s[i].live /\ s[i].msg = m /\ 1 <= n /\ n <= s[i].count) \/ (i = r /\ n = k))
      OBVIOUS
    <3>1. CASE i # r
      BY <1>2, <1>3, <3>1
    <3>2. CASE i = r
      <4>1. t[i].live /\ t[i].msg = m /\ s[i].live /\ s[i].msg = m
        BY <1>2, <1>6, <3>2
      <4>2. t[i].count = k /\ s[i].count = s[r].count
        BY <1>3, <3>2
      <4> HIDE DEF k
      <4>3. n <= k <=> (n <= s[r].count \/ n = k)
        BY <1>4
      <4>4. n = k => 1 <= n
        BY <1>4
      <4> QED
        BY <3>2, <4>1, <4>2, <4>3, <4>4
    <3> QED
      BY <3>1, <3>2
  <2> HIDE DEF k
  <2>2. <<r, k>> \notin Shown(s, m)
    <3>1. ~(k <= s[r].count)
      BY <1>2 DEF k
    <3> QED
      BY <3>1 DEF Shown
  <2>3. Shown(t, m) = Shown(s, m) \cup {<<r, k>>}
    BY <1>4, <2>1 DEF Shown
  <2> QED
    BY <1>6, <2>2, <2>3 DEF k
<1> QED
  BY <1>5, <1>6

(* A row that is added shows one copy.                                      *)
LEMMA OneMoreRow ==
  ASSUME NEW s \in Seq(MessageRows), NEW x \in MessageRows, x.live, x.count = 1,
         NEW m \in Texts
  PROVE  /\ x.msg # m => Shown(Append(s, x), m) = Shown(s, m)
         /\ x.msg = m => /\ Shown(Append(s, x), m) = Shown(s, m) \cup {<<Len(s) + 1, 1>>}
                         /\ <<Len(s) + 1, 1>> \notin Shown(s, m)
<1> DEFINE t == Append(s, x)  k == Len(s) + 1
<1>1. /\ Len(s) \in Nat /\ Len(t) = k /\ t[k] = x /\ k \in Nat /\ k \in 1..k
      /\ \A i \in 1..Len(s) : t[i] = s[i]
  BY LenProperties, AppendProperties
<1>2. \A i : i \in 1..k <=> (i \in 1..Len(s) \/ i = k)
  BY <1>1
<1>3. k \notin 1..Len(s) /\ 1 \in Nat /\ 1 <= 1 /\ \A n \in Nat : (1 <= n /\ n <= 1) <=> n = 1
  BY <1>1
<1> HIDE DEF t, k
<1>4. \A i \in 1..k, n \in Nat :
        (t[i].live /\ t[i].msg = m /\ 1 <= n /\ n <= t[i].count)
         <=> ((i \in 1..Len(s) /\ s[i].live /\ s[i].msg = m /\ 1 <= n /\ n <= s[i].count)
              \/ (i = k /\ n = 1 /\ x.msg = m))
  BY <1>1, <1>2, <1>3
<1>5. CASE x.msg # m
  BY <1>1, <1>2, <1>4, <1>5 DEF Shown, t
<1>6. CASE x.msg = m
  <2>1. Shown(t, m) = Shown(s, m) \cup {<<k, 1>>}
    BY <1>1, <1>2, <1>3, <1>4, <1>6 DEF Shown
  <2>2. <<k, 1>> \notin Shown(s, m)
    BY <1>3 DEF Shown
  <2> QED
    BY <1>6, <2>1, <2>2 DEF t, k
<1> QED
  BY <1>5, <1>6

(* What a step does to what is shown: nothing, or one copy more of one      *)
(* message.                                                                 *)
LEMMA OneMore ==
  ASSUME AllCounted, AsideTyped, NEW m \in Texts, taken' = [taken EXCEPT ![m] = taken[m] + 1],
         NEW p, p \notin CopiesShown(m), CopiesShown(m)' = CopiesShown(m) \cup {p},
         \A n \in Texts : n # m => CopiesShown(n)' = CopiesShown(n)
  PROVE  AllCounted'
<1> SUFFICES ASSUME NEW n \in Texts
             PROVE  /\ IsFiniteSet(CopiesShown(n)')
                    /\ Cardinality(CopiesShown(n)') = taken'[n]
  BY DEF AllCounted
<1>1. /\ IsFiniteSet(CopiesShown(n)) /\ Cardinality(CopiesShown(n)) = taken[n]
      /\ taken \in [Texts -> Nat]
  BY DEF AllCounted, AsideTyped
<1>2. CASE n # m
  BY <1>1, <1>2
<1>3. CASE n = m
  <2>1. PICK S : S = CopiesShown(n)
    OBVIOUS
  <2>2. PICK T : T = CopiesShown(n)'
    OBVIOUS
  <2>3. T = S \cup {p} /\ p \notin S /\ IsFiniteSet(S) /\ Cardinality(S) = taken[n]
    BY <1>1, <1>3, <2>1, <2>2
  <2>4. IsFiniteSet(T) /\ Cardinality(T) = taken[n] + 1
    BY <2>3, FS_AddElement
  <2>5. taken'[n] = taken[n] + 1
    BY <1>1, <1>3
  <2> QED
    BY <2>2, <2>4, <2>5
<1> QED
  BY <1>2, <1>3

LEMMA CountInitial == InboundInit => CountInv
<1> SUFFICES ASSUME InboundInit PROVE CountInv
  OBVIOUS
<1>1. rows = <<>> /\ recent = <<>> /\ Len(rows) = 0 /\ Len(recent) = 0
  BY EmptySeq DEF InboundInit
<1>2. \A c \in Copies : ~At(c, "saved")
  BY DEF InboundInit, At, Away
<1>3. rows \in Seq(MessageRows)
  BY <1>1, EmptySeq
<1>4. \A m \in Texts : CopiesShown(m) = {} /\ taken[m] = 0
  <2>1. \A m \in Texts : Shown(rows, m) = {}
    BY <1>1 DEF Shown
  <2>2. \A m \in Texts : CopiesShown(m) = Shown(rows, m)
    BY <1>3, ShownByRows
  <2>3. \A m \in Texts : taken[m] = 0
    BY DEF InboundInit
  <2> QED
    BY <2>1, <2>2, <2>3
<1>5. AllCounted
  BY <1>4, FS_EmptySet DEF AllCounted
<1> QED
  BY <1>1, <1>2, <1>5 DEF CountInv, AllLive, EntriesCount, SavedAlone

(* What the invariants say of rows, entries and handlers, in one place.     *)
LEMMA CountFacts ==
  ASSUME InboundInv
  PROVE  /\ rows \in Seq(MessageRows) /\ Len(rows) \in Nat /\ DOMAIN rows = 1..Len(rows)
         /\ Len(recent) \in Nat /\ DOMAIN recent = 1..Len(recent)
         /\ \A i \in 1..Len(rows) : rows[i] \in MessageRows
         /\ \A i \in 1..Len(recent) : /\ recent[i] \in Entries(Len(rows))
                                      /\ rows[recent[i].row].msg = recent[i].msg
         /\ \A c \in Copies : At(c, "saved") =>
              /\ copy[c].row \in 1..Len(rows) /\ copy[c].msg \in Texts
              /\ rows[copy[c].row].msg = copy[c].msg
<1>1. /\ rows \in Seq(MessageRows) /\ Len(rows) \in Nat /\ DOMAIN rows = 1..Len(rows)
      /\ Len(recent) \in Nat /\ DOMAIN recent = 1..Len(recent)
      /\ \A i \in 1..Len(rows) : rows[i] \in MessageRows
      /\ \A i \in 1..Len(recent) : recent[i] \in Entries(Len(rows))
  BY LenProperties, ElementOfSeq DEF InboundInv, RowsTyped
<1>2. \A i \in 1..Len(recent) : rows[recent[i].row].msg = recent[i].msg
  BY DEF InboundInv, EntryStored
<1>3. ASSUME NEW c \in Copies, At(c, "saved")
      PROVE  /\ copy[c].row \in 1..Len(rows) /\ copy[c].msg \in Texts
             /\ rows[copy[c].row].msg = copy[c].msg
  <2>1. HandlerStored(c) /\ copy[c] \in Handlers(Len(rows))
    BY DEF InboundInv, RowsTyped
  <2>2. copy[c].row \in 0..Len(rows) /\ copy[c].row # 0
    BY <1>3, <2>1 DEF Handlers, HandlerStored
  <2>3. copy[c].row \in 1..Len(rows)
    BY <1>1, <2>2
  <2> QED
    BY <1>3, <2>1, <2>3 DEF HandlerStored, At
<1> QED
  BY <1>1, <1>2, <1>3

(* Handlers that go on hold no row they did not hold.                       *)
SavedStay ==
  \A c \in Copies : copy'[c].at = "saved" =>
    copy[c].at = "saved" /\ copy'[c].row = copy[c].row

(* A step that only moves handlers, or empties the map, keeps the counts.   *)
LEMMA StillCounted ==
  ASSUME CountInv, SavedStay, UNCHANGED <<rows, taken, removed>>,
         recent' = recent \/ recent' = <<>>
  PROVE  CountInv'
<1> SUFFICES ASSUME ~removed PROVE CountInv'
  BY DEF CountInv
<1>1. AllLive /\ EntriesCount /\ SavedAlone /\ AllCounted
  BY DEF CountInv
<1>2. AllLive'
  BY <1>1 DEF AllLive
<1>3. AllCounted'
  BY <1>1 DEF AllCounted, CopiesShown, RowsOf
<1>4. CASE recent' = recent
  BY <1>1, <1>2, <1>3, <1>4 DEF CountInv, EntriesCount, SavedAlone, SavedStay, At
<1>5. CASE recent' = <<>>
  <2>1. 1..Len(recent') = {}
    BY <1>5, EmptySeq
  <2> QED
    BY <1>1, <1>2, <1>3, <2>1 DEF CountInv, EntriesCount, SavedAlone, SavedStay, At
<1> QED
  BY <1>4, <1>5

(* One more copy of an entry: its row, which has no other entry and no      *)
(* handler that saved it, counts once more.                                 *)
LEMMA CountCopyCounted ==
  ASSUME InboundInv, RowsGrow, CountInv, NEW c \in Copies, NEW e \in RecentOf(copy[c].msg),
         copy[c].msg \in Texts, CountCopy(c, e), UNCHANGED removed,
         recent' \in Seq(Entries(Len(rows')))
  PROVE  CountInv'
<1> SUFFICES ASSUME ~removed PROVE AllLive' /\ EntriesCount' /\ SavedAlone' /\ AllCounted'
  BY DEF CountInv
<1>1. AllLive /\ EntriesCount /\ SavedAlone /\ AllCounted
  BY DEF CountInv
<1>2. PICK m \in Texts : m = copy[c].msg
  OBVIOUS
<1>3. PICK r : r = recent[e].row
  OBVIOUS
<1>4. PICK k : k = rows[r].count + 1
  OBVIOUS
<1>5. /\ e \in 1..Len(recent) /\ recent[e].msg = m /\ r \in 1..Len(rows) /\ rows[r].msg = m
      /\ rows[r].live /\ rows[r].count = recent[e].count
  <2>1. e \in 1..Len(recent) /\ recent[e].msg = m
    BY <1>2, CountFacts DEF RecentOf
  <2>2. r \in 1..Len(rows) /\ rows[r].msg = m
    BY <1>3, <2>1, CountFacts DEF Entries
  <2> QED
    BY <1>1, <1>3, <2>1, <2>2 DEF AllLive, EntriesCount
<1>6. /\ rows' = [rows EXCEPT ![r].count = k] /\ recent' = [recent EXCEPT ![e].count = k]
      /\ taken' = [taken EXCEPT ![m] = taken[m] + 1] /\ Goes(c, "told")
  BY <1>2, <1>3, <1>4, <1>5 DEF CountCopy, Counted
<1>7. /\ \A i \in 1..Len(rows) : rows[i] \in MessageRows /\ i \in DOMAIN rows
      /\ \A i \in 1..Len(recent) : /\ recent[i] \in Entries(Len(rows)) /\ i \in DOMAIN recent
                                   /\ rows[recent[i].row].msg = recent[i].msg
  BY CountFacts
<1>8. /\ rows' \in Seq(MessageRows) /\ rows \in Seq(MessageRows) /\ Len(rows') = Len(rows)
      /\ Len(recent') = Len(recent)
  <2>1. DOMAIN rows' = DOMAIN rows /\ DOMAIN recent' = DOMAIN recent
    BY <1>6
  <2>2. /\ rows' \in Seq(MessageRows) /\ rows \in Seq(MessageRows)
        /\ recent \in Seq(Entries(Len(rows))) /\ recent' \in Seq(Entries(Len(rows')))
    BY DEF RowsGrow, InboundInv, RowsTyped
  <2> QED
    BY <2>1, <2>2, LenProperties
<1>9. \A i \in 1..Len(rows) : i # r => rows'[i] = rows[i]
  BY <1>6, <1>7
<1>10. \A i \in 1..Len(rows) : rows'[i].live
  <2>1. rows'[r].live
    BY <1>5, <1>6, <1>7 DEF MessageRows
  <2> QED
    BY <1>1, <1>9, <2>1 DEF AllLive
<1>11. /\ rows'[r].count = k
      /\ \A i \in 1..Len(recent) : /\ recent'[i].msg = recent[i].msg
                                   /\ recent'[i].row = recent[i].row
                                   /\ i # e => recent'[i] = recent[i]
      /\ recent'[e].count = k
  BY <1>5, <1>6, <1>7 DEF MessageRows, Entries
<1>12. AllLive'
  BY <1>10, <1>8 DEF AllLive
<1>13. \A i \in 1..Len(recent) : i # e => recent[i].row # r
  BY <1>1, <1>3, <1>5, <1>7 DEF EntriesCount
<1>14. EntriesCount'
  <2>1. \A i \in 1..Len(recent) : rows'[recent'[i].row].count = recent'[i].count
    <3> SUFFICES ASSUME NEW i \in 1..Len(recent)
                 PROVE rows'[recent'[i].row].count = recent'[i].count
      OBVIOUS
    <3>1. CASE i = e
      BY <1>3, <1>11, <3>1
    <3>2. CASE i # e
      <4>1. recent[i].row \in 1..Len(rows) /\ recent[i].row # r
        BY <1>7, <1>13, <3>2 DEF Entries
      <4>2. recent'[i].row = recent[i].row /\ recent'[i].count = recent[i].count
        BY <1>11, <3>2
      <4> QED
        <5>1. rows'[recent[i].row] = rows[recent[i].row]
          BY <1>9, <4>1
        <5>2. rows[recent[i].row].count = recent[i].count
          BY <1>1 DEF EntriesCount
        <5> QED
          BY <4>2, <5>1, <5>2
    <3> QED
      BY <3>1, <3>2
  <2> QED
    BY <1>1, <1>8, <1>11, <2>1 DEF EntriesCount
<1>15. SavedAlone'
  <2>1. \A d \in Copies : copy'[d].at = "saved" => copy'[d] = copy[d]
    BY <1>6 DEF Goes, InboundInv, RowsTyped, Handlers
  <2>2. \A d \in Copies : At(d, "saved") => copy[d].row \in 1..Len(rows) /\ copy[d].row # r
    BY <1>1, <1>3, <1>5, CountFacts DEF SavedAlone
  <2> QED
    <3>1. \A d \in Copies : copy'[d].at = "saved" =>
             /\ copy'[d] = copy[d] /\ At(d, "saved")
             /\ rows'[copy[d].row] = rows[copy[d].row]
      BY <1>9, <2>1, <2>2 DEF At
    <3>2. \A d \in Copies : copy'[d].at = "saved" => rows'[copy'[d].row].count = 1
      BY <1>1, <3>1 DEF SavedAlone
    <3>3. \A d \in Copies, i \in 1..Len(recent') :
             copy'[d].at = "saved" => recent'[i].row # copy'[d].row
      BY <1>1, <1>8, <1>11, <3>1 DEF SavedAlone
    <3>4. \A d, f \in Copies : copy'[d].at = "saved" /\ copy'[f].at = "saved" /\ d # f
                              => copy'[d].row # copy'[f].row
      BY <1>1, <3>1 DEF SavedAlone
    <3> QED
      BY <3>2, <3>3, <3>4 DEF SavedAlone, At
<1>16. AllCounted'
  <2>1. /\ \A n \in Texts : CopiesShown(n)' = Shown(rows', n)
        /\ \A n \in Texts : CopiesShown(n) = Shown(rows, n)
    BY <1>8, ShownByRows
  <2>2. /\ Shown(rows', m) = Shown(rows, m) \cup {<<r, k>>} /\ <<r, k>> \notin Shown(rows, m)
        /\ \A n \in Texts : n # m => Shown(rows', n) = Shown(rows, n)
    <3>1. rows'[r].msg = rows[r].msg /\ rows'[r].count = rows[r].count + 1
      BY <1>4, <1>5, <1>6, <1>7, <1>11 DEF MessageRows
    <3>2. rows'[r].live
      BY <1>5, <1>10
    <3>3. \A n \in Texts :
             /\ rows[r].msg # n => Shown(rows', n) = Shown(rows, n)
             /\ rows[r].msg = n => /\ Shown(rows', n) = Shown(rows, n) \cup {<<r, rows[r].count + 1>>}
                                  /\ <<r, rows[r].count + 1>> \notin Shown(rows, n)
      BY <1>5, <1>8, <1>9, <3>1, <3>2, OneMoreCounted
    <3> QED
      BY <1>4, <1>5, <3>3
  <2>3. /\ CopiesShown(m)' = CopiesShown(m) \cup {<<r, k>>} /\ <<r, k>> \notin CopiesShown(m)
        /\ \A n \in Texts : n # m => CopiesShown(n)' = CopiesShown(n)
    BY <1>2, <2>1, <2>2
  <2>4. m \in Texts /\ AsideTyped
    BY <1>2 DEF InboundInv
  <2> QED
    BY <1>1, <1>6, <2>3, <2>4, OneMore
<1> QED
  BY <1>12, <1>14, <1>15, <1>16

(* A message that is saved has a row of its own, that shows it once.        *)
LEMMA SaveCounted ==
  ASSUME InboundInv, RowsGrow, CountInv, NEW c \in Copies, SaveMessage(c)
  PROVE  CountInv'
<1>1. /\ copy[c].msg \in Texts /\ At(c, "save") /\ UNCHANGED <<recent, removed>>
  BY DEF SaveMessage, At, InboundInv, HandlerStored, userVars
<1>2. PICK m \in Texts : m = copy[c].msg
  BY <1>1
<1>3. PICK k : k = Len(rows) + 1
  OBVIOUS
<1>4. PICK x : x = [msg |-> m, count |-> 1, live |-> TRUE, reactions |-> {}]
  OBVIOUS
<1>5. x \in MessageRows /\ x.msg = m /\ x.count = 1 /\ x.live
  BY <1>4 DEF MessageRows
<1>6. /\ rows' = Append(rows, x) /\ taken' = [taken EXCEPT ![m] = taken[m] + 1]
      /\ copy' = [copy EXCEPT ![c].at = "saved", ![c].row = k]
  BY <1>2, <1>3, <1>4 DEF SaveMessage
<1>7. /\ rows \in Seq(MessageRows) /\ rows' \in Seq(MessageRows) /\ Len(rows) \in Nat
      /\ Len(rows') = k /\ rows'[k] = x /\ \A i \in 1..Len(rows) : rows'[i] = rows[i]
      /\ k \notin 1..Len(rows) /\ \A i \in 1..k : i \in 1..Len(rows) \/ i = k
  BY <1>3, <1>5, <1>6, CountFacts, AppendProperties
<1> SUFFICES ASSUME ~removed PROVE AllLive' /\ EntriesCount' /\ SavedAlone' /\ AllCounted'
  BY <1>1 DEF CountInv
<1>8. AllLive /\ EntriesCount /\ SavedAlone /\ AllCounted
  BY DEF CountInv
<1>9. AllLive'
  BY <1>5, <1>7, <1>8 DEF AllLive
<1>10. \A i \in 1..Len(recent) : recent[i].row \in 1..Len(rows)
  BY CountFacts DEF Entries
<1>11. EntriesCount'
  BY <1>1, <1>7, <1>8, <1>10 DEF EntriesCount
<1>12. SavedAlone'
  <2>1. /\ \A d \in Copies : d # c => copy'[d] = copy[d]
        /\ copy'[c].row = k
    BY <1>6 DEF InboundInv, RowsTyped, Handlers
  <2>2. \A d \in Copies : d # c /\ copy'[d].at = "saved" =>
           /\ At(d, "saved") /\ copy'[d].row = copy[d].row /\ copy[d].row \in 1..Len(rows)
           /\ rows'[copy[d].row] = rows[copy[d].row]
    BY <1>7, <2>1, CountFacts DEF At
  <2>3. \A d \in Copies : copy'[d].at = "saved" => rows'[copy'[d].row].count = 1
    BY <1>5, <1>7, <1>8, <2>1, <2>2 DEF SavedAlone
  <2>4. \A d \in Copies, i \in 1..Len(recent') :
           copy'[d].at = "saved" => recent'[i].row # copy'[d].row
    BY <1>1, <1>7, <1>8, <1>10, <2>1, <2>2 DEF SavedAlone
  <2>5. \A d, f \in Copies : copy'[d].at = "saved" /\ copy'[f].at = "saved" /\ d # f
                            => copy'[d].row # copy'[f].row
    BY <1>7, <1>8, <2>1, <2>2 DEF SavedAlone
  <2> QED
    BY <2>3, <2>4, <2>5 DEF SavedAlone, At
<1>13. AllCounted'
  <2>1. /\ \A n \in Texts : CopiesShown(n)' = Shown(rows', n)
        /\ \A n \in Texts : CopiesShown(n) = Shown(rows, n)
    BY <1>7, ShownByRows
  <2>2. \A n \in Texts :
           /\ x.msg # n => Shown(rows', n) = Shown(rows, n)
           /\ x.msg = n => /\ Shown(rows', n) = Shown(rows, n) \cup {<<Len(rows) + 1, 1>>}
                          /\ <<Len(rows) + 1, 1>> \notin Shown(rows, n)
    BY <1>5, <1>6, <1>7, OneMoreRow
  <2>3. /\ CopiesShown(m)' = CopiesShown(m) \cup {<<k, 1>>} /\ <<k, 1>> \notin CopiesShown(m)
        /\ \A n \in Texts : n # m => CopiesShown(n)' = CopiesShown(n)
    BY <1>3, <1>5, <2>1, <2>2
  <2>4. AsideTyped
    BY DEF InboundInv
  <2> QED
    BY <1>6, <1>8, <2>3, <2>4, OneMore
<1> QED
  BY <1>9, <1>11, <1>12, <1>13

(* A row that is entered takes the place of its message's entry, or comes   *)
(* last.                                                                    *)
LEMMA EnterCounted ==
  ASSUME InboundInv, CountInv, NEW c \in Copies, EnterRecent(c)
  PROVE  CountInv'
<1>1. /\ At(c, "saved") /\ UNCHANGED <<rows, taken, removed>> /\ Goes(c, "told")
  BY DEF EnterRecent, userVars, historyVars
<1> SUFFICES ASSUME ~removed PROVE AllLive' /\ EntriesCount' /\ SavedAlone' /\ AllCounted'
  BY <1>1 DEF CountInv
<1>2. AllLive /\ EntriesCount /\ SavedAlone /\ AllCounted
  BY DEF CountInv
<1>3. AllLive'
  BY <1>1, <1>2 DEF AllLive
<1>4. AllCounted'
  BY <1>1, <1>2 DEF AllCounted, CopiesShown, RowsOf
<1>5. PICK m : m = copy[c].msg
  OBVIOUS
<1>6. PICK r : r = copy[c].row
  OBVIOUS
<1>7. PICK x : x = [msg |-> m, row |-> r, count |-> 1]
  OBVIOUS
<1>8. x.msg = m /\ x.row = r /\ x.count = 1 /\ rows[r].count = 1
  BY <1>1, <1>2, <1>6, <1>7 DEF SavedAlone
<1>9. recent' = IF RecentOf(m) = {} THEN Newest(Append(recent, x))
                ELSE [i \in DOMAIN recent |-> IF recent[i].msg = m THEN x ELSE recent[i]]
  BY <1>5, <1>6, <1>7 DEF EnterRecent
<1>10. /\ recent \in Seq(Entries(Len(rows))) /\ Len(recent) \in Nat
       /\ DOMAIN recent = 1..Len(recent)
  BY CountFacts DEF InboundInv, RowsTyped
<1>11. x \in Entries(Len(rows))
  BY <1>1, <1>5, <1>6, <1>7, CountFacts DEF Entries
(* Where each entry of the map comes from; and no two are of one message.   *)
<1> DEFINE Sourced == \A j \in 1..Len(recent') :
             recent'[j] = x \/ \E i \in 1..Len(recent) : recent'[j] = recent[i]
           Apart(s) == \A j, l \in 1..Len(s) : s[j].msg = s[l].msg => j = l
<1>12. Sourced /\ Apart(recent')
  <2>1. CASE RecentOf(m) = {}
    <3>1. \A i \in 1..Len(recent) : recent[i].msg # m
      BY <1>10, <2>1 DEF RecentOf
    <3>2. PICK s : s = Append(recent, x)
      OBVIOUS
    <3>3. PICK n \in Nat : n = Len(recent)
      BY <1>10
    <3>4. /\ s \in Seq(Entries(Len(rows))) /\ Len(s) = n + 1 /\ n + 1 \in Nat
          /\ \A i \in 1..n : s[i] = recent[i]
          /\ s[n + 1] = x /\ \A i \in 1..(n + 1) : i \in 1..n \/ i = n + 1
      BY <1>10, <1>11, <3>2, <3>3, AppendProperties
    <3>5. \A j, l \in 1..n : s[j].msg = s[l].msg => j = l
      BY <1>2, <3>3, <3>4 DEF EntriesCount
    <3>6. \A j \in 1..n : s[j].msg # x.msg
      BY <1>8, <3>1, <3>3, <3>4
    <3>7. Apart(s)
      BY <3>4, <3>5, <3>6
    <3>8. \A j \in 1..(n + 1) : s[j] = x \/ \E i \in 1..Len(recent) : s[j] = recent[i]
      BY <3>3, <3>4
    <3>9. CASE recent' = s
      BY <3>4, <3>7, <3>8, <3>9
    <3>10. CASE recent' = Tail(s)
      <4>1. Len(recent') = n /\ \A j \in 1..n : recent'[j] = s[j + 1] /\ j + 1 \in 1..(n + 1)
        <5>1. s # <<>>
          BY <3>4, EmptySeq
        <5>2. Len(recent') = n /\ \A j \in 1..n : recent'[j] = s[j + 1]
          BY <3>4, <3>10, <5>1, HeadTailProperties
        <5> QED
          BY <5>2
      <4>2. Sourced
        BY <3>8, <4>1
      <4>3. ASSUME NEW j \in 1..n, NEW l \in 1..n, recent'[j].msg = recent'[l].msg PROVE j = l
        <5>1. j + 1 = l + 1
          BY <3>4, <3>7, <4>1, <4>3
        <5> QED
          BY <5>1
      <4> QED
        BY <4>1, <4>2, <4>3
    <3> QED
      BY <1>9, <2>1, <3>2, <3>9, <3>10 DEF Newest
  <2>2. CASE RecentOf(m) # {}
    <3>1. recent' = [i \in 1..Len(recent) |-> IF recent[i].msg = m THEN x ELSE recent[i]]
      BY <1>9, <1>10, <2>2
    <3>2. Len(recent') = Len(recent)
      <4>1. \A i \in 1..Len(recent) : recent[i] \in Entries(Len(rows))
        BY CountFacts
      <4>2. recent' \in [1..Len(recent) -> Entries(Len(rows))]
        BY <1>11, <3>1, <4>1
      <4>3. recent' \in Seq(Entries(Len(rows)))
        BY <1>10, <4>2, SeqDef
      <4> QED
        BY <1>10, <4>2, <4>3, LenProperties
    <3>3. \A i \in 1..Len(recent) : /\ recent'[i].msg = recent[i].msg
                                   /\ (recent'[i] = x \/ recent'[i] = recent[i])
      BY <1>8, <3>1
    <3>4. Apart(recent')
      BY <1>2, <3>2, <3>3 DEF EntriesCount
    <3> QED
      BY <3>2, <3>3, <3>4
  <2> QED
    BY <2>1, <2>2
<1>13. EntriesCount'
  <2>1. \A j \in 1..Len(recent') : rows'[recent'[j].row].count = recent'[j].count
    BY <1>1, <1>2, <1>8, <1>12 DEF EntriesCount
  <2> QED
    BY <1>12, <2>1 DEF EntriesCount
<1>14. SavedAlone'
  <2>1. \A d \in Copies : copy'[d].at = "saved" => At(d, "saved") /\ d # c /\ copy'[d] = copy[d]
    BY <1>1 DEF Goes, At, InboundInv, RowsTyped, Handlers
  <2>2. \A d \in Copies : copy'[d].at = "saved" => rows'[copy'[d].row].count = 1
    BY <1>1, <1>2, <2>1 DEF SavedAlone
  <2>3. \A d \in Copies : copy'[d].at = "saved" => copy'[d].row # x.row
    BY <1>1, <1>2, <1>6, <1>8, <2>1 DEF SavedAlone
  <2>4. \A d \in Copies, i \in 1..Len(recent') :
           copy'[d].at = "saved" => recent'[i].row # copy'[d].row
    BY <1>2, <1>12, <2>1, <2>3 DEF SavedAlone
  <2>5. \A d, f \in Copies : copy'[d].at = "saved" /\ copy'[f].at = "saved" /\ d # f
                            => copy'[d].row # copy'[f].row
    BY <1>2, <2>1 DEF SavedAlone
  <2> QED
    BY <2>2, <2>4, <2>5 DEF SavedAlone, At
<1> QED
  BY <1>3, <1>4, <1>13, <1>14

(* A reaction changes no count.                                             *)
LEMMA ReactCounted ==
  ASSUME InboundInv, RowsGrow, CountInv, NEW c \in Copies, React(c)
  PROVE  CountInv'
<1>1. UNCHANGED <<recent, taken, removed>> /\ Goes(c, "told")
  BY DEF React, userVars, historyVars
<1> SUFFICES ASSUME ~removed PROVE AllLive' /\ EntriesCount' /\ SavedAlone' /\ AllCounted'
  BY <1>1 DEF CountInv
<1>2. AllLive /\ EntriesCount /\ SavedAlone /\ AllCounted
  BY DEF CountInv
<1>3. /\ rows \in Seq(MessageRows) /\ rows' \in Seq(MessageRows) /\ DOMAIN rows = 1..Len(rows)
      /\ \A i \in 1..Len(rows) : rows[i] \in MessageRows
      /\ DOMAIN rows' = 1..Len(rows')
  BY CountFacts, LenProperties DEF RowsGrow
<1>4. PICK r, y : rows' = [rows EXCEPT ![r].reactions = y] \/ rows' = rows
  BY DEF React
<1>5. DOMAIN rows' = DOMAIN rows /\ Len(rows') = Len(rows)
  <2>1. DOMAIN rows' = DOMAIN rows
    BY <1>4
  <2>2. rows \in Seq(MessageRows) /\ rows' \in Seq(MessageRows)
    BY <1>3
  <2> QED
    BY <2>1, <2>2, LenProperties
<1>6. \A i \in 1..Len(rows) : \/ rows'[i] = rows[i]
                               \/ rows'[i] = [rows[i] EXCEPT !.reactions = y]
  BY <1>3, <1>4
<1>7. \A i \in 1..Len(rows) : rows'[i].msg = rows[i].msg /\ rows'[i].count = rows[i].count
  BY <1>3, <1>6 DEF MessageRows
<1>8. \A i \in 1..Len(rows) : rows'[i].live <=> rows[i].live
  BY <1>3, <1>6 DEF MessageRows
<1>9. AllLive'
  BY <1>2, <1>5, <1>8 DEF AllLive
<1>10. /\ \A i \in 1..Len(recent) : recent[i].row \in 1..Len(rows)
      /\ \A d \in Copies : At(d, "saved") => copy[d].row \in 1..Len(rows)
  BY CountFacts DEF Entries
<1>11. EntriesCount'
  BY <1>1, <1>2, <1>7, <1>10 DEF EntriesCount
<1>12. SavedAlone'
  <2>1. \A d \in Copies : copy'[d].at = "saved" => At(d, "saved") /\ copy'[d] = copy[d]
    BY <1>1 DEF Goes, At, InboundInv, RowsTyped, Handlers
  <2>2. \A d \in Copies : copy'[d].at = "saved" => rows'[copy'[d].row].count = 1
    BY <1>2, <1>7, <1>10, <2>1 DEF SavedAlone
  <2> QED
    BY <1>1, <1>2, <2>1, <2>2 DEF SavedAlone, At
<1>13. AllCounted'
  <2>1. /\ \A n \in Texts : CopiesShown(n)' = Shown(rows', n)
        /\ \A n \in Texts : CopiesShown(n) = Shown(rows, n)
    BY <1>3, ShownByRows
  <2>2. \A n \in Texts : Shown(rows', n) = Shown(rows, n)
    BY <1>5, <1>7, <1>8 DEF Shown
  <2>3. \A n \in Texts : CopiesShown(n)' = CopiesShown(n)
    BY <2>1, <2>2
  <2> QED
    BY <1>1, <1>2, <2>3 DEF AllCounted
<1> QED
  BY <1>9, <1>11, <1>12, <1>13

LEMMA CountStep == InboundInv /\ CountInv /\ [InboundNext]_inboundVars => CountInv'
<1> SUFFICES ASSUME InboundInv, CountInv, [InboundNext]_inboundVars PROVE CountInv'
  OBVIOUS
<1>1. RowsGrow /\ recent' \in Seq(Entries(Len(rows')))
  BY RowsOnlyGrow, RecentKept
<1>2. ASSUME NEW c \in Copies, CopyStep(c) PROVE CountInv'
  <2>1. CASE /\ Dispatch(c)
             /\ \E e \in RecentOf(copy[c].msg) : copy[c].msg \in Texts /\ CountCopy(c, e)
    BY <1>1, <2>1, CountCopyCounted DEF Dispatch, userVars
  <2>2. CASE SaveMessage(c)
    BY <1>1, <2>2, SaveCounted
  <2>3. CASE EnterRecent(c)
    BY <2>3, EnterCounted
  <2>4. CASE React(c)
    BY <1>1, <2>4, ReactCounted
  <2>5. CASE \/ CopyArrives(c) \/ Decrypted(c) \/ ProveData(c) \/ DispatchThrows(c)
             \/ ProveLink(c) \/ HandlerEnds(c)
    <3>1. UNCHANGED <<rows, recent, taken, removed>>
      BY <2>5 DEF CopyArrives, Decrypted, ProveData, DispatchThrows, ProveLink, HandlerEnds,
         historyVars, userVars
    <3>2. copy'[c].at # "saved" /\ \A d \in Copies : d # c => copy'[d] = copy[d]
      BY <2>5, ZenonT(40) DEF CopyArrives, Decrypted, ProveData, DispatchThrows, ProveLink,
         HandlerEnds, Goes, Ends, Away, InboundInv, RowsTyped, Handlers
    <3>3. SavedStay
      BY <3>2 DEF SavedStay
    <3> QED
      BY <3>1, <3>3, StillCounted
  <2>6. CASE /\ Dispatch(c)
             /\ ~\E e \in RecentOf(copy[c].msg) : copy[c].msg \in Texts /\ CountCopy(c, e)
    <3>1. UNCHANGED <<rows, recent, taken, removed>>
      BY <2>6 DEF Dispatch, userVars
    <3>2. copy'[c].at # "saved" /\ \A d \in Copies : d # c => copy'[d] = copy[d]
      BY <2>6, ZenonT(40) DEF Dispatch, Goes, InboundInv, RowsTyped, Handlers
    <3>3. SavedStay
      BY <3>2 DEF SavedStay
    <3> QED
      BY <3>1, <3>3, StillCounted
  <2> QED
    BY <1>2, <2>1, <2>2, <2>3, <2>4, <2>5, <2>6 DEF CopyStep
<1>3. CASE RemoveContact
  BY <1>3 DEF RemoveContact, CountInv
<1>4. CASE InboundReload
  <2>1. UNCHANGED <<rows, taken, removed>> /\ recent' = <<>>
    BY <1>4 DEF InboundReload, historyVars
  <2>2. \A c \in Copies : copy'[c].at # "saved"
    BY <1>4 DEF InboundReload, Away
  <2> QED
    BY <2>1, <2>2, StillCounted DEF SavedStay
<1>5. CASE \/ \E b \in Beacons : AnnounceVerified(b) \/ UpsertContact(b)
           \/ TogglePin \/ ContactRemoved \/ UNCHANGED inboundVars
  <2>1. UNCHANGED <<copy, rows, recent, taken>> /\ removed' = removed
    BY <1>5 DEF AnnounceVerified, UpsertContact, TogglePin, ContactRemoved, inboundVars,
       historyVars, userVars
  <2> QED
    BY <2>1, StillCounted DEF SavedStay
<1> QED
  BY <1>2, <1>3, <1>4, <1>5 DEF InboundNext

(* Until a conversation is removed the counts that the rows of a message    *)
(* show add up to the copies of it that came, for any number of copies and  *)
(* handlers, with reloads in between (dispatchIncomingMessage, dupeCount).  *)
THEOREM CountCorrect == InboundSpec => []CopiesCounted
<1>1. CountInv => CopiesCounted
  BY DEF CountInv, AllCounted, CopiesCounted
<1> QED
  BY <1>1, InboundInitial, InboundInvStep, CountInitial, CountStep, PTL DEF InboundSpec

(***************************************************************************)
(* Announces. A ring, in memory, on disk or on its way there, has every key *)
(* up to its newest, except those it dropped when it was full and those a   *)
(* reload cut off. What is newer than a ring in memory was cut off, and     *)
(* what is newer than one on disk is unsaved or was cut off.                *)
(***************************************************************************)
RingFits(s, g, gone) ==
  /\ s \in Seq(1..g) /\ Len(s) \in 1..RingDepth + 1
  /\ \A i, j \in 1..Len(s) : i < j => s[i] > s[j]
  /\ \A i \in 1..Len(s) : s[i] \notin gone
  /\ \A k \in 1..s[1] : \/ \E i \in 1..Len(s) : s[i] = k
                        \/ k \in gone
                        \/ Len(s) = RingDepth + 1 /\ k < s[Len(s)]

Saves == [who : Calls, key : Nat, ring : Seq(Nat)]

CallRecords(g) ==
  [at : {"no", "saving", "sending"}, kind : {"periodic", "response"}, key : 0..g]

CallsTyped ==
  /\ radio \in BOOLEAN /\ rotateDue \in BOOLEAN
  /\ recentTags \subseteq {"periodic", "response"}
  /\ tags \in Seq(Tags) /\ Len(tags) <= DedupMax
  /\ call \in [Calls -> CallRecords(generated)]
  /\ \A c \in Calls : call[c].at = "sending" => call[c].key # 0
  /\ generated \in Nat \ {0} /\ restarts \in Nat
  /\ announced \subseteq 1..generated /\ unsaved \subseteq 1..generated
  /\ cut \subseteq 1..generated

RingsFit ==
  /\ RingFits(ring, generated, cut) /\ RingFits(disk, generated, cut)
  /\ \A k \in 1..generated : k > ring[1] => k \in cut
  /\ \A k \in 1..generated : k > disk[1] => k \in cut \cup unsaved
  /\ \A i \in 1..Len(disk) : disk[i] \notin unsaved

SaveFits(i) ==
  /\ RingFits(saves[i].ring, generated, cut)
  /\ saves[i].key = saves[i].ring[1] /\ saves[i].key \in unsaved
  /\ \A k \in 1..generated : k > saves[i].key => k \in cut \cup unsaved

SavesFit ==
  /\ saves \in Seq(Saves)
  /\ \A i \in 1..Len(saves) : SaveFits(i)
  /\ \A i, j \in 1..Len(saves) :
       i < j => saves[i].key < saves[j].key /\ saves[i].who # saves[j].who
  /\ \A c \in Calls : call[c].at = "saving" <=> \E i \in 1..Len(saves) : saves[i].who = c

AnnouncingInv == CallsTyped /\ RingsFit /\ SavesFit

LEMMA RingStill ==
  ASSUME NEW s, NEW g \in Nat, NEW h \in Nat, g <= h, NEW gone, NEW more,
         RingFits(s, g, gone), gone \subseteq more, \A i \in 1..Len(s) : s[i] \notin more
  PROVE  RingFits(s, h, more)
<1>1. 1..g \subseteq 1..h
  OBVIOUS
<1>2. s \in Seq(1..h)
  BY <1>1, SeqMonotonic DEF RingFits
<1> QED
  BY <1>2 DEF RingFits

LEMMA RingExtended ==
  ASSUME NEW s, NEW g \in Nat \ {0}, NEW gone \in SUBSET (1..g), RingFits(s, g, gone),
         \A k \in 1..g : k > s[1] => k \in gone
  PROVE  /\ RingFits(Capped(<<g + 1>> \o s), g + 1, gone)
         /\ Capped(<<g + 1>> \o s)[1] = g + 1
<1> DEFINE t == <<g + 1>> \o s
           u == <<g + 1>>
<1>1. RingDepth \in Nat \ {0}
  BY AnnouncingAssumption
<1>2. /\ s \in Seq(1..g + 1) /\ Len(s) \in 1..RingDepth + 1
      /\ \A i \in 1..Len(s) : s[i] \in 1..g /\ s[i] \notin gone
      /\ \A i, j \in 1..Len(s) : i < j => s[i] > s[j]
  <2>1. RingFits(s, g + 1, gone)
    BY RingStill DEF RingFits
  <2>2. \A i \in 1..Len(s) : s[i] \in 1..g
    BY ElementOfSeq DEF RingFits
  <2> QED
    BY <2>1, <2>2 DEF RingFits
<1>3. u \in Seq(1..g + 1) /\ Len(u) = 1 /\ u[1] = g + 1
  OBVIOUS
<1>4. /\ t \in Seq(1..g + 1) /\ Len(t) = Len(s) + 1
      /\ \A i \in 1..Len(s) + 1 : t[i] = IF i = 1 THEN g + 1 ELSE s[i - 1]
  <2> HIDE DEF u
  <2>1. /\ u \o s \in Seq(1..g + 1) /\ Len(u \o s) = Len(u) + Len(s)
        /\ \A i \in 1..Len(u) + Len(s) :
             (u \o s)[i] = IF i <= Len(u) THEN u[i] ELSE s[i - Len(u)]
    BY <1>2, <1>3, ConcatProperties, ZenonT(40)
  <2>2. t = u \o s
    BY DEF u
  <2> HIDE DEF t
  <2> QED
    BY <1>2, <1>3, <2>1, <2>2
<1> HIDE DEF t, u
<1>5. PICK r : r = Capped(t)
  OBVIOUS
<1>6. /\ r \in Seq(1..g + 1)
      /\ Len(r) = IF Len(s) = RingDepth + 1 THEN RingDepth + 1 ELSE Len(s) + 1
      /\ \A i \in 1..Len(r) : r[i] = t[i]
  <2>1. CASE Len(s) = RingDepth + 1
    <3>1. r = SubSeq(t, 1, RingDepth + 1)
      BY <1>1, <1>4, <1>5, <2>1 DEF Capped
    <3>2. \A i \in 1..RingDepth + 1 : t[i] \in 1..g + 1
      BY <1>1, <1>4, <2>1, ElementOfSeq, SMTT(20)
    <3>3. PICK d \in Nat : d = RingDepth + 1
      BY <1>1
    <3>4. /\ SubSeq(t, 1, d) \in Seq(1..g + 1) /\ Len(SubSeq(t, 1, d)) = d
          /\ \A i \in 1..d : SubSeq(t, 1, d)[i] = t[i]
      BY <1>1, <3>2, <3>3, SubSeqProperties
    <3> QED
      BY <2>1, <3>1, <3>3, <3>4
  <2>2. CASE Len(s) # RingDepth + 1
    BY <1>1, <1>2, <1>4, <1>5, <2>2 DEF Capped
  <2> QED
    BY <2>1, <2>2
<1>7. \A i \in 1..Len(r) : r[i] = IF i = 1 THEN g + 1 ELSE s[i - 1]
  <2>1. Len(r) \in Nat /\ Len(r) <= Len(s) + 1
    BY <1>1, <1>2, <1>6
  <2>2. \A i \in 1..Len(r) : i \in 1..Len(s) + 1
    BY <1>2, <2>1
  <2> QED
    BY <1>4, <1>6, <2>2
<1>8. Len(r) \in 1..RingDepth + 1 /\ Len(r) > 1 /\ r[1] = g + 1
  <2>1. Len(r) \in 1..RingDepth + 1 /\ Len(r) > 1
    <3>1. CASE Len(s) = RingDepth + 1
      BY <1>1, <1>6, <3>1
    <3>2. CASE Len(s) # RingDepth + 1
      BY <1>1, <1>2, <1>6, <3>2
    <3> QED
      BY <3>1, <3>2
  <2>2. 1 \in 1..Len(r)
    BY <1>1, <2>1
  <2> QED
    BY <1>7, <2>1, <2>2
<1>9. \A i, j \in 1..Len(r) : i < j => r[i] > r[j]
  <2> SUFFICES ASSUME NEW i \in 1..Len(r), NEW j \in 1..Len(r), i < j PROVE r[i] > r[j]
    OBVIOUS
  <2>1. PICK q \in 1..Len(s) : q = j - 1
    BY <1>1, <1>2, <1>6
  <2>2. r[j] = s[q] /\ s[q] \in 1..g
    BY <1>2, <1>7, <1>8, <2>1
  <2>3. CASE i = 1
    <3>1. r[i] = g + 1
      BY <1>8, <2>3
    <3> QED
      BY <2>2, <3>1
  <2>4. CASE i # 1
    <3>1. PICK p \in 1..Len(s) : p = i - 1
      BY <1>2, <1>8, <2>1, <2>4
    <3>2. r[i] = s[p]
      BY <1>7, <2>4, <3>1
    <3>3. p < q
      BY <1>8, <2>1, <3>1
    <3> QED
      BY <1>2, <2>2, <3>2, <3>3
  <2> QED
    BY <2>3, <2>4
<1>10. \A i \in 1..Len(r) : r[i] \notin gone
  <2> SUFFICES ASSUME NEW i \in 1..Len(r) PROVE r[i] \notin gone
    OBVIOUS
  <2>1. CASE i = 1
    BY <1>8, <2>1
  <2>2. CASE i # 1
    <3>1. PICK p \in 1..Len(s) : p = i - 1
      BY <1>1, <1>2, <1>6, <2>2
    <3> QED
      BY <1>2, <1>7, <2>2, <3>1
  <2> QED
    BY <2>1, <2>2
<1>11. \A k \in 1..r[1] : \/ \E i \in 1..Len(r) : r[i] = k
                          \/ k \in gone
                          \/ Len(r) = RingDepth + 1 /\ k < r[Len(r)]
  <2> SUFFICES ASSUME NEW k \in 1..g + 1, k \notin gone, \A i \in 1..Len(r) : r[i] # k
               PROVE  Len(r) = RingDepth + 1 /\ k < r[Len(r)]
    BY <1>8
  <2>1. k \in 1..g
    BY <1>8
  <2>2. s[1] \in 1..g /\ k <= s[1]
    BY <1>2, <2>1
  <2>3. CASE \E i \in 1..Len(s) : s[i] = k
    <3>1. PICK i \in 1..Len(s) : s[i] = k
      BY <2>3
    <3>2. i + 1 \notin 1..Len(r)
      BY <1>2, <1>7, <3>1
    <3>3. Len(s) = RingDepth + 1 /\ i = RingDepth + 1 /\ Len(r) = RingDepth + 1
      BY <1>1, <1>2, <1>6, <3>2
    <3>4. r[Len(r)] = s[RingDepth] /\ RingDepth \in 1..Len(s)
      BY <1>1, <1>7, <3>3
    <3> QED
      BY <1>1, <1>2, <3>1, <3>3, <3>4
  <2>4. CASE Len(s) = RingDepth + 1 /\ k < s[Len(s)]
    <3>1. Len(r) = RingDepth + 1 /\ r[Len(r)] = s[RingDepth]
      BY <1>1, <1>6, <1>7, <2>4
    <3>2. s[RingDepth] > s[Len(s)] /\ s[RingDepth] \in Nat /\ s[Len(s)] \in Nat
      BY <1>1, <1>2, <2>4
    <3> QED
      BY <2>4, <3>1, <3>2
  <2> QED
    BY <2>2, <2>3, <2>4 DEF RingFits
<1>12. RingFits(r, g + 1, gone) /\ r[1] = g + 1
  BY <1>6, <1>8, <1>9, <1>10, <1>11 DEF RingFits
<1> QED
  BY <1>5, <1>12 DEF t

(* A full ring has more keys than its depth, all newer than those it        *)
(* dropped.                                                                 *)
LEMMA DroppedIsRetired ==
  ASSUME NEW s, NEW g \in Nat, NEW gone, RingFits(s, g, gone), Len(s) = RingDepth + 1,
         NEW k \in Nat, k < s[Len(s)]
  PROVE  Cardinality({n \in k + 1..g : n \notin gone}) > RingDepth
<1> DEFINE newer == {n \in k + 1..g : n \notin gone}
           places == 1..RingDepth + 1
<1>1. RingDepth \in Nat \ {0}
  BY AnnouncingAssumption
<1>2. IsFiniteSet(newer) /\ Cardinality(newer) \in Nat
  <2>1. IsFiniteSet(k + 1..g)
    BY FS_Interval
  <2>2. newer \in SUBSET (k + 1..g)
    OBVIOUS
  <2> HIDE DEF newer
  <2> QED
    BY <2>1, <2>2, FS_Subset, FS_CardinalityType
<1>3. IsFiniteSet(places) /\ Cardinality(places) = RingDepth + 1
  <2>1. PICK d \in Int : d = RingDepth + 1
    BY <1>1
  <2>2. IsFiniteSet(1..d) /\ Cardinality(1..d) = d
    BY <1>1, <2>1, FS_Interval
  <2> QED
    BY <2>1, <2>2
<1>4. s \in [places -> newer]
  <2>1. s \in [1..Len(s) -> 1..g] /\ Len(s) \in Nat
    BY LenProperties DEF RingFits
  <2>2. ASSUME NEW i \in places PROVE s[i] \in newer
    <3>1. s[i] \in 1..g /\ s[i] \notin gone /\ s[Len(s)] \in 1..g
      BY <1>1, <2>1 DEF RingFits
    <3>2. s[i] >= s[Len(s)]
      BY <1>1, <2>1, <3>1 DEF RingFits
    <3> QED
      BY <3>1, <3>2
  <2> QED
    BY <2>1, <2>2
<1>5. \A x, y \in places : x # y => s[x] # s[y]
  <2>1. \A x \in places : s[x] \in Nat
    BY <1>4
  <2> QED
    BY <1>1, <2>1 DEF RingFits
<1> HIDE DEF newer, places
<1>6. ~(Cardinality(newer) < Cardinality(places))
  BY <1>2, <1>3, <1>4, <1>5, FS_PigeonHole
<1> QED
  BY <1>1, <1>2, <1>3, <1>6 DEF newer

LEMMA RingFirst ==
  ASSUME NEW s, NEW g \in Nat, NEW gone, RingFits(s, g, gone)
  PROVE  /\ Len(s) \in Nat /\ 1 \in 1..Len(s) /\ DOMAIN s = 1..Len(s)
         /\ \A i \in 1..Len(s) : s[i] \in 1..g /\ s[i] <= s[1]
<1>1. /\ Len(s) \in Nat /\ 1 \in 1..Len(s) /\ DOMAIN s = 1..Len(s)
      /\ \A i \in 1..Len(s) : s[i] \in 1..g
  BY AnnouncingAssumption, LenProperties, ElementOfSeq DEF RingFits
<1>2. ASSUME NEW i \in 1..Len(s) PROVE s[i] <= s[1]
  BY <1>1 DEF RingFits
<1> QED
  BY <1>1, <1>2

LEMMA AnnouncingInvTyped == AnnouncingInv => AnnouncingTypeOK
<1> SUFFICES ASSUME AnnouncingInv PROVE AnnouncingTypeOK
  OBVIOUS
<1>1. generated \in Nat \ {0}
  BY DEF AnnouncingInv, CallsTyped
<1> DEFINE Sorted == {s \in Seq(1..generated) : /\ Len(s) \in 1..RingDepth + 1
                                                /\ \A i, j \in DOMAIN s : i < j => s[i] > s[j]}
<1>2. ASSUME NEW s, RingFits(s, generated, cut) PROVE s \in Sorted
  <2>1. DOMAIN s = 1..Len(s)
    BY <1>1, <1>2, RingFirst
  <2> QED
    BY <1>2, <2>1 DEF RingFits
<1>3. DOMAIN saves = 1..Len(saves) /\ \A i \in 1..Len(saves) : saves[i] \in Saves
  BY LenProperties, ElementOfSeq DEF AnnouncingInv, SavesFit
<1>4. {ring, disk} \cup {saves[i].ring : i \in DOMAIN saves} \subseteq Sorted
  <2> HIDE DEF Sorted
  <2> QED
    BY <1>2, <1>3 DEF AnnouncingInv, RingsFit, SavesFit, SaveFits
<1>5. /\ \A i \in DOMAIN saves : saves[i].who \in Calls /\ saves[i].key \in unsaved
      /\ \A c \in Calls : call[c].at = "saving" <=> \E i \in DOMAIN saves : saves[i].who = c
  BY <1>3 DEF AnnouncingInv, SavesFit, SaveFits, Saves
<1>6. /\ radio \in BOOLEAN /\ rotateDue \in BOOLEAN
      /\ recentTags \subseteq {"periodic", "response"}
      /\ tags \in Seq(Tags) /\ Len(tags) <= DedupMax
      /\ call \in [Calls -> [at : {"no", "saving", "sending"},
                             kind : {"periodic", "response"}, key : 0..generated]]
      /\ generated \in Nat \ {0} /\ restarts \in Nat
      /\ announced \cup unsaved \cup cut \subseteq 1..generated
  BY DEF AnnouncingInv, CallsTyped, CallRecords
<1> QED
  BY <1>4, <1>5, <1>6 DEF AnnouncingTypeOK

LEMMA AnnouncingInvKeeps == AnnouncingInv => AnnouncedIsKept
<1> SUFFICES ASSUME AnnouncingInv, NEW k \in announced, k \notin Keys(ring), k \notin cut
             PROVE  Retired(k)
  BY DEF AnnouncedIsKept
<1>1. generated \in Nat \ {0} /\ k \in 1..generated /\ RingFits(ring, generated, cut)
  BY DEF AnnouncingInv, CallsTyped, RingsFit
<1>2. ring[1] \in 1..generated /\ DOMAIN ring = 1..Len(ring)
  BY <1>1, RingFirst
<1>3. k \in 1..ring[1]
  BY <1>1, <1>2 DEF AnnouncingInv, RingsFit
<1>4. Len(ring) = RingDepth + 1 /\ k < ring[Len(ring)]
  BY <1>1, <1>2, <1>3 DEF RingFits, Keys
<1> QED
  BY <1>1, <1>4, DroppedIsRetired DEF Retired

LEMMA AnnouncingInitial == AnnouncingInit => AnnouncingInv
<1> SUFFICES ASSUME AnnouncingInit PROVE AnnouncingInv
  OBVIOUS
<1>1. RingDepth \in Nat \ {0} /\ DedupMax \in Nat
  BY AnnouncingAssumption
<1>2. generated = 1 /\ cut = {} /\ unsaved = {} /\ announced = {} /\ restarts = 0
  BY DEF AnnouncingInit
<1>3. saves \in Seq(Saves) /\ Len(saves) = 0 /\ tags \in Seq(Tags) /\ Len(tags) = 0
  BY EmptySeq DEF AnnouncingInit
<1>4. ring \in Seq(1..1) /\ Len(ring) = 1 /\ ring[1] = 1 /\ disk = ring
  BY DEF AnnouncingInit
<1>5. RingFits(ring, generated, cut)
  BY <1>1, <1>2, <1>4 DEF RingFits
<1>6. NoCall \in CallRecords(1) /\ NoCall.at = "no"
  BY DEF NoCall, CallRecords
<1>7. call \in [Calls -> CallRecords(generated)] /\ \A c \in Calls : call[c].at = "no"
  BY <1>2, <1>6 DEF AnnouncingInit
<1>8. CallsTyped
  BY <1>1, <1>2, <1>3, <1>7 DEF CallsTyped, AnnouncingInit
<1>9. RingsFit
  BY <1>2, <1>4, <1>5 DEF RingsFit
<1>10. SavesFit
  BY <1>3, <1>7 DEF SavesFit
<1> QED
  BY <1>8, <1>9, <1>10 DEF AnnouncingInv

LEMMA CallsKept == AnnouncingInv /\ [AnnouncingNext]_announceVars => CallsTyped'
<1> SUFFICES ASSUME AnnouncingInv, [AnnouncingNext]_announceVars PROVE CallsTyped'
  OBVIOUS
<1>1. /\ radio \in BOOLEAN /\ rotateDue \in BOOLEAN
      /\ recentTags \subseteq {"periodic", "response"}
      /\ tags \in Seq(Tags) /\ Len(tags) <= DedupMax
      /\ generated \in Nat \ {0} /\ restarts \in Nat
      /\ announced \subseteq 1..generated /\ unsaved \subseteq 1..generated
      /\ cut \subseteq 1..generated
      /\ DedupMax \in Nat \ {0}
  BY AnnouncingAssumption DEF AnnouncingInv, CallsTyped
<1> DEFINE CallFits(g) == /\ call' \in [Calls -> CallRecords(g)]
                          /\ \A c \in Calls : call'[c].at = "sending" => call'[c].key # 0
<1>2. /\ call \in [Calls -> CallRecords(generated)]
      /\ \A c \in Calls : call[c].at = "sending" => call[c].key # 0
  BY DEF AnnouncingInv, CallsTyped
<1>3. NoCall \in CallRecords(generated) /\ NoCall.at = "no"
  BY <1>1 DEF NoCall, CallRecords
<1>4. ASSUME call' = call PROVE CallFits(generated)
  BY <1>2, <1>4
<1>5. ASSUME NEW c \in Calls, NEW kind \in {"periodic", "response"}, Build(c, kind)
      PROVE  CallFits(generated)
  <2>1. ring[1] \in 1..generated
    BY <1>1, RingFirst DEF AnnouncingInv, RingsFit
  <2>2. PICK x : x = [at |-> "sending", kind |-> kind, key |-> ring[1]]
    OBVIOUS
  <2>3. x \in CallRecords(generated) /\ x.at = "sending" /\ x.key # 0
    BY <1>1, <2>1, <2>2 DEF CallRecords
  <2>4. call' = [call EXCEPT ![c] = x]
    BY <1>5, <2>2 DEF Build
  <2> QED
    BY <1>2, <2>3, <2>4
<1>6. ASSUME NEW c, call' = [call EXCEPT ![c] = NoCall] PROVE CallFits(generated)
  BY <1>2, <1>3, <1>6
<1>7. ASSUME NEW c \in Calls, RotateRatchet(c)
      PROVE  /\ CallFits(generated') /\ rotateDue' \in BOOLEAN
             /\ generated' \in Nat \ {0} /\ announced \subseteq 1..generated'
             /\ unsaved' \subseteq 1..generated' /\ cut \subseteq 1..generated'
  <2>1. PICK g \in Nat \ {0} : g = generated + 1
    BY <1>1
  <2>2. generated' = g /\ unsaved' = unsaved \cup {g} /\ rotateDue' = FALSE
    BY <1>7, <2>1 DEF RotateRatchet
  <2>3. 1..generated \subseteq 1..g /\ g \in 1..g
    BY <1>1, <2>1
  <2>4. PICK x : x = [at |-> "saving", kind |-> "periodic", key |-> g]
    OBVIOUS
  <2>5. x \in CallRecords(g) /\ x.at = "saving"
    BY <2>4 DEF CallRecords
  <2>6. call' = [call EXCEPT ![c] = x]
    BY <1>7, <2>1, <2>4 DEF RotateRatchet
  <2>7. CallRecords(generated) \subseteq CallRecords(g)
    BY <1>1, <2>1 DEF CallRecords
  <2>8. CallFits(g)
    BY <1>2, <2>5, <2>6, <2>7
  <2> HIDE DEF CallFits
  <2> QED
    BY <1>1, <2>2, <2>3, <2>8
<1>8. ASSUME NEW c \in Calls, NEW kind \in {"periodic", "response"}, SendAnnounce(c, kind)
      PROVE  \/ RotateRatchet(c)
             \/ CallFits(generated) /\ UNCHANGED <<rotateDue, generated, unsaved>>
  BY <1>5, <1>8 DEF SendAnnounce
<1>9. CASE IdentitySaved
  <2>1. saves # <<>> /\ Build(Head(saves).who, "periodic")
    BY <1>9 DEF IdentitySaved
  <2>2. Head(saves) \in Saves
    BY <2>1, HeadTailProperties DEF AnnouncingInv, SavesFit
  <2>3. CallFits(generated)
    BY <1>5, <2>1, <2>2 DEF Saves
  <2>4. unsaved' \subseteq unsaved
    BY <1>9 DEF IdentitySaved
  <2> HIDE DEF CallFits
  <2> QED
    BY <1>1, <1>9, <2>3, <2>4 DEF IdentitySaved, CallsTyped, CallFits
<1>10. CASE SaveFails
  BY <1>1, <1>6, <1>10 DEF SaveFails, CallsTyped
<1>11. ASSUME NEW c \in Calls, PeriodicAnnounce(c) PROVE CallsTyped'
  <2>1. RotateRatchet(c) \/ (CallFits(generated) /\ UNCHANGED <<rotateDue, generated, unsaved>>)
    BY <1>8, <1>11 DEF PeriodicAnnounce
  <2>2. UNCHANGED <<radio, recentTags, tags, announced, cut, restarts>>
    BY <1>11 DEF PeriodicAnnounce
  <2> QED
    BY <1>1, <1>7, <2>1, <2>2 DEF CallsTyped
<1>12. ASSUME NEW c \in Calls, PathRequestArrives(c) PROVE CallsTyped'
  <2>1. PICK t \in Tags : tags' = Entered(t)
    BY <1>12 DEF PathRequestArrives
  <2>2. tags' \in Seq(Tags) /\ Len(tags') <= DedupMax
    <3>1. CASE Len(tags) >= DedupMax
      <4>1. tags # <<>>
        BY <1>1, <3>1, EmptySeq
      <4>2. PICK s : s = Tail(tags)
        OBVIOUS
      <4>3. s \in Seq(Tags) /\ Len(s) = Len(tags) - 1
        BY <1>1, <4>1, <4>2, HeadTailProperties
      <4>4. tags' = Append(s, t)
        BY <2>1, <3>1, <4>2 DEF Entered
      <4>5. tags' \in Seq(Tags) /\ Len(tags') = Len(s) + 1 /\ Len(tags) \in Nat
        BY <1>1, <4>3, <4>4, AppendProperties, LenProperties
      <4> QED
        BY <1>1, <4>3, <4>5
    <3>2. CASE ~(Len(tags) >= DedupMax)
      <4>1. tags' = Append(tags, t)
        BY <2>1, <3>2 DEF Entered
      <4>2. tags' \in Seq(Tags) /\ Len(tags') = Len(tags) + 1 /\ Len(tags) \in Nat
        BY <1>1, <4>1, AppendProperties, LenProperties
      <4> QED
        BY <1>1, <3>2, <4>2
    <3> QED
      BY <3>1, <3>2
  <2>3. RotateRatchet(c) \/ (CallFits(generated) /\ UNCHANGED <<rotateDue, generated, unsaved>>)
    BY <1>4, <1>8, <1>12 DEF PathRequestArrives
  <2>4. UNCHANGED <<radio, recentTags, announced, cut, restarts>>
    BY <1>12 DEF PathRequestArrives
  <2> QED
    BY <1>1, <1>7, <2>2, <2>3, <2>4 DEF CallsTyped
<1>13. ASSUME NEW c \in Calls, AnnounceSent(c) PROVE CallsTyped'
  <2>1. call[c] \in CallRecords(generated) /\ call[c].at = "sending" /\ call[c].key # 0
    BY <1>2, <1>13 DEF AnnounceSent
  <2>2. call[c].key \in 1..generated /\ call[c].kind \in {"periodic", "response"}
    BY <1>1, <2>1 DEF CallRecords
  <2>3. announced' \subseteq 1..generated /\ recentTags' \subseteq {"periodic", "response"}
    BY <1>1, <1>13, <2>2 DEF AnnounceSent
  <2>4. CallFits(generated)
    BY <1>6, <1>13 DEF AnnounceSent
  <2> QED
    BY <1>1, <1>13, <2>3, <2>4 DEF AnnounceSent, CallsTyped
<1>14. CASE Restart
  <2>1. CallFits(generated)
    BY <1>3, <1>14 DEF Restart
  <2>2. tags' \in Seq(Tags) /\ Len(tags') = 0
    BY <1>14, EmptySeq DEF Restart
  <2>3. restarts' \in Nat
    BY <1>1, <1>14 DEF Restart
  <2>4. /\ radio' = FALSE /\ rotateDue' = rotateDue /\ recentTags' = {}
        /\ generated' = generated /\ announced' = announced /\ unsaved' = {}
        /\ cut' \subseteq 1..generated
    BY <1>1, <1>14 DEF Restart
  <2>5. Len(tags') <= DedupMax
    BY <1>1, <2>2
  <2> QED
    BY <1>1, <2>1, <2>2, <2>3, <2>4, <2>5 DEF CallsTyped
<1>15. CASE GapPasses
  BY <1>1, <1>4, <1>15 DEF GapPasses, CallsTyped
<1>16. CASE RotationFallsDue
  BY <1>1, <1>4, <1>16 DEF RotationFallsDue, CallsTyped
<1>17. CASE RadioSwitched
  BY <1>1, <1>4, <1>17 DEF RadioSwitched, CallsTyped
<1>18. CASE UNCHANGED announceVars
  BY <1>1, <1>4, <1>18 DEF announceVars, CallsTyped
<1> QED
  BY <1>9, <1>10, <1>11, <1>12, <1>13, <1>14, <1>15, <1>16, <1>17, <1>18 DEF AnnouncingNext

(* A rotation: the new key is on top of the ring, and its save the last.    *)
LEMMA RotationKeepsRings ==
  ASSUME AnnouncingInv, NEW c \in Calls, RotateRatchet(c), call[c].at = "no",
         disk' = disk, cut' = cut
  PROVE  RingsFit' /\ SavesFit'
<1>1. PICK g \in Nat \ {0} : g = generated
  BY DEF AnnouncingInv, CallsTyped
<1>2. PICK k \in Nat \ {0} : k = generated + 1
  BY <1>1
<1>3. /\ RingFits(ring, g, cut) /\ RingFits(disk, g, cut) /\ cut \subseteq 1..g
      /\ unsaved \subseteq 1..g
      /\ \A n \in 1..g : n > ring[1] => n \in cut
      /\ \A n \in 1..g : n > disk[1] => n \in cut \cup unsaved
      /\ \A i \in 1..Len(disk) : disk[i] \notin unsaved
  BY <1>1 DEF AnnouncingInv, CallsTyped, RingsFit
<1>4. PICK r : r = Capped(<<k>> \o ring)
  OBVIOUS
<1>5. RingFits(r, k, cut) /\ r[1] = k
  BY <1>1, <1>2, <1>3, <1>4, RingExtended
<1>6. PICK x : x = [who |-> c, key |-> k, ring |-> r]
  OBVIOUS
<1>7. /\ generated' = k /\ ring' = r /\ unsaved' = unsaved \cup {k}
      /\ saves' = Append(saves, x)
      /\ call' = [call EXCEPT ![c] = [at |-> "saving", kind |-> "periodic", key |-> k]]
  BY <1>2, <1>4, <1>6 DEF RotateRatchet
<1>8. k \notin cut /\ k \notin unsaved /\ (\A n \in 1..k : n \in 1..g \/ n = k)
  BY <1>1, <1>2, <1>3
<1>9. RingFits(disk, k, cut) /\ disk[1] \in 1..g /\ \A i \in 1..Len(disk) : disk[i] \in 1..g
  <2>1. RingFits(disk, k, cut)
    <3>1. g <= k
      BY <1>1, <1>2
    <3>2. \A i \in 1..Len(disk) : disk[i] \notin cut
      BY <1>3 DEF RingFits
    <3> QED
      BY <1>3, <3>1, <3>2, RingStill
  <2> QED
    BY <1>1, <1>3, <2>1, RingFirst
<1>10. RingsFit'
  <2>1. \A n \in 1..k : n > disk[1] => n \in cut \cup unsaved'
    BY <1>3, <1>7, <1>8
  <2>2. \A i \in 1..Len(disk) : disk[i] \notin unsaved'
    BY <1>1, <1>2, <1>3, <1>7, <1>9
  <2>3. \A n \in 1..k : n > r[1] => n \in cut
    BY <1>5
  <2> QED
    BY <1>5, <1>7, <1>9, <2>1, <2>2, <2>3 DEF RingsFit
<1>11. x \in Saves
  <2>1. r \in Seq(Nat)
    BY <1>5, SeqMonotonic DEF RingFits
  <2> QED
    BY <1>6, <2>1 DEF Saves
<1>12. /\ saves \in Seq(Saves) /\ Len(saves) \in Nat
       /\ \A i \in 1..Len(saves) : SaveFits(i)
       /\ \A i, j \in 1..Len(saves) :
            i < j => saves[i].key < saves[j].key /\ saves[i].who # saves[j].who
       /\ \A d \in Calls : call[d].at = "saving" <=> \E i \in 1..Len(saves) : saves[i].who = d
  BY LenProperties DEF AnnouncingInv, SavesFit
<1>13. /\ saves' \in Seq(Saves) /\ Len(saves') = Len(saves) + 1
       /\ \A i \in 1..Len(saves) : saves'[i] = saves[i]
       /\ saves'[Len(saves) + 1] = x
  BY <1>7, <1>11, <1>12, AppendProperties
<1>14. PICK n \in Nat : n = Len(saves)
  BY <1>12
<1>15. \A i \in 1..n + 1 : i \in 1..n \/ i = n + 1
  BY <1>14
<1>16. ASSUME NEW i \in 1..n PROVE SaveFits(i)' /\ saves[i].key < k
  <2>1. SaveFits(i)
    BY <1>12, <1>14
  <2>2. PICK s : s = saves[i].ring
    OBVIOUS
  <2>3. RingFits(s, g, cut) /\ saves[i].key \in unsaved /\ saves[i].key = s[1]
    BY <1>1, <2>1, <2>2 DEF SaveFits
  <2>4. RingFits(s, k, cut)
    <3>1. g <= k
      BY <1>1, <1>2
    <3>2. \A m \in 1..Len(s) : s[m] \notin cut
      BY <2>3 DEF RingFits
    <3> QED
      BY <2>3, <3>1, <3>2, RingStill
  <2>5. saves[i].key \in 1..g /\ saves[i].key < k
    <3>1. saves[i].key \in 1..g
      <4>1. unsaved \subseteq 1..g
        BY <1>3
      <4>2. saves[i].key \in unsaved
        BY <2>3
      <4> QED
        BY <4>1, <4>2
    <3>2. \A m \in 1..g : m < k
      BY <1>1, <1>2
    <3> QED
      BY <3>1, <3>2
  <2>6. \A m \in 1..k : m > saves[i].key => m \in cut \cup unsaved'
    BY <1>1, <1>7, <1>8, <2>1 DEF SaveFits
  <2> QED
    BY <1>7, <1>13, <1>14, <2>2, <2>3, <2>4, <2>5, <2>6 DEF SaveFits
<1>17. SaveFits(n + 1)'
  <2>1. saves'[n + 1] = x /\ x.ring = r /\ x.key = k
    BY <1>6, <1>13, <1>14
  <2>2. \A m \in 1..k : ~(m > k)
    OBVIOUS
  <2> QED
    BY <1>5, <1>7, <2>1, <2>2 DEF SaveFits
<1>18. /\ \A d \in Calls : call'[d].at = IF d = c THEN "saving" ELSE call[d].at
       /\ \A i \in 1..n : saves[i].who # c
  BY <1>7, <1>12, <1>14 DEF AnnouncingInv, CallsTyped
<1>19. \A i, j \in 1..n + 1 :
         i < j => saves'[i].key < saves'[j].key /\ saves'[i].who # saves'[j].who
  <2> SUFFICES ASSUME NEW i \in 1..n + 1, NEW j \in 1..n + 1, i < j
               PROVE  saves'[i].key < saves'[j].key /\ saves'[i].who # saves'[j].who
    OBVIOUS
  <2>1. i \in 1..n /\ saves'[i] = saves[i]
    BY <1>13, <1>14
  <2>2. CASE j \in 1..n
    BY <1>12, <1>13, <1>14, <2>1, <2>2
  <2>3. CASE j = n + 1
    <3>1. saves'[j].key = k /\ saves'[j].who = c
      BY <1>6, <1>13, <1>14, <2>3
    <3> QED
      BY <1>16, <1>18, <2>1, <3>1
  <2> QED
    BY <1>15, <2>2, <2>3
<1>20. \A d \in Calls : call'[d].at = "saving" <=> \E i \in 1..n + 1 : saves'[i].who = d
  <2> SUFFICES ASSUME NEW d \in Calls
               PROVE  call'[d].at = "saving" <=> \E i \in 1..n + 1 : saves'[i].who = d
    OBVIOUS
  <2>1. n + 1 \in 1..n + 1 /\ saves'[n + 1].who = c /\ 1..n \subseteq 1..n + 1
    BY <1>6, <1>13, <1>14
  <2>2. \A i \in 1..n : saves'[i] = saves[i]
    BY <1>13, <1>14
  <2> QED
    BY <1>12, <1>14, <1>15, <1>18, <2>1, <2>2
<1>21. Len(saves') = n + 1
  BY <1>13, <1>14
<1>22. SavesFit'
  BY <1>13, <1>15, <1>16, <1>17, <1>19, <1>20, <1>21 DEF SavesFit
<1> QED
  BY <1>10, <1>22

(* The oldest save ends: its call goes on, the others wait.                 *)
LEMMA SaveLeaves ==
  ASSUME AnnouncingInv, saves # <<>>, saves' = Tail(saves), NEW x,
         call' = [call EXCEPT ![Head(saves).who] = x], x.at # "saving",
         generated' = generated, cut' = cut, unsaved' \subseteq unsaved,
         \A k \in unsaved \ unsaved' : k <= saves[1].key
  PROVE  SavesFit'
<1>1. PICK n \in Nat : Len(saves) = n + 1
  <2>1. Len(saves) \in Nat \ {0}
    BY EmptySeq DEF AnnouncingInv, SavesFit
  <2>2. PICK n \in Nat : n = Len(saves) - 1
    BY <2>1
  <2> QED
    BY <2>1, <2>2
<1>2. /\ saves' \in Seq(Saves) /\ Len(saves') = n
      /\ \A i \in 1..n : saves'[i] = saves[i + 1]
  BY <1>1, HeadTailProperties DEF AnnouncingInv, SavesFit
<1>3. /\ 1 \in 1..n + 1 /\ \A i \in 1..n : i + 1 \in 2..n + 1 /\ i + 1 \in 1..n + 1 /\ 1 < i + 1
      /\ \A i \in 1..n + 1 : i = 1 \/ \E j \in 1..n : i = j + 1
  <2>1. ASSUME NEW i \in 1..n + 1, i # 1 PROVE \E j \in 1..n : i = j + 1
    <3>1. i - 1 \in 1..n /\ i = (i - 1) + 1
      BY <1>1, <2>1
    <3> QED
      BY <3>1
  <2> QED
    BY <1>1, <2>1
<1>4. /\ \A i \in 1..n + 1 : SaveFits(i) /\ saves[i] \in Saves
      /\ \A i, j \in 1..n + 1 :
           i < j => saves[i].key < saves[j].key /\ saves[i].who # saves[j].who
      /\ \A d \in Calls : call[d].at = "saving" <=> \E i \in 1..n + 1 : saves[i].who = d
  BY <1>1, ElementOfSeq DEF AnnouncingInv, SavesFit
<1>5. Head(saves) = saves[1] /\ saves[1].who \in Calls
  BY <1>3, <1>4 DEF Saves
<1>6. \A i \in 1..n : SaveFits(i)'
  <2> SUFFICES ASSUME NEW i \in 1..n PROVE SaveFits(i)'
    OBVIOUS
  <2>1. SaveFits(i + 1) /\ saves[1].key < saves[i + 1].key
    BY <1>3, <1>4
  <2>2. saves[1] \in Saves /\ saves[i + 1] \in Saves
    BY <1>3, <1>4
  <2>3. saves[1].key \in Nat /\ saves[i + 1].key \in Nat /\ generated \in Nat
    BY <2>2 DEF Saves, AnnouncingInv, CallsTyped
  <2>4. \A k \in unsaved : k >= saves[i + 1].key => k \in unsaved'
    <3>1. ASSUME NEW k \in unsaved, k >= saves[i + 1].key PROVE k \in unsaved'
      <4>1. k \in Nat
        BY DEF AnnouncingInv, CallsTyped
      <4>2. ~(k <= saves[1].key)
        BY <2>1, <2>3, <3>1, <4>1
      <4> QED
        BY <4>2
    <3> QED
      BY <3>1
  <2>5. saves[i + 1].key \in unsaved'
    BY <2>1, <2>3, <2>4 DEF SaveFits
  <2>6. \A k \in 1..generated : k > saves[i + 1].key => k \in cut \cup unsaved'
    BY <2>1, <2>3, <2>4 DEF SaveFits
  <2> QED
    BY <1>2, <2>1, <2>5, <2>6 DEF SaveFits
<1>7. \A i, j \in 1..n : i < j => saves'[i].key < saves'[j].key /\ saves'[i].who # saves'[j].who
  <2> SUFFICES ASSUME NEW i \in 1..n, NEW j \in 1..n, i < j
               PROVE  saves'[i].key < saves'[j].key /\ saves'[i].who # saves'[j].who
    OBVIOUS
  <2>1. i + 1 < j + 1
    OBVIOUS
  <2> QED
    BY <1>2, <1>3, <1>4, <2>1
<1>8. \A d \in Calls : call'[d].at = "saving" <=> \E i \in 1..n : saves'[i].who = d
  <2> SUFFICES ASSUME NEW d \in Calls
               PROVE  call'[d].at = "saving" <=> \E i \in 1..n : saves'[i].who = d
    OBVIOUS
  <2>1. \A i \in 1..n : saves'[i].who = saves[i + 1].who /\ saves[i + 1].who # saves[1].who
    BY <1>2, <1>3, <1>4
  <2>2. call'[d] = IF d = saves[1].who THEN x ELSE call[d]
    BY <1>5 DEF AnnouncingInv, CallsTyped
  <2>3. CASE d = saves[1].who
    BY <2>1, <2>2, <2>3
  <2>4. CASE d # saves[1].who
    <3>1. ASSUME NEW i \in 1..n + 1, saves[i].who = d PROVE \E j \in 1..n : saves'[j].who = d
      <4>1. i # 1
        BY <2>4, <3>1
      <4>2. PICK j \in 1..n : i = j + 1
        BY <1>3, <4>1
      <4>3. saves'[j].who = saves[i].who
        BY <2>1, <4>2
      <4> QED
        BY <3>1, <4>2, <4>3
    <3>2. ASSUME NEW j \in 1..n, saves'[j].who = d PROVE \E i \in 1..n + 1 : saves[i].who = d
      <4>1. saves[j + 1].who = d /\ j + 1 \in 1..n + 1
        BY <1>3, <2>1, <3>2
      <4> QED
        BY <4>1
    <3>3. call'[d] = call[d]
      BY <2>2, <2>4
    <3> QED
      BY <1>4, <3>1, <3>2, <3>3
  <2> QED
    BY <2>3, <2>4
<1> QED
  BY <1>2, <1>6, <1>7, <1>8 DEF SavesFit

LEMMA RingsAndSavesKept ==
  AnnouncingInv /\ [AnnouncingNext]_announceVars => RingsFit' /\ SavesFit'
<1> SUFFICES ASSUME AnnouncingInv, [AnnouncingNext]_announceVars PROVE RingsFit' /\ SavesFit'
  OBVIOUS
<1>1. generated \in Nat \ {0} /\ RingsFit /\ SavesFit /\ cut \subseteq 1..generated
  BY DEF AnnouncingInv, CallsTyped
<1> DEFINE Still == UNCHANGED <<ring, disk, saves, generated, unsaved, cut>>
<1>2. ASSUME Still, \A d \in Calls : call'[d].at = "saving" <=> call[d].at = "saving"
      PROVE  RingsFit' /\ SavesFit'
  BY <1>1, <1>2 DEF RingsFit, SavesFit, SaveFits
<1>3. ASSUME Still, NEW c, call[c].at # "saving", NEW x, x.at # "saving",
             call' = [call EXCEPT ![c] = x]
      PROVE  RingsFit' /\ SavesFit'
  <2>1. \A d \in Calls : call'[d].at = "saving" <=> call[d].at = "saving"
    BY <1>3 DEF AnnouncingInv, CallsTyped
  <2> QED
    BY <1>2, <1>3, <2>1
<1>4. ASSUME NEW c \in Calls, call[c].at = "no", NEW kind, SendAnnounce(c, kind),
             disk' = disk, cut' = cut
      PROVE  RingsFit' /\ SavesFit'
  <2>1. CASE RotateRatchet(c)
    BY <1>4, <2>1, RotationKeepsRings
  <2>2. CASE Build(c, kind) /\ Still
    <3>1. PICK x : x = [at |-> "sending", kind |-> kind, key |-> ring[1]]
      OBVIOUS
    <3>2. call' = [call EXCEPT ![c] = x] /\ x.at # "saving"
      BY <2>2, <3>1 DEF Build
    <3> QED
      BY <1>3, <1>4, <2>2, <3>2
  <2> QED
    BY <1>4, <2>1, <2>2 DEF SendAnnounce
<1>5. ASSUME NEW c \in Calls, PeriodicAnnounce(c) PROVE RingsFit' /\ SavesFit'
  BY <1>4, <1>5 DEF PeriodicAnnounce
<1>6. ASSUME NEW c \in Calls, PathRequestArrives(c) PROVE RingsFit' /\ SavesFit'
  BY <1>2, <1>4, <1>6 DEF PathRequestArrives
<1>7. NoCall.at # "saving"
  BY DEF NoCall
<1>8. ASSUME NEW c \in Calls, AnnounceSent(c) PROVE RingsFit' /\ SavesFit'
  BY <1>3, <1>7, <1>8 DEF AnnounceSent
<1>9. CASE IdentitySaved
  <2>1. saves # <<>> /\ saves' = Tail(saves) /\ UNCHANGED <<ring, generated, cut>>
    BY <1>9 DEF IdentitySaved
  <2>2. Len(saves) \in Nat \ {0} /\ 1 \in 1..Len(saves)
    BY <1>1, <2>1, EmptySeq DEF SavesFit
  <2>3. Head(saves) = saves[1] /\ SaveFits(1)
    BY <1>1, <2>2 DEF SavesFit
  <2>4. PICK s : s = saves[1].ring
    OBVIOUS
  <2>5. /\ disk' = s /\ unsaved' = unsaved \ Keys(s) /\ RingFits(s, generated, cut)
        /\ saves[1].key = s[1]
        /\ \A k \in 1..generated : k > s[1] => k \in cut \cup unsaved
    BY <1>9, <2>3, <2>4 DEF IdentitySaved, SaveFits
  <2>6. /\ DOMAIN s = 1..Len(s)
        /\ \A i \in 1..Len(s) : s[i] \in 1..generated /\ s[i] <= s[1]
        /\ s[1] \in 1..generated
    BY <1>1, <2>5, RingFirst
  <2>7. \A k \in Keys(s) : k <= s[1] /\ k \in 1..generated
    BY <2>6 DEF Keys
  <2>8. RingsFit'
    <3>1. \A i \in 1..Len(s) : s[i] \notin unsaved'
      BY <2>5, <2>6 DEF Keys
    <3>2. \A k \in 1..generated : k > s[1] => k \in cut \cup unsaved'
      <4>1. \A k \in 1..generated : k > s[1] => k \notin Keys(s)
        BY <1>1, <2>6, <2>7
      <4> QED
        BY <2>5, <4>1
    <3> QED
      BY <1>1, <2>1, <2>5, <3>1, <3>2 DEF RingsFit
  <2>9. SavesFit'
    <3>1. PICK x : x = [at |-> "sending", kind |-> "periodic", key |-> ring[1]]
      OBVIOUS
    <3>2. call' = [call EXCEPT ![Head(saves).who] = x] /\ x.at # "saving"
      BY <1>9, <3>1 DEF IdentitySaved, Build
    <3>3. unsaved' \subseteq unsaved /\ \A k \in unsaved \ unsaved' : k <= saves[1].key
      BY <2>5, <2>7
    <3> QED
      BY <2>1, <3>2, <3>3, SaveLeaves
  <2> QED
    BY <2>8, <2>9
<1>10. CASE SaveFails
  <2>1. /\ saves # <<>> /\ saves' = Tail(saves)
        /\ UNCHANGED <<ring, disk, generated, unsaved, cut>>
        /\ call' = [call EXCEPT ![Head(saves).who] = NoCall]
    BY <1>10 DEF SaveFails
  <2>2. RingsFit'
    BY <1>1, <2>1 DEF RingsFit
  <2> QED
    BY <1>7, <2>1, <2>2, SaveLeaves
<1>11. CASE Restart
  <2>1. /\ ring' = Loaded(disk) /\ disk' = disk /\ generated' = generated
        /\ cut' = cut \cup unsaved /\ unsaved' = {} /\ saves' = <<>>
        /\ call' = [c \in Calls |-> NoCall]
    BY <1>11 DEF Restart
  <2>2. ring' = disk
    BY <1>1, <2>1, AnnouncingAssumption DEF Loaded, Capped, RingsFit, RingFits
  <2>3. RingFits(disk, generated, cut')
    <3>1. RingFits(disk, generated, cut) /\ \A i \in 1..Len(disk) : disk[i] \notin cut'
      BY <1>1, <2>1 DEF RingsFit, RingFits
    <3>2. generated <= generated /\ cut \subseteq cut' /\ generated \in Nat
      BY <1>1, <2>1 DEF CallsTyped
    <3> QED
      BY <3>1, <3>2, RingStill
  <2>4. RingsFit'
    BY <1>1, <2>1, <2>2, <2>3 DEF RingsFit
  <2>5. saves' \in Seq(Saves) /\ Len(saves') = 0
    BY <2>1, EmptySeq
  <2>6. \A d \in Calls : call'[d].at # "saving"
    BY <1>7, <2>1
  <2>7. SavesFit'
    BY <2>5, <2>6 DEF SavesFit
  <2> QED
    BY <2>4, <2>7
<1> QED
  BY <1>2, <1>5, <1>6, <1>8, <1>9, <1>10, <1>11
     DEF AnnouncingNext, GapPasses, RotationFallsDue, RadioSwitched, announceVars

(* Every announced key can still be used until the ring has retired it or a *)
(* reload has cut its save off, for any depth of the ring and any number of *)
(* overlapping announces, rotations, failed saves and reloads; and the      *)
(* state is well typed (js/app.js, sendAnnounce; js/identity.js,            *)
(* rotateRatchet, exportPrivateKeys, loadFromPrivateKeys).                  *)
THEOREM AnnouncedKept == AnnouncingSpec => [](AnnouncingTypeOK /\ AnnouncedIsKept)
<1>1. AnnouncingInv => AnnouncingTypeOK /\ AnnouncedIsKept
  BY AnnouncingInvTyped, AnnouncingInvKeeps
<1>2. AnnouncingInv /\ [AnnouncingNext]_announceVars => AnnouncingInv'
  BY CallsKept, RingsAndSavesKept DEF AnnouncingInv
<1> QED
  BY <1>1, <1>2, AnnouncingInitial, PTL DEF AnnouncingSpec

(***************************************************************************)
(* The NomadNet browser. A navigation that has its link goes to the node of *)
(* the one that opened the link; so does what is browsed. An answer is to a *)
(* request that was sent.                                                   *)
(***************************************************************************)
NavRecords ==
  [at : {"no", "opening", "building", "asked", "over"},
   node : NomadNodes \cup {Nowhere}, path : Paths \cup {Nowhere},
   push : BOOLEAN, via : Navs \cup {NoNav}]

Browsed ==
  [link : Navs \cup {NoNav}, node : NomadNodes \cup {Nowhere}, path : Paths \cup {Nowhere}]

Visited == [node : NomadNodes, path : Paths]

HasLink(n) == nav[n].at \in {"building", "asked"}

NavFits(n) ==
  /\ nav[n].at = "opening" => nav[n].node \in NomadNodes /\ nav[n].path \in Paths
  /\ HasLink(n) => nav[n].via \in Navs /\ HasLink(nav[n].via)
                   /\ nav[nav[n].via].node = nav[n].node

BrowseFits ==
  browse.link # NoNav => HasLink(browse.link) /\ nav[browse.link].node = browse.node

AnswersFit ==
  /\ \A n \in answers : nav[n].at = "asked"
  /\ \A l \in Navs : nnRx[l] # NoNav => nav[nnRx[l]].at = "asked"

NnInv == NnTypeOK /\ (\A n \in Navs : NavFits(n)) /\ BrowseFits /\ AnswersFit

LEMMA NnInitial == NnInit => NnInv
<1> SUFFICES ASSUME NnInit PROVE NnInv
  OBVIOUS
<1>1. Unused \in NavRecords /\ Unused.at = "no"
  BY DEF Unused, NavRecords
<1>2. nav \in [Navs -> NavRecords] /\ \A n \in Navs : nav[n].at = "no"
  BY <1>1 DEF NnInit
<1>3. visits \in Seq(Visited) /\ visit = 0 /\ Len(visits) = 0 /\ visits = <<>>
  BY EmptySeq DEF NnInit
<1>4. NnTypeOK
  BY <1>2, <1>3 DEF NnInit, NnTypeOK, NavRecords, Visited
<1> QED
  BY <1>2, <1>4 DEF NnInit, NnInv, NavFits, HasLink, BrowseFits, AnswersFit

(* The entry goes behind the current one, and what was ahead is forgotten.  *)
LEMMA Pushed ==
  ASSUME NnTypeOK, NEW e \in Visited, visits' = Append(SubSeq(visits, 1, visit), e),
         visit' = visit + 1
  PROVE  /\ visits' \in Seq(Visited) /\ visit' \in 0..Len(visits')
         /\ (visit' = 0 <=> visits' = <<>>)
<1>1. visits \in Seq(Visited) /\ visit \in Nat /\ visit <= Len(visits) /\ Len(visits) \in Nat
  BY LenProperties DEF NnTypeOK, Visited
<1>2. PICK s : s = SubSeq(visits, 1, visit)
  OBVIOUS
<1>3. \A i \in 1..visit : visits[i] \in Visited
  BY <1>1, ElementOfSeq
<1>4. s \in Seq(Visited) /\ Len(s) = visit
  BY <1>1, <1>2, <1>3, SubSeqProperties
<1>5. visits' \in Seq(Visited) /\ Len(visits') = visit + 1
  BY <1>2, <1>4, AppendProperties
<1>6. visits' # <<>>
  BY <1>1, <1>5, EmptySeq
<1>7. visit' \in 0..Len(visits') /\ visit' # 0
  BY <1>1, <1>5
<1> QED
  BY <1>5, <1>6, <1>7

(* A navigation that had no link comes to one that leads to its node.       *)
LEMMA ProceedsWell ==
  ASSUME NnInv, NEW n \in Navs, ~HasLink(n), NEW asked \in NavRecords, NEW l \in Navs,
         asked.node \in NomadNodes, asked.path \in Paths, Proceeds(n, asked, l),
         l = n \/ (HasLink(l) /\ nav[l].node = asked.node),
         ~asked.push => (visit' \in 0..Len(visits) /\ (visit' = 0 <=> visits = <<>>)
                         /\ visits' = visits)
  PROVE  /\ nav' \in [Navs -> NavRecords] /\ browse' \in Browsed
         /\ visits' \in Seq(Visited) /\ visit' \in 0..Len(visits')
         /\ (visit' = 0 <=> visits' = <<>>)
         /\ \A m \in Navs : NavFits(m)'
         /\ BrowseFits'
         /\ \A m \in Navs : nav[m].at = "asked" => nav'[m].at = "asked"
<1>1. PICK x : x = [asked EXCEPT !.at = "building", !.via = l]
  OBVIOUS
<1>2. /\ x \in NavRecords /\ x.at = "building" /\ x.via = l
      /\ x.node = asked.node /\ x.path = asked.path
  BY <1>1 DEF NavRecords
<1>3. nav \in [Navs -> NavRecords]
  BY DEF NnInv, NnTypeOK, NavRecords
<1>4. nav' = [nav EXCEPT ![n] = x]
  BY <1>1 DEF Proceeds
<1>5. nav' \in [Navs -> NavRecords] /\ \A m \in Navs : nav'[m] = IF m = n THEN x ELSE nav[m]
  BY <1>2, <1>3, <1>4
<1>6. browse' = [link |-> l, node |-> asked.node, path |-> asked.path]
  BY DEF Proceeds
<1>7. browse' \in Browsed
  BY <1>6 DEF Browsed
<1>8. \A m \in Navs : HasLink(m) => HasLink(m)' /\ nav'[m].node = nav[m].node
  BY <1>5 DEF HasLink
<1>9. HasLink(l)' /\ nav'[l].node = asked.node
  BY <1>2, <1>5, <1>8 DEF HasLink
<1>10. ASSUME NEW m \in Navs PROVE NavFits(m)'
  <2>1. CASE m = n
    BY <1>2, <1>5, <1>9, <2>1 DEF NavFits, HasLink
  <2>2. CASE m # n
    <3>1. nav'[m] = nav[m] /\ NavFits(m)
      BY <1>5, <2>2 DEF NnInv
    <3>2. HasLink(m)' => HasLink(m)
      BY <3>1 DEF HasLink
    <3> QED
      BY <1>8, <3>1, <3>2 DEF NavFits
  <2> QED
    BY <2>1, <2>2
<1>11. BrowseFits'
  BY <1>6, <1>9 DEF BrowseFits
<1>12. /\ visits' \in Seq(Visited) /\ visit' \in 0..Len(visits')
       /\ (visit' = 0 <=> visits' = <<>>)
  <2>1. CASE asked.push
    <3>1. [node |-> asked.node, path |-> asked.path] \in Visited
      BY DEF Visited
    <3>2. /\ visits' = Append(SubSeq(visits, 1, visit), [node |-> asked.node, path |-> asked.path])
          /\ visit' = visit + 1
      BY <2>1 DEF Proceeds
    <3> QED
      BY <3>1, <3>2, Pushed DEF NnInv
  <2>2. CASE ~asked.push
    BY <2>2 DEF NnInv, NnTypeOK, Visited
  <2> QED
    BY <2>1, <2>2
<1>13. \A m \in Navs : nav[m].at = "asked" => nav'[m].at = "asked"
  BY <1>5 DEF HasLink
<1> QED
  BY <1>5, <1>7, <1>10, <1>11, <1>12, <1>13

(* A navigation that begins, over the link there is or to await a new one.  *)
LEMMA StartsWell ==
  ASSUME NnInv, NEW n \in Navs, nav[n].at = "no", NEW node \in NomadNodes, NEW path \in Paths,
         NEW push \in BOOLEAN, Starts(n, node, path, push),
         ~(push /\ Reusable(node)) =>
            visits' = visits /\ visit' \in 0..Len(visits) /\ (visit' = 0 <=> visits = <<>>)
  PROVE  /\ nav' \in [Navs -> NavRecords] /\ browse' \in Browsed
         /\ visits' \in Seq(Visited) /\ visit' \in 0..Len(visits')
         /\ (visit' = 0 <=> visits' = <<>>)
         /\ \A m \in Navs : NavFits(m)'
         /\ BrowseFits'
         /\ \A m \in Navs : nav[m].at = "asked" => nav'[m].at = "asked"
         /\ nnClosing' \subseteq nnActive
<1>1. PICK asked : asked = [at |-> "opening", node |-> node, path |-> path, push |-> push,
                            via |-> NoNav]
  OBVIOUS
<1>2. /\ asked \in NavRecords /\ asked.at = "opening" /\ asked.node = node
      /\ asked.path = path /\ asked.push = push
  BY <1>1 DEF NavRecords
<1>3. ~HasLink(n)
  BY DEF HasLink
<1>4. nnClosing \subseteq nnActive /\ nnActive \subseteq Navs
  BY DEF NnInv, NnTypeOK
<1>5. CASE Reusable(node)
  <2>1. PICK l : l = browse.link
    OBVIOUS
  <2>2. l \in Navs /\ HasLink(l) /\ nav[l].node = asked.node
    BY <1>2, <1>4, <1>5, <2>1, NomadNetAssumption DEF Reusable, NnInv, BrowseFits
  <2>3. Proceeds(n, asked, l) /\ nnClosing' = nnClosing
    BY <1>1, <1>5, <2>1 DEF Starts
  <2>4. ~asked.push => (visit' \in 0..Len(visits) /\ (visit' = 0 <=> visits = <<>>)
                         /\ visits' = visits)
    BY <1>2
  <2>5. asked.node \in NomadNodes /\ asked.path \in Paths
    BY <1>2
  <2> QED
    BY <1>2, <1>3, <1>4, <2>2, <2>3, <2>4, <2>5, ProceedsWell
<1>6. CASE ~Reusable(node)
  <2>1. /\ nnClosing' = nnClosing \cup ({browse.link} \cap nnActive)
        /\ nav' = [nav EXCEPT ![n] = asked] /\ browse' = browse
    BY <1>1, <1>6 DEF Starts
  <2>2. nav \in [Navs -> NavRecords] /\ browse \in Browsed /\ visits \in Seq(Visited)
    BY DEF NnInv, NnTypeOK, NavRecords, Browsed, Visited
  <2>3. /\ nav' \in [Navs -> NavRecords]
        /\ \A m \in Navs : nav'[m] = IF m = n THEN asked ELSE nav[m]
    BY <1>2, <2>1, <2>2
  <2>4. \A m \in Navs : HasLink(m)' = HasLink(m) /\ (HasLink(m) => nav'[m].node = nav[m].node)
    BY <1>2, <1>3, <2>3 DEF HasLink
  <2>5. ASSUME NEW m \in Navs PROVE NavFits(m)'
    <3>1. CASE m = n
      BY <1>2, <1>3, <2>3, <2>4, <3>1 DEF NavFits
    <3>2. CASE m # n
      <4>1. NavFits(m) /\ nav'[m] = nav[m]
        BY <2>3, <3>2 DEF NnInv
      <4> QED
        BY <2>4, <4>1 DEF NavFits
    <3> QED
      BY <3>1, <3>2
  <2>6. BrowseFits'
    BY <2>1, <2>2, <2>4 DEF NnInv, BrowseFits, Browsed
  <2>7. \A m \in Navs : nav[m].at = "asked" => nav'[m].at = "asked"
    BY <1>3, <2>3
  <2>8. visits' = visits /\ visit' \in 0..Len(visits) /\ (visit' = 0 <=> visits = <<>>)
    BY <1>6
  <2>9. nnClosing' \subseteq nnActive
    BY <1>4, <2>1
  <2> QED
    BY <2>1, <2>2, <2>3, <2>5, <2>6, <2>7, <2>8, <2>9
<1> QED
  BY <1>5, <1>6

(* A navigation that ends before it has a link.                             *)
LEMMA NavEnds ==
  ASSUME NnInv, NEW n \in Navs, ~HasLink(n), nav' = [nav EXCEPT ![n].at = "over"],
         browse' = browse
  PROVE  /\ nav' \in [Navs -> NavRecords]
         /\ (\A m \in Navs : NavFits(m)') /\ BrowseFits'
         /\ \A m \in Navs : nav[m].at = "asked" => nav'[m].at = "asked"
<1>1. nav \in [Navs -> NavRecords] /\ browse \in Browsed
  BY DEF NnInv, NnTypeOK, NavRecords, Browsed
<1>2. PICK x : x = [nav[n] EXCEPT !.at = "over"]
  OBVIOUS
<1>3. x \in NavRecords /\ x.at = "over"
  BY <1>1, <1>2 DEF NavRecords
<1>4. nav' \in [Navs -> NavRecords] /\ \A m \in Navs : nav'[m] = IF m = n THEN x ELSE nav[m]
  BY <1>1, <1>2, <1>3
<1>5. \A m \in Navs : HasLink(m)' = HasLink(m) /\ (HasLink(m) => nav'[m].node = nav[m].node)
  BY <1>3, <1>4 DEF HasLink
<1>6. ASSUME NEW m \in Navs PROVE NavFits(m)'
  <2>1. CASE m = n
    BY <1>3, <1>4, <1>5, <2>1 DEF NavFits
  <2>2. CASE m # n
    <3>1. NavFits(m) /\ nav'[m] = nav[m]
      BY <1>4, <2>2 DEF NnInv
    <3> QED
      BY <1>5, <3>1 DEF NavFits
  <2> QED
    BY <2>1, <2>2
<1>7. BrowseFits'
  BY <1>1, <1>5 DEF NnInv, BrowseFits, Browsed
<1>8. \A m \in Navs : nav[m].at = "asked" => nav'[m].at = "asked"
  BY <1>4 DEF HasLink
<1> QED
  BY <1>4, <1>6, <1>7, <1>8

(* Steps of the answers and of the links, which no navigation notices.      *)
LEMMA NavsStill ==
  ASSUME NnInv, nav' = nav, browse' = browse \/ browse'.link = NoNav
  PROVE  (\A m \in Navs : NavFits(m)') /\ BrowseFits'
  BY DEF NnInv, NavFits, HasLink, BrowseFits

(* A page is shown in answer to the request that is pending.                *)
PageThen ==
  page' # page =>
    /\ page'.path = nav[page'.of].path
    /\ browse.link = nav[page'.of].via => page'.node = nav[page'.of].node

LEMMA ResponseWell ==
  ASSUME NnInv, NEW n \in Navs, nav[n].at = "asked", ResponseHandled(n)
  PROVE  /\ nnSlot' \in [Navs -> Navs \cup {NoNav}]
         /\ page' \in [node : NomadNodes \cup {Nowhere}, path : Paths \cup {Nowhere},
                       of : Navs \cup {NoNav}]
         /\ PageThen
<1>1. /\ nnSlot \in [Navs -> Navs \cup {NoNav}] /\ browse \in Browsed
      /\ nav \in [Navs -> NavRecords]
      /\ page \in [node : NomadNodes \cup {Nowhere}, path : Paths \cup {Nowhere},
                   of : Navs \cup {NoNav}]
  BY DEF NnInv, NnTypeOK, NavRecords, Browsed
<1>2. nav[n].via \in Navs /\ HasLink(nav[n].via) /\ nav[nav[n].via].node = nav[n].node
  BY DEF NnInv, NavFits, HasLink
<1>3. CASE IsPending(n)
  <2>1. nnSlot' = [nnSlot EXCEPT ![nav[n].via] = NoNav]
    BY <1>3 DEF ResponseHandled
  <2>2. page' = page \/ page' = [node |-> browse.node, path |-> nav[n].path, of |-> n]
    BY <1>3 DEF ResponseHandled, IsPending
  <2>3. browse.link = nav[n].via => browse.node = nav[n].node
    BY <1>2, NomadNetAssumption DEF NnInv, BrowseFits
  <2>4. nnSlot' \in [Navs -> Navs \cup {NoNav}]
    BY <1>1, <2>1
  <2>5. browse.node \in NomadNodes \cup {Nowhere} /\ nav[n].path \in Paths \cup {Nowhere}
    BY <1>1 DEF Browsed, NavRecords
  <2>6. CASE page' = page
    BY <1>1, <2>4, <2>6 DEF PageThen
  <2>7. CASE page' = [node |-> browse.node, path |-> nav[n].path, of |-> n]
    BY <2>3, <2>4, <2>5, <2>7 DEF PageThen
  <2> QED
    BY <2>2, <2>6, <2>7
<1>4. CASE ~IsPending(n)
  BY <1>1, <1>4 DEF ResponseHandled, PageThen
<1> QED
  BY <1>3, <1>4

LEMMA NnNextInv == NnInv /\ [NnNext]_nnVars => NnInv' /\ PageThen
<1> SUFFICES ASSUME NnInv, [NnNext]_nnVars PROVE NnInv' /\ PageThen
  OBVIOUS
<1> DEFINE Pages == [node : NomadNodes \cup {Nowhere}, path : Paths \cup {Nowhere},
                     of : Navs \cup {NoNav}]
           Slots == [Navs -> Navs \cup {NoNav}]
<1>1. /\ nnRadio \in BOOLEAN /\ browse \in Browsed
      /\ visits \in Seq(Visited) /\ visit \in 0..Len(visits) /\ (visit = 0 <=> visits = <<>>)
      /\ nav \in [Navs -> NavRecords] /\ nnClosing \subseteq nnActive /\ nnActive \subseteq Navs
      /\ nnSlot \in Slots /\ nnRx \in Slots /\ answers \subseteq Navs /\ page \in Pages
      /\ (\A n \in Navs : NavFits(n)) /\ BrowseFits /\ AnswersFit
  BY DEF NnInv, NnTypeOK, NavRecords, Browsed, Visited
<1>2. /\ \A n \in answers : nav[n].at = "asked"
      /\ \A l \in Navs : nnRx[l] # NoNav => nav[nnRx[l]].at = "asked"
  BY <1>1 DEF AnswersFit
<1>3. ASSUME NEW n \in Navs PROVE HasLink(n) => nav[n].via \in Navs
  BY <1>1 DEF NavFits
<1>4. ASSUME nnRadio' \in BOOLEAN, browse' \in Browsed,
             visits' \in Seq(Visited), visit' \in 0..Len(visits'), visit' = 0 <=> visits' = <<>>,
             nav' \in [Navs -> NavRecords], nnClosing' \subseteq nnActive', nnActive' \subseteq Navs,
             nnSlot' \in Slots, nnRx' \in Slots, answers' \subseteq Navs, page' \in Pages,
             \A n \in Navs : NavFits(n)', BrowseFits', AnswersFit', PageThen
      PROVE  NnInv' /\ PageThen
  BY <1>4 DEF NnInv, NnTypeOK, NavRecords, Browsed, Visited
<1> HIDE DEF Pages, Slots
(* What the answers' state has to be like when the navigations go on.       *)
<1>5. ASSUME \A m \in Navs : nav[m].at = "asked" => nav'[m].at = "asked",
             answers' = answers, nnRx' = nnRx
      PROVE  AnswersFit'
  <2>1. \A n \in answers : n \in Navs
    BY <1>1
  <2>2. \A l \in Navs : nnRx[l] # NoNav => nnRx[l] \in Navs
    BY <1>1 DEF Slots
  <2> QED
    BY <1>2, <1>5, <2>1, <2>2 DEF AnswersFit
<1>6. page' = page => PageThen
  BY DEF PageThen
<1>7. ASSUME NEW n \in Navs, Navigates(n) PROVE NnInv' /\ PageThen
  <2>1. PICK node \in NomadNodes, path \in Paths :
          /\ Starts(n, node, path, TRUE)
          /\ ~Reusable(node) => visits' = visits /\ visit' = visit
    BY <1>7 DEF Navigates
  <2>2. /\ nav[n].at = "no" /\ nnRadio' = nnRadio /\ nnActive' = nnActive
        /\ nnSlot' = nnSlot /\ nnRx' = nnRx /\ answers' = answers /\ page' = page
    BY <1>7 DEF Navigates, nnLinkVars
  <2>3. ~(TRUE /\ Reusable(node)) =>
          visits' = visits /\ visit' \in 0..Len(visits) /\ (visit' = 0 <=> visits = <<>>)
    BY <1>1, <2>1
  <2>4. TRUE \in BOOLEAN
    OBVIOUS
  <2>5. /\ nav' \in [Navs -> NavRecords] /\ browse' \in Browsed
        /\ visits' \in Seq(Visited) /\ visit' \in 0..Len(visits')
        /\ (visit' = 0 <=> visits' = <<>>)
        /\ \A m \in Navs : NavFits(m)'
        /\ BrowseFits'
        /\ \A m \in Navs : nav[m].at = "asked" => nav'[m].at = "asked"
        /\ nnClosing' \subseteq nnActive
    BY <2>1, <2>2, <2>3, <2>4, StartsWell
  <2> QED
    BY <1>1, <1>4, <1>5, <1>6, <2>2, <2>5
<1>8. ASSUME NEW n \in Navs, Revisits(n) PROVE NnInv' /\ PageThen
  <2>1. PICK i \in DOMAIN visits :
          /\ visit' = i
          /\ IF nnRadio THEN Starts(n, visits[i].node, visits[i].path, FALSE)
                        ELSE /\ nav' = [nav EXCEPT ![n].at = "over"]
                             /\ UNCHANGED <<browse, nnClosing>>
    BY <1>8 DEF Revisits
  <2>2. /\ nav[n].at = "no" /\ nnRadio' = nnRadio /\ nnActive' = nnActive /\ visits' = visits
        /\ nnSlot' = nnSlot /\ nnRx' = nnRx /\ answers' = answers /\ page' = page
    BY <1>8 DEF Revisits, nnLinkVars
  <2>3. i \in 1..Len(visits) /\ visits[i] \in Visited /\ visits # <<>>
    BY <1>1, <2>1, ElementOfSeq, LenProperties, EmptySeq
  <2>4. visits' = visits /\ visit' \in 0..Len(visits) /\ (visit' = 0 <=> visits = <<>>)
    <3>1. visit' \in 0..Len(visits) /\ visit' # 0
      BY <1>1, <2>1, <2>3, LenProperties
    <3> QED
      BY <2>2, <2>3, <3>1
  <2>5. CASE nnRadio
    <3>1. PICK node \in NomadNodes, path \in Paths :
            node = visits[i].node /\ path = visits[i].path
      BY <2>3 DEF Visited
    <3>2. Starts(n, node, path, FALSE) /\ FALSE \in BOOLEAN
      BY <2>1, <2>5, <3>1
    <3>3. ~(FALSE /\ Reusable(node)) =>
            visits' = visits /\ visit' \in 0..Len(visits) /\ (visit' = 0 <=> visits = <<>>)
      BY <2>4
    <3>4. /\ nav' \in [Navs -> NavRecords] /\ browse' \in Browsed
          /\ visits' \in Seq(Visited) /\ visit' \in 0..Len(visits')
          /\ (visit' = 0 <=> visits' = <<>>)
          /\ \A m \in Navs : NavFits(m)'
          /\ BrowseFits'
          /\ \A m \in Navs : nav[m].at = "asked" => nav'[m].at = "asked"
          /\ nnClosing' \subseteq nnActive
      BY <2>2, <3>2, <3>3, StartsWell
    <3> QED
      BY <1>1, <1>4, <1>5, <1>6, <2>2, <3>4
  <2>6. CASE ~nnRadio
    <3>1. nav' = [nav EXCEPT ![n].at = "over"] /\ browse' = browse /\ nnClosing' = nnClosing
      BY <2>1, <2>6
    <3>2. ~HasLink(n) /\ nav[n].at # "asked" /\ nav[n].at # "opening"
      BY <2>2 DEF HasLink
    <3> QED
      BY <1>1, <1>4, <1>5, <1>6, <2>2, <2>4, <3>1, <3>2, NavEnds
  <2> QED
    BY <2>5, <2>6
<1>9. ASSUME NEW n \in Navs, NnLinkOpens(n) PROVE NnInv' /\ PageThen
  <2>1. /\ nav[n].at = "opening" /\ nnActive' = nnActive \cup {n} /\ Proceeds(n, nav[n], n)
        /\ ~nav[n].push => visits' = visits /\ visit' = visit
        /\ nnRadio' = nnRadio /\ nnClosing' = nnClosing
        /\ nnSlot' = nnSlot /\ nnRx' = nnRx /\ answers' = answers /\ page' = page
    BY <1>9 DEF NnLinkOpens, nnLinkVars
  <2>2. ~HasLink(n) /\ nav[n].node \in NomadNodes /\ nav[n].path \in Paths
    BY <1>1, <2>1 DEF HasLink, NavFits
  <2>3. PICK asked \in NavRecords : asked = nav[n]
    BY <1>1
  <2>4. ~asked.push => (visit' \in 0..Len(visits) /\ (visit' = 0 <=> visits = <<>>)
                         /\ visits' = visits)
    BY <1>1, <2>1, <2>3
  <2>5. /\ nav' \in [Navs -> NavRecords] /\ browse' \in Browsed
        /\ visits' \in Seq(Visited) /\ visit' \in 0..Len(visits')
        /\ (visit' = 0 <=> visits' = <<>>)
        /\ \A m \in Navs : NavFits(m)'
        /\ BrowseFits'
        /\ \A m \in Navs : nav[m].at = "asked" => nav'[m].at = "asked"
    BY <2>1, <2>2, <2>3, <2>4, ProceedsWell
  <2>6. nnClosing' \subseteq nnActive' /\ nnActive' \subseteq Navs
    BY <1>1, <2>1
  <2> QED
    BY <1>1, <1>4, <1>5, <1>6, <2>1, <2>5, <2>6
<1>10. ASSUME NEW n \in Navs, NnOpenFails(n) PROVE NnInv' /\ PageThen
  <2>1. /\ nav[n].at = "opening" /\ nav' = [nav EXCEPT ![n].at = "over"]
        /\ UNCHANGED <<nnRadio, browse, visits, visit, nnActive, nnClosing, nnLinkVars, page>>
    BY <1>10 DEF NnOpenFails
  <2>2. ~HasLink(n)
    BY <2>1 DEF HasLink
  <2> QED
    BY <1>1, <1>4, <1>5, <1>6, <2>1, <2>2, NavEnds DEF nnLinkVars
<1>11. ASSUME NEW n \in Navs, NnRequestSent(n) PROVE NnInv' /\ PageThen
  <2>1. /\ nav[n].at = "building" /\ nav' = [nav EXCEPT ![n].at = "asked"]
        /\ nnSlot' = [nnSlot EXCEPT ![nav[n].via] = n]
        /\ UNCHANGED <<nnRadio, browse, visits, visit, nnActive, nnClosing, nnRx, answers, page>>
    BY <1>11 DEF NnRequestSent
  <2>2. nnSlot' \in Slots
    BY <1>1, <2>1 DEF Slots
  <2>3. PICK x : x = [nav[n] EXCEPT !.at = "asked"]
    OBVIOUS
  <2>4. /\ x \in NavRecords /\ x.at = "asked" /\ x.node = nav[n].node /\ x.path = nav[n].path
        /\ x.via = nav[n].via
    BY <1>1, <2>3 DEF NavRecords
  <2>5. nav' \in [Navs -> NavRecords] /\ \A m \in Navs : nav'[m] = IF m = n THEN x ELSE nav[m]
    BY <1>1, <2>1, <2>3, <2>4
  <2>6. /\ \A m \in Navs : HasLink(m)' = HasLink(m)
        /\ \A m \in Navs : /\ nav'[m].node = nav[m].node /\ nav'[m].via = nav[m].via
                           /\ nav'[m].path = nav[m].path
                           /\ nav'[m].at = "opening" => nav[m].at = "opening"
    BY <2>1, <2>4, <2>5 DEF HasLink
  <2>7. \A m \in Navs : NavFits(m)'
    BY <1>1, <2>6 DEF NavFits
  <2>8. BrowseFits'
    BY <1>1, <2>1, <2>6 DEF BrowseFits, Browsed
  <2>9. \A m \in Navs : nav[m].at = "asked" => nav'[m].at = "asked"
    BY <2>4, <2>5
  <2> QED
    BY <1>1, <1>4, <1>5, <1>6, <2>1, <2>2, <2>5, <2>7, <2>8, <2>9
<1>12. ASSUME NEW n \in Navs, AnswerComes(n) PROVE NnInv' /\ PageThen
  <2>1. /\ nav[n].at = "asked" /\ answers' = answers \cup {n}
        /\ UNCHANGED <<nnRadio, browse, visits, visit, nav, nnActive, nnClosing, nnSlot, nnRx, page>>
    BY <1>12 DEF AnswerComes, Answerable
  <2>2. AnswersFit' /\ answers' \subseteq Navs
    BY <1>1, <1>2, <2>1 DEF AnswersFit
  <2> QED
    BY <1>1, <1>4, <1>6, <2>1, <2>2, NavsStill
<1>13. ASSUME NEW n \in Navs, AnswerHandled(n) PROVE NnInv' /\ PageThen
  <2>1. /\ n \in answers /\ answers' = answers \ {n} /\ ResponseHandled(n)
        /\ UNCHANGED <<nnRadio, browse, visits, visit, nav, nnActive, nnClosing, nnRx>>
    BY <1>13 DEF AnswerHandled
  <2>2. AnswersFit' /\ answers' \subseteq Navs
    BY <1>1, <1>2, <2>1 DEF AnswersFit
  <2>3. nnSlot' \in Slots /\ page' \in Pages /\ PageThen
    BY <1>2, <2>1, ResponseWell DEF Slots, Pages
  <2> QED
    BY <1>1, <1>4, <2>1, <2>2, <2>3, NavsStill
<1>14. ASSUME NEW n \in Navs, PageAdvertised(n) PROVE NnInv' /\ PageThen
  <2>1. /\ nav[n].at = "asked" /\ nnRx' = [nnRx EXCEPT ![nav[n].via] = n]
        /\ UNCHANGED <<nnRadio, browse, visits, visit, nav, nnActive, nnClosing, nnSlot, answers,
                       page>>
    BY <1>14 DEF PageAdvertised, Answerable
  <2>2. AnswersFit' /\ nnRx' \in Slots
    BY <1>1, <1>2, <2>1 DEF AnswersFit, Slots
  <2> QED
    BY <1>1, <1>4, <1>6, <2>1, <2>2, NavsStill
<1>15. ASSUME NEW l \in Navs, nnRx' = [nnRx EXCEPT ![l] = NoNav], nav' = nav, answers' = answers
       PROVE  AnswersFit' /\ nnRx' \in Slots
  BY <1>1, <1>2, <1>15 DEF AnswersFit, Slots
<1>16. ASSUME NEW l \in Navs, PageAssembled(l) PROVE NnInv' /\ PageThen
  <2>1. /\ nnRx[l] # NoNav /\ nnRx' = [nnRx EXCEPT ![l] = NoNav] /\ ResponseHandled(nnRx[l])
        /\ UNCHANGED <<nnRadio, browse, visits, visit, nav, nnActive, nnClosing, answers>>
    BY <1>16 DEF PageAssembled
  <2>2. PICK n \in Navs : n = nnRx[l] /\ nav[n].at = "asked"
    BY <1>1, <1>2, <2>1 DEF Slots
  <2>3. nnSlot' \in Slots /\ page' \in Pages /\ PageThen
    BY <2>1, <2>2, ResponseWell DEF Slots, Pages
  <2>4. AnswersFit' /\ nnRx' \in Slots
    BY <1>15, <2>1
  <2> QED
    BY <1>1, <1>4, <2>1, <2>3, <2>4, NavsStill
<1>17. ASSUME NEW l \in Navs, PageFails(l) PROVE NnInv' /\ PageThen
  <2>1. /\ nnRx' = [nnRx EXCEPT ![l] = NoNav]
        /\ UNCHANGED <<nnRadio, browse, visits, visit, nav, nnActive, nnClosing, nnSlot, answers,
                       page>>
    BY <1>17 DEF PageFails
  <2>2. AnswersFit' /\ nnRx' \in Slots
    BY <1>15, <2>1
  <2> QED
    BY <1>1, <1>4, <1>6, <2>1, <2>2, NavsStill
<1>18. ASSUME NEW l \in Navs, NnLinkCloses(l) PROVE NnInv' /\ PageThen
  <2>1. /\ nnActive' = nnActive \ {l} /\ nnClosing' = nnClosing \ {l}
        /\ UNCHANGED <<nnRadio, browse, visits, visit, nav, nnSlot, nnRx, answers, page>>
    BY <1>18 DEF NnLinkCloses, nnLinkVars
  <2>2. nnClosing' \subseteq nnActive' /\ nnActive' \subseteq Navs
    BY <1>1, <2>1
  <2> QED
    BY <1>1, <1>4, <1>5, <1>6, <2>1, <2>2, NavsStill
<1>19. CASE NnLosesTransport
  <2>1. /\ nnRadio' = FALSE /\ browse' = [browse EXCEPT !.link = NoNav, !.node = Nowhere]
        /\ UNCHANGED <<visits, visit, nav, nnActive, nnClosing, nnSlot, nnRx, answers, page>>
    BY <1>19 DEF NnLosesTransport, nnLinkVars
  <2>2. browse' \in Browsed /\ browse'.link = NoNav
    BY <1>1, <2>1 DEF Browsed
  <2> QED
    BY <1>1, <1>4, <1>5, <1>6, <2>1, <2>2, NavsStill
<1>20. CASE UNCHANGED nnVars
  <2>1. UNCHANGED <<nnRadio, browse, visits, visit, nav, nnActive, nnClosing, nnSlot, nnRx, answers,
                    page>>
    BY <1>20 DEF nnVars
  <2> QED
    BY <1>1, <1>4, <1>5, <1>6, <2>1, NavsStill
<1> QED
  BY <1>7, <1>8, <1>9, <1>10, <1>11, <1>12, <1>13, <1>14, <1>16, <1>17, <1>18, <1>19, <1>20
     DEF NnNext

(* A page is shown under the path it was asked for and, over the browse     *)
(* link, under the node it came from (handleNomadNetResponse), for any      *)
(* number of navigations under way, of nodes and of pages.                  *)
THEOREM PagesCorrect == NnSpec => []NnTypeOK /\ PageMatchesRequest
<1>1. NnInv => NnTypeOK
  BY DEF NnInv
<1>2. PageThen =>
        [page' # page =>
           /\ page'.path = nav[page'.of].path
           /\ browse.link = nav[page'.of].via => page'.node = nav[page'.of].node]_page
  BY DEF PageThen
<1> QED
  BY <1>1, <1>2, NnInitial, NnNextInv, PTL DEF NnSpec, PageMatchesRequest

(***************************************************************************)
(* The formats. What is built is its parts joined, so each part is found    *)
(* again at its offset as long as the cut leaves it, and a signature, which *)
(* is over one sequence of bytes only, tells whether the last part is       *)
(* whole. CodecInv says where the bytes and the parser's answer come from.  *)
(***************************************************************************)
(* Three parts joined and cut after the second or later: the second is in   *)
(* its place.                                                               *)
LEMMA PartsInPlace ==
  ASSUME NEW S, NEW a \in Seq(S), NEW b \in Seq(S), NEW c \in Seq(S),
         NEW n \in Nat, Len(a) + Len(b) <= n, n <= Len(a) + Len(b) + Len(c)
  PROVE  Subarray(Upto(a \o b \o c, n), Len(a), Len(a) + Len(b)) = b
<1> DEFINE x == a \o b \o c
           y == Upto(x, n)
<1>1. /\ x \in Seq(S) /\ Len(x) = Len(a) + Len(b) + Len(c)
      /\ \A i \in 1..(Len(a) + Len(b)) : x[i] = (a \o b)[i]
      /\ \A i \in 1..(Len(a) + Len(b)) : (a \o b)[i] = IF i <= Len(a) THEN a[i]
                                                      ELSE b[i - Len(a)]
  BY ConcatProperties, LenProperties
<1>2. \A i \in 1..Len(x) : x[i] \in S
  BY <1>1, ElementOfSeq
<1>3. y \in Seq(S) /\ Len(y) = n /\ \A i \in 1..n : y[i] = x[i]
  <2>1. \A i \in 1..n : x[i] \in S
    BY <1>1, <1>2, LenProperties
  <2> QED
    BY <2>1, SubSeqProperties, LenProperties DEF Upto
<1> HIDE DEF x, y
<1> DEFINE z == SubSeq(y, Len(a) + 1, Len(a) + Len(b))
<1>4. Subarray(y, Len(a), Len(a) + Len(b)) = z
  BY <1>3, LenProperties DEF Subarray
<1>5. z \in Seq(S) /\ Len(z) = Len(b) /\ \A i \in 1..Len(b) : z[i] = y[Len(a) + i]
  <2>1. Len(a) \in Nat /\ Len(b) \in Nat
    BY LenProperties
  <2>2. \A i \in (Len(a) + 1)..(Len(a) + Len(b)) : y[i] \in S
    BY <1>3, <2>1, ElementOfSeq
  <2>3. /\ z \in Seq(S)
        /\ Len(z) = IF Len(a) + 1 <= Len(a) + Len(b)
                      THEN Len(a) + Len(b) - (Len(a) + 1) + 1 ELSE 0
        /\ \A i \in 1..(Len(a) + Len(b) - (Len(a) + 1) + 1) : z[i] = y[Len(a) + 1 + i - 1]
    BY <2>1, <2>2, SubSeqProperties
  <2> QED
    BY <2>1, <2>3
<1> HIDE DEF z
<1>6. \A i \in 1..Len(b) : z[i] = b[i]
  <2> TAKE i \in 1..Len(b)
  <2>1. Len(a) \in Nat /\ Len(b) \in Nat
    BY LenProperties
  <2>2. /\ Len(a) + i \in 1..(Len(a) + Len(b)) /\ ~(Len(a) + i <= Len(a))
        /\ Len(a) + i - Len(a) = i /\ Len(a) + i \in 1..n
    BY <2>1
  <2>3. z[i] = y[Len(a) + i] /\ y[Len(a) + i] = x[Len(a) + i]
    BY <1>3, <1>5, <2>2
  <2>4. x[Len(a) + i] = (a \o b)[Len(a) + i]
    BY <1>1, <2>2
  <2>5. (a \o b)[Len(a) + i] = b[Len(a) + i - Len(a)]
    BY <1>1, <2>2
  <2> QED
    BY <2>2, <2>3, <2>4, <2>5
<1>7. z = b
  BY <1>5, <1>6, SeqEqual
<1> QED
  BY <1>4, <1>7 DEF x, y

(* What follows the first of two parts is the second.                       *)
LEMMA TailInPlace ==
  ASSUME NEW S, NEW a \in Seq(S), NEW b \in Seq(S)
  PROVE  From(a \o b, Len(a)) = b
<1>1. /\ a \o b \in Seq(S) /\ Len(a \o b) = Len(a) + Len(b) /\ <<>> \in Seq(S)
      /\ a \o b \o <<>> = a \o b /\ Len(a) \in Nat /\ Len(b) \in Nat
  BY ConcatProperties, ConcatEmptySeq, LenProperties, EmptySeq
<1>2. Upto(a \o b, Len(a) + Len(b)) = a \o b
  BY <1>1, SubSeqFull DEF Upto
<1>3. Subarray(a \o b, Len(a), Len(a) + Len(b)) = b
  <2>1. Len(<<>>) = 0
    BY LenProperties
  <2>2. Subarray(Upto(a \o b \o <<>>, Len(a) + Len(b)), Len(a), Len(a) + Len(b)) = b
    <3>1. /\ Len(a) + Len(b) \in Nat
          /\ Len(a) + Len(b) <= Len(a) + Len(b)
          /\ Len(a) + Len(b) <= Len(a) + Len(b) + Len(<<>>)
      BY <1>1, <2>1
    <3> QED
      BY <1>1, <3>1, PartsInPlace
  <2> QED
    BY <1>1, <1>2, <2>2
<1> QED
  BY <1>1, <1>3 DEF From, Subarray

(* The flags of a packet, taken apart.                                      *)
ReadApart(h, c, t, d, k) ==
  LET flags == 64 * h + 32 * c + 16 * t + 4 * d + k
  IN /\ Bit(flags, 128) = 0 /\ Bit(flags, 64) = h /\ Bit(flags, 32) = c
     /\ Bit(flags, 16) = t /\ (flags \div 4) % 4 = d /\ flags % 4 = k

LEMMA FlagsApart ==
  ASSUME NEW h \in 0..1, NEW c \in {0, 1}, NEW t \in {1}, NEW d \in {0, 3}, NEW k \in 0..3
  PROVE  ReadApart(h, c, t, d, k)
BY DEF Bit, ReadApart

(* What a packet is made of.                                                *)
LEMMA HashTyped == ASSUME NEW x \in Nat PROVE Hash(x) \in Seq(Nat) /\ Len(Hash(x)) = HashLength
<1>1. HashLength \in Nat /\ Hash(x) \in [1..HashLength -> Nat]
  BY CodecAssumption DEF Hash
<1>2. Hash(x) \in Seq(Nat)
  BY <1>1, SeqDef
<1>3. DOMAIN Hash(x) = 1..HashLength /\ DOMAIN Hash(x) = 1..Len(Hash(x)) /\ Len(Hash(x)) \in Nat
  BY <1>1, <1>2, LenProperties
<1> QED
  BY <1>1, <1>2, <1>3

LEMMA PacketTyped ==
  ASSUME NEW p, p \in SomePackets
  PROVE  /\ p.headerType \in 0..1 /\ p.contextFlag \in {0, 1} /\ p.transportType \in {1}
         /\ p.destType \in {0, 3} /\ p.packetType \in 0..3 /\ p.hops \in Nat
         /\ p.transportId \in Seq(Nat) /\ Len(p.transportId) = HashLength
         /\ p.destHash \in Seq(Nat) /\ Len(p.destHash) = HashLength
         /\ p.context \in Nat /\ p.payload \in Seq(Nat)
         /\ DOMAIN p = {"headerType", "contextFlag", "transportType", "destType", "packetType",
                        "hops", "transportId", "destHash", "context", "payload"}
<1>1. /\ p.headerType \in 0..1 /\ p.contextFlag \in {0, 1} /\ p.transportType \in {1}
      /\ p.destType \in {0, 3} /\ p.packetType \in 0..3 /\ p.hops \in {0, 127, 128}
      /\ p.transportId = Hash(8) /\ p.destHash = Hash(9) /\ p.context = 5
      /\ p.payload \in {<<>>, <<7, 6>>}
      /\ DOMAIN p = {"headerType", "contextFlag", "transportType", "destType", "packetType",
                     "hops", "transportId", "destHash", "context", "payload"}
  BY DEF SomePackets
<1>2. <<>> \in Seq(Nat) /\ <<7, 6>> \in Seq(Nat)
  OBVIOUS
<1>3. Hash(8) \in Seq(Nat) /\ Len(Hash(8)) = HashLength
  BY HashTyped
<1>4. Hash(9) \in Seq(Nat) /\ Len(Hash(9)) = HashLength
  BY HashTyped
<1>5. p.hops \in Nat /\ p.context \in Nat
  BY <1>1
<1>6. p.payload \in Seq(Nat)
  BY <1>1, <1>2
<1>7. p.transportId \in Seq(Nat) /\ Len(p.transportId) = HashLength
  BY <1>1, <1>3
<1>8. p.destHash \in Seq(Nat) /\ Len(p.destHash) = HashLength
  BY <1>1, <1>4
<1> QED
  BY <1>1, <1>5, <1>6, <1>7, <1>8

(* The flags byte, the first two bytes, and the address of the transport    *)
(* node in a packet of two addresses.                                       *)
Flags(p) ==
  64 * p.headerType + 32 * p.contextFlag + 16 * p.transportType + 4 * p.destType + p.packetType

LEMMA FlagsTyped == ASSUME NEW p, p \in SomePackets PROVE Flags(p) \in Nat
<1>1. p.headerType \in Nat /\ p.contextFlag \in Nat /\ p.transportType \in Nat
  BY PacketTyped
<1>2. p.destType \in Nat /\ p.packetType \in Nat
  BY PacketTyped
<1> QED
  BY <1>1, <1>2 DEF Flags

FrontOf(p) == <<Flags(p), p.hops>>

Relay(p) == IF p.headerType = HEADER_2 THEN p.transportId ELSE <<>>

LEMMA Joined ==
  ASSUME NEW S, NEW s \in Seq(S), NEW t \in Seq(S)
  PROVE  s \o t \in Seq(S) /\ Len(s \o t) = Len(s) + Len(t)
BY ConcatProperties

(* The first of two parts is in front.                                      *)
LEMMA JoinedFront ==
  ASSUME NEW S, NEW s \in Seq(S), NEW t \in Seq(S)
  PROVE  \A i \in 1..Len(s) : (s \o t)[i] = s[i]
<1> TAKE i \in 1..Len(s)
<1>1. i \in 1..(Len(s) + Len(t)) /\ i <= Len(s)
  BY LenProperties
<1> QED
  BY <1>1, ConcatProperties

(* What is cut off at n is the first n bytes.                               *)
LEMMA CutOff ==
  ASSUME NEW S, NEW x \in Seq(S), NEW n \in Nat, n <= Len(x)
  PROVE  Upto(x, n) \in Seq(S) /\ Len(Upto(x, n)) = n /\ \A i \in 1..n : Upto(x, n)[i] = x[i]
<1>1. Len(x) \in Nat
  BY LenProperties
<1>2. \A i \in 1..n : x[i] \in S
  BY <1>1, ElementOfSeq
<1> QED
  BY <1>1, <1>2, SubSeqProperties DEF Upto

(* Five parts joined, cut to n: each part that the cut leaves is in its     *)
(* place.                                                                   *)
FivePlaced(S, a, b, d, c, e, n) ==
  LET x == a \o b \o d \o c \o e
      y == Upto(x, n)
  IN /\ x \in Seq(S) /\ Len(x) = Len(a) + Len(b) + Len(d) + Len(c) + Len(e)
     /\ y \in Seq(S) /\ Len(y) = n
     /\ n >= Len(a) => \A i \in 1..Len(a) : y[i] = a[i]
     /\ n >= Len(a) + Len(b) => Subarray(y, Len(a), Len(a) + Len(b)) = b
     /\ n >= Len(a) + Len(b) + Len(d) =>
          Subarray(y, Len(a) + Len(b), Len(a) + Len(b) + Len(d)) = d
     /\ n >= Len(a) + Len(b) + Len(d) + Len(c) =>
          Subarray(y, Len(a) + Len(b) + Len(d), Len(a) + Len(b) + Len(d) + Len(c)) = c
     /\ n = Len(x) => From(y, Len(a) + Len(b) + Len(d) + Len(c)) = e

LEMMA FiveParts ==
  ASSUME NEW S, NEW a \in Seq(S), NEW b \in Seq(S), NEW d \in Seq(S), NEW c \in Seq(S),
         NEW e \in Seq(S), NEW n \in Nat, n <= Len(a) + Len(b) + Len(d) + Len(c) + Len(e)
  PROVE  FivePlaced(S, a, b, d, c, e, n)
<1> DEFINE ab == a \o b
           abd == ab \o d
           abdc == abd \o c
           ce == c \o e
           dce == d \o ce
           x == abdc \o e
           y == Upto(x, n)
<1>1. /\ Len(a) \in Nat /\ Len(b) \in Nat /\ Len(d) \in Nat /\ Len(c) \in Nat /\ Len(e) \in Nat
  BY LenProperties
<1>2. ab \in Seq(S) /\ Len(ab) = Len(a) + Len(b)
  BY Joined
<1>3. abdc = abd \o c /\ abd = ab \o d /\ x = abdc \o e
  OBVIOUS
<1> HIDE DEF ab
<1>4. abd \in Seq(S) /\ Len(abd) = Len(ab) + Len(d)
  BY <1>2, Joined
<1> HIDE DEF abd
<1>5. abdc \in Seq(S) /\ Len(abdc) = Len(abd) + Len(c)
  BY <1>4, Joined
<1> HIDE DEF abdc
<1>6. x \in Seq(S) /\ Len(x) = Len(abdc) + Len(e)
  BY <1>5, Joined
<1>7. ce \in Seq(S) /\ Len(ce) = Len(c) + Len(e)
  BY Joined
<1>8. dce \in Seq(S) /\ Len(dce) = Len(d) + Len(ce)
  BY <1>7, Joined
<1>9. x = abd \o ce
  <2> HIDE DEF ce, dce, x, y
  <2>1. Regrouped(abd, c, e)
    BY <1>4, Grouped
  <2> QED
    BY <1>3, <2>1 DEF ce, Regrouped
<1>10. x = ab \o dce
  <2> HIDE DEF ce, dce, x, y
  <2>1. Regrouped(ab, d, ce)
    BY <1>2, <1>7, Grouped
  <2> QED
    BY <1>3, <1>9, <2>1 DEF dce, Regrouped
<1> HIDE DEF ce, dce, x
<1>11. x = a \o b \o dce /\ x = ab \o d \o ce /\ x = abd \o c \o e
  BY <1>9, <1>10, <1>3 DEF ab, abd, abdc
<1>12. /\ y = Upto(a \o b \o dce, n) /\ y = Upto(ab \o d \o ce, n)
      /\ y = Upto(abd \o c \o e, n)
  BY <1>11
<1>13. n <= Len(x)
  BY <1>1, <1>2, <1>4, <1>5, <1>6
<1>14. y \in Seq(S) /\ Len(y) = n /\ \A i \in 1..n : y[i] = x[i]
  BY <1>6, <1>13, CutOff
<1>15. n = Len(x) => y = x
  BY <1>6, SubSeqFull DEF Upto
<1>16. y = Upto(x, n)
  OBVIOUS
<1> HIDE DEF y
<1>17. Len(x) = Len(a) + Len(b) + Len(d) + Len(c) + Len(e)
  BY <1>1, <1>2, <1>4, <1>5, <1>6
<1>18. \A i \in 1..Len(a) : x[i] = a[i]
  <2>1. \A i \in 1..Len(a) : (a \o b)[i] = a[i]
    BY JoinedFront
  <2>2. \A i \in 1..Len(ab) : (ab \o dce)[i] = ab[i]
    BY <1>2, <1>8, JoinedFront
  <2>3. \A i \in 1..Len(a) : i \in 1..Len(ab)
    BY <1>1, <1>2
  <2> QED
    BY <1>10, <2>1, <2>2, <2>3 DEF ab
<1>19. n >= Len(a) => \A i \in 1..Len(a) : y[i] = a[i]
  <2>1. n >= Len(a) => \A i \in 1..Len(a) : i \in 1..n
    BY <1>1
  <2> QED
    BY <1>14, <1>18, <2>1
<1>20. n >= Len(a) + Len(b) => Subarray(y, Len(a), Len(a) + Len(b)) = b
  <2>1. n <= Len(a) + Len(b) + Len(dce)
    BY <1>1, <1>7, <1>8, <1>17
  <2>2. n >= Len(a) + Len(b) =>
          Subarray(Upto(a \o b \o dce, n), Len(a), Len(a) + Len(b)) = b
    BY <1>1, <1>8, <2>1, PartsInPlace
  <2> QED
    BY <1>12, <2>2
<1>21. n >= Len(ab) + Len(d) => Subarray(y, Len(ab), Len(ab) + Len(d)) = d
  <2>1. n <= Len(ab) + Len(d) + Len(ce)
    BY <1>1, <1>2, <1>7, <1>17
  <2>2. n >= Len(ab) + Len(d) =>
          Subarray(Upto(ab \o d \o ce, n), Len(ab), Len(ab) + Len(d)) = d
    <3>1. Len(ab) \in Nat /\ Len(ab) + Len(d) \in Nat
      BY <1>1, <1>2, LenProperties
    <3> SUFFICES ASSUME n >= Len(ab) + Len(d)
                 PROVE  Subarray(Upto(ab \o d \o ce, n), Len(ab), Len(ab) + Len(d)) = d
      OBVIOUS
    <3>2. Len(ab) + Len(d) <= n
      BY <3>1
    <3> QED
      BY <1>2, <1>7, <2>1, <3>2, PartsInPlace, Zenon
  <2> QED
    BY <1>12, <2>2
<1>22. n >= Len(abd) + Len(c) => Subarray(y, Len(abd), Len(abd) + Len(c)) = c
  <2>1. n <= Len(abd) + Len(c) + Len(e)
    BY <1>1, <1>2, <1>4, <1>17
  <2>2. n >= Len(abd) + Len(c) =>
          Subarray(Upto(abd \o c \o e, n), Len(abd), Len(abd) + Len(c)) = c
    <3>1. Len(abd) \in Nat /\ Len(abd) + Len(c) \in Nat
      BY <1>1, <1>4, LenProperties
    <3> SUFFICES ASSUME n >= Len(abd) + Len(c)
                 PROVE  Subarray(Upto(abd \o c \o e, n), Len(abd), Len(abd) + Len(c)) = c
      OBVIOUS
    <3>2. Len(abd) + Len(c) <= n
      BY <3>1
    <3> QED
      BY <1>4, <2>1, <3>2, PartsInPlace, Zenon
  <2> QED
    BY <1>12, <2>2
<1>23. n = Len(x) => From(y, Len(abdc)) = e
  <2>2. From(abdc \o e, Len(abdc)) = e
    BY <1>5, TailInPlace
  <2> QED
    BY <1>15, <2>2 DEF x
<1>24. Len(ab) = Len(a) + Len(b) /\ Len(abd) = Len(a) + Len(b) + Len(d)
       /\ Len(abdc) = Len(a) + Len(b) + Len(d) + Len(c)
  BY <1>1, <1>2, <1>4, <1>5
<1>25. x = a \o b \o d \o c \o e
  BY DEF ab, abd, abdc, x
<1>26. y = Upto(a \o b \o d \o c \o e, n)
  BY <1>25, <1>16
<1> QED
  BY <1>6, <1>14, <1>17, <1>19, <1>20, <1>21, <1>22, <1>23, <1>24, <1>25, <1>26
     DEF FivePlaced

(* The same of a packet.                                                    *)
(* The parts of a packet, and which of them are in their place when it is   *)
(* cut to n bytes.                                                          *)
LEMMA PacketParts ==
  ASSUME NEW p, p \in SomePackets
  PROVE  LET x == BuildPacket(p)
             start == 2 + Len(Relay(p))
         IN /\ x \in Seq(Nat) /\ Len(x) = start + HashLength + 1 + Len(p.payload)
            /\ Len(Relay(p)) = IF p.headerType = HEADER_2 THEN HashLength ELSE 0
            /\ \A n \in Nat : LET y == Upto(x, n) IN n <= Len(x) =>
                 /\ Len(y) = n
                 /\ n >= 2 => y[1] = Flags(p) /\ y[2] = p.hops
                 /\ n >= start => Subarray(y, 2, start) = Relay(p)
                 /\ n >= start + HashLength => Subarray(y, start, start + HashLength) = p.destHash
                 /\ n >= start + HashLength + 1 =>
                      Subarray(y, start + HashLength, start + HashLength + 1) = <<p.context>>
                 /\ n = Len(x) => From(y, start + HashLength + 1) = p.payload
<1> DEFINE a == FrontOf(p)
           b == Relay(p)
           d == p.destHash
           c == <<p.context>>
           e == p.payload
           start == 2 + Len(Relay(p))
<1>1. a \in Seq(Nat) /\ Len(a) = 2 /\ a[1] = Flags(p) /\ a[2] = p.hops
  <2> DEFINE f == Flags(p)
             g == p.hops
  <2>1. f \in Nat /\ g \in Nat
    BY FlagsTyped, PacketTyped
  <2> HIDE DEF f, g
  <2>2. <<f, g>> \in Seq(Nat) /\ Len(<<f, g>>) = 2 /\ <<f, g>>[1] = f /\ <<f, g>>[2] = g
    BY <2>1
  <2> QED
    BY <2>2 DEF FrontOf, f, g
<1>2. /\ b \in Seq(Nat) /\ Len(b) = IF p.headerType = HEADER_2 THEN HashLength ELSE 0
  <2>1. p.transportId \in Seq(Nat) /\ Len(p.transportId) = HashLength
    BY PacketTyped
  <2>2. <<>> \in Seq(Nat) /\ Len(<<>>) = 0
    BY EmptySeq, LenProperties
  <2> QED
    BY <2>1, <2>2 DEF Relay
<1>3. d \in Seq(Nat) /\ Len(d) = HashLength /\ e \in Seq(Nat)
  BY PacketTyped
<1>4. c \in Seq(Nat) /\ Len(c) = 1
  <2>1. p.context \in Nat
    BY PacketTyped
  <2> QED
    BY <2>1
<1>5. BuildPacket(p) = a \o b \o d \o c \o e
  BY DEF BuildPacket, FrontOf, Flags, Relay
<1>6. HashLength \in Nat /\ Len(e) \in Nat /\ Len(b) \in Nat
  BY CodecAssumption, <1>2, <1>3, LenProperties
<1> HIDE DEF a, b, c, d, e
<1>7. ASSUME NEW n \in Nat, n <= Len(a) + Len(b) + Len(d) + Len(c) + Len(e)
      PROVE  FivePlaced(Nat, a, b, d, c, e, n)
  <2>1. a \in Seq(Nat) /\ b \in Seq(Nat) /\ d \in Seq(Nat) /\ c \in Seq(Nat) /\ e \in Seq(Nat)
    BY <1>1, <1>2, <1>3, <1>4
  <2> QED
    BY <2>1, <1>7, FiveParts
<1> DEFINE x == a \o b \o d \o c \o e
<1>8. x \in Seq(Nat) /\ Len(x) = Len(a) + Len(b) + Len(d) + Len(c) + Len(e)
  <2>1. 0 \in Nat /\ 0 <= Len(a) + Len(b) + Len(d) + Len(c) + Len(e)
    BY <1>1, <1>3, <1>4, <1>6
  <2> QED
    BY <1>7, <2>1, Zenon DEF FivePlaced
<1>9. /\ Len(a) = 2 /\ Len(a) + Len(b) = start /\ Len(a) + Len(b) + Len(d) = start + HashLength
      /\ Len(a) + Len(b) + Len(d) + Len(c) = start + HashLength + 1
      /\ Len(a) + Len(b) + Len(d) + Len(c) + Len(e) = start + HashLength + 1 + Len(e)
  BY <1>1, <1>3, <1>4, <1>6 DEF b
<1> HIDE DEF start, x
<1>10. ASSUME NEW n \in Nat, n <= Len(x)
       PROVE  LET y == Upto(x, n)
              IN /\ Len(y) = n
                 /\ n >= 2 => \A i \in 1..2 : y[i] = a[i]
                 /\ n >= start => Subarray(y, 2, start) = b
                 /\ n >= start + HashLength => Subarray(y, start, start + HashLength) = d
                 /\ n >= start + HashLength + 1 =>
                      Subarray(y, start + HashLength, start + HashLength + 1) = c
                 /\ n = Len(x) => From(y, start + HashLength + 1) = e
  BY <1>7, <1>8, <1>9, <1>10, Zenon DEF x, FivePlaced
<1>11. ASSUME NEW n \in Nat, n <= Len(x)
       PROVE  n >= 2 => Upto(x, n)[1] = Flags(p) /\ Upto(x, n)[2] = p.hops
  BY <1>1, <1>10, <1>11
<1>12. Len(x) = start + HashLength + 1 + Len(e)
  BY <1>8, <1>9
<1>13. x = BuildPacket(p) /\ start = 2 + Len(Relay(p))
  BY <1>5 DEF x, start
<1> QED
  BY <1>2, <1>8, <1>10, <1>11, <1>12, <1>13 DEF b, c, d, e

(* What the end of a packet lost leaves is understood as the packet is.     *)
LEMMA PacketUnderstood ==
  ASSUME NEW p, p \in SomePackets, NEW n \in Nat, n <= Len(BuildPacket(p))
  PROVE  LET r == ParsePacket(Upto(BuildPacket(p), n))
             fields == DOMAIN p \ {"transportId", "context"}
         IN /\ r.ok \in BOOLEAN
            /\ n = Len(BuildPacket(p)) => (r.ok <=> p.hops <= MAX_HOPS)
            /\ r.ok => /\ Len(r.destHash) = HashLength /\ Len(r.context) = 1
                       /\ p.headerType = HEADER_2 => r.transportId = p.transportId
                       /\ \A f \in fields \ {"payload"} : r[f] = p[f]
                       /\ n = Len(BuildPacket(p)) => r.payload = p.payload
<1> DEFINE x == BuildPacket(p)
           y == Upto(x, n)
           r == ParsePacket(y)
           h == p.headerType
           start == 2 + Len(Relay(p))
           whole == start + HashLength + 1
<1>1. /\ HashLength \in Nat /\ HashLength >= 1 /\ h \in 0..1 /\ p.hops \in Nat /\ MAX_HOPS = 127
      /\ HEADER_2 = 1 /\ HEADER_MINSIZE = HashLength + 3
  BY CodecAssumption, PacketTyped DEF HEADER_2, HEADER_MINSIZE, MAX_HOPS
<1>2. /\ Len(y) = n
      /\ n >= 2 => y[1] = Flags(p) /\ y[2] = p.hops
      /\ n >= start => Subarray(y, 2, start) = Relay(p)
      /\ n >= start + HashLength => Subarray(y, start, start + HashLength) = p.destHash
      /\ n >= whole => Subarray(y, start + HashLength, start + HashLength + 1) = <<p.context>>
      /\ n = Len(x) => From(y, start + HashLength + 1) = p.payload
  BY PacketParts
<1>3. /\ Len(x) = start + HashLength + 1 + Len(p.payload) /\ Len(p.payload) \in Nat
      /\ Len(Relay(p)) = IF h = 1 THEN HashLength ELSE 0
  BY PacketParts, PacketTyped, <1>1, LenProperties
<1>4. /\ Bit(Flags(p), 128) = 0 /\ Bit(Flags(p), 64) = h /\ Bit(Flags(p), 32) = p.contextFlag
      /\ Bit(Flags(p), 16) = p.transportType /\ (Flags(p) \div 4) % 4 = p.destType
      /\ Flags(p) % 4 = p.packetType
  <2>1. /\ p.headerType \in 0..1 /\ p.contextFlag \in {0, 1} /\ p.transportType \in {1}
        /\ p.destType \in {0, 3} /\ p.packetType \in 0..3
    BY PacketTyped
  <2>2. ReadApart(p.headerType, p.contextFlag, p.transportType, p.destType, p.packetType)
    BY <2>1, FlagsApart
  <2> QED
    BY <2>2 DEF Flags, ReadApart
<1>5. start = (IF h = HEADER_2 THEN 2 + HashLength ELSE 2) /\ start \in Nat
  BY <1>1, <1>3
<1>6. MinSize(h) = whole
  BY <1>1, <1>5 DEF MinSize
<1> HIDE DEF x, y, start, h
<1>7. (Len(y) < HEADER_MINSIZE \/ y[2] > MAX_HOPS \/ Bit(y[1], 128) = 1
         \/ Len(y) < MinSize(Bit(y[1], 64))) <=> (n < whole \/ p.hops > MAX_HOPS)
  <2>1. CASE n < HashLength + 3
    BY <1>1, <1>2, <1>5, <2>1
  <2>2. CASE n >= HashLength + 3
    <3>1. y[1] = Flags(p) /\ y[2] = p.hops
      BY <1>1, <1>2, <2>2
    <3> QED
      BY <1>1, <1>2, <1>4, <1>6, <2>2, <3>1
  <2> QED
    BY <1>1, <2>1, <2>2
<1>8. CASE n < whole \/ p.hops > MAX_HOPS
  <2>1. r = Null
    BY <1>7, <1>8 DEF ParsePacket
  <2>2. r.ok = FALSE
    BY <2>1 DEF Null
  <2>3. n = Len(x) => p.hops > MAX_HOPS
    <3> DEFINE m == Len(p.payload)
    <3>1. Len(x) = start + HashLength + 1 + m /\ m \in Nat /\ HashLength \in Nat /\ start \in Nat
      BY <1>1, <1>3, <1>5
    <3> HIDE DEF m
    <3>2. n = Len(x) => ~(n < whole)
      BY <3>1
    <3> QED
      BY <1>8, <3>2
  <2>4. r.ok \in BOOLEAN /\ ~r.ok
    BY <2>2
  <2>5. n = Len(x) => (r.ok <=> p.hops <= MAX_HOPS)
    <3>1. p.hops > MAX_HOPS => ~(p.hops <= MAX_HOPS)
      BY <1>1
    <3> QED
      BY <2>3, <2>4, <3>1, Zenon
  <2> QED
    BY <2>4, <2>5, Zenon DEF x, y
<1>9. CASE ~(n < whole \/ p.hops > MAX_HOPS)
  <2>1. y[1] = Flags(p) /\ y[2] = p.hops /\ n >= whole
    BY <1>1, <1>2, <1>5, <1>9
  <2>2. r = [ok |-> TRUE, headerType |-> h, contextFlag |-> p.contextFlag,
             transportType |-> p.transportType, destType |-> p.destType,
             packetType |-> p.packetType, hops |-> p.hops,
             transportId |-> IF h = HEADER_2 THEN Subarray(y, 2, start) ELSE <<>>,
             destHash |-> Subarray(y, start, start + HashLength),
             context |-> Subarray(y, start + HashLength, start + HashLength + 1),
             payload |-> From(y, start + HashLength + 1)]
    BY <1>4, <1>5, <1>7, <1>9, <2>1, ZenonT(40) DEF ParsePacket
  <2>3. /\ Subarray(y, 2, start) = Relay(p)
        /\ Subarray(y, start, start + HashLength) = p.destHash
        /\ Subarray(y, start + HashLength, start + HashLength + 1) = <<p.context>>
    BY <1>1, <1>2, <1>5, <2>1
  <2>4. Len(p.destHash) = HashLength /\ Len(<<p.context>>) = 1
    BY PacketTyped
  <2>5. Len(r.destHash) = HashLength /\ Len(r.context) = 1
    BY <2>2, <2>3, <2>4
  <2>6. h = HEADER_2 => r.transportId = p.transportId
    BY <2>2, <2>3 DEF Relay, h
  <2>7. /\ r.headerType = p.headerType /\ r.contextFlag = p.contextFlag
        /\ r.transportType = p.transportType /\ r.destType = p.destType
        /\ r.packetType = p.packetType /\ r.hops = p.hops /\ r.destHash = p.destHash
    BY <2>2, <2>3 DEF h
  <2>8. \A f \in (DOMAIN p \ {"transportId", "context"}) \ {"payload"} :
          f \in {"headerType", "contextFlag", "transportType", "destType", "packetType", "hops",
                "destHash"}
    <3>1. DOMAIN p = {"headerType", "contextFlag", "transportType", "destType", "packetType",
                      "hops", "transportId", "destHash", "context", "payload"}
      BY PacketTyped
    <3> TAKE f \in (DOMAIN p \ {"transportId", "context"}) \ {"payload"}
    <3>2. f \in DOMAIN p /\ f # "transportId" /\ f # "context" /\ f # "payload"
      OBVIOUS
    <3>3. \/ f = "headerType" \/ f = "contextFlag" \/ f = "transportType" \/ f = "destType"
          \/ f = "packetType" \/ f = "hops" \/ f = "destHash"
      BY <3>1, <3>2
    <3> QED
      BY <3>3
  <2>9. \A f \in (DOMAIN p \ {"transportId", "context"}) \ {"payload"} : r[f] = p[f]
    BY <2>7, <2>8
  <2>10. r.ok = TRUE /\ (n = Len(x) => r.payload = p.payload) /\ p.hops <= MAX_HOPS
    BY <1>1, <1>2, <1>9, <2>2
  <2> QED
    BY <2>5, <2>6, <2>9, <2>10 DEF x, y, h
<1> QED
  BY <1>8, <1>9

(* The bytes that an announce is made of, and its parts.                    *)
(* A genuine announce: what is signed, by whom, and the bytes of its        *)
(* payload.                                                                 *)
Signed(id, ratchet, appData) == BuildAnnounce(id, ratchet, appData).body

DestinationOf(id) == DestHash(Byte("name"), PublicKey(id))

SignatureOn(id, ratchet, appData) ==
  SignatureOf(id, AnnounceSignedData(DestinationOf(id), Signed(id, ratchet, appData)))

Ratchets == {<<>>, <<Byte("ratchet")>>}

AppDatas == {<<>>, <<Byte("app data")>>}

AnnounceBytes(id, signature) ==
  {Byte("encryption key"), Byte(id), Byte("name"), Byte("random"), Byte("ratchet"),
   Byte("app data"), DestinationOf(id), signature}

Fixed(id) == <<Byte("encryption key"), Byte(id), Byte("name"), Byte("random")>>

AnnouncePayload(id, ratchet, appData) ==
  PublicKey(id) \o <<Byte("name"), Byte("random")>> \o ratchet
  \o <<SignatureOn(id, ratchet, appData)>> \o appData

LEMMA PayloadOf ==
  ASSUME NEW id, NEW ratchet, NEW appData
  PROVE  BuildAnnounce(id, ratchet, appData).payload = AnnouncePayload(id, ratchet, appData)
BY DEF BuildAnnounce, AnnouncePayload, SignatureOn, Signed, DestinationOf

LEMMA OneByte == ASSUME NEW S, NEW k \in S PROVE <<k>> \in Seq(S) /\ Len(<<k>>) = 1 /\ <<k>> # <<>>
OBVIOUS

FourJoined(S, e1, e2, e3, e4) ==
  /\ <<e1, e2, e3, e4>> \in Seq(S) /\ Len(<<e1, e2, e3, e4>>) = 4
  /\ <<e1, e2>> \o <<e3, e4>> = <<e1, e2, e3, e4>>

(* Two bytes and two more are four.                                         *)
LEMMA FourBytes ==
  ASSUME NEW S, NEW e1 \in S, NEW e2 \in S, NEW e3 \in S, NEW e4 \in S
  PROVE  FourJoined(S, e1, e2, e3, e4)
<1> DEFINE s == <<e1, e2>>
           t == <<e3, e4>>
           u == <<e1, e2, e3, e4>>
           w == s \o t
<1>1. s \in Seq(S) /\ Len(s) = 2 /\ s[1] = e1 /\ s[2] = e2
  OBVIOUS
<1>2. t \in Seq(S) /\ Len(t) = 2 /\ t[1] = e3 /\ t[2] = e4
  OBVIOUS
<1>3. u \in Seq(S)
  OBVIOUS
<1>4. Len(u) = 4
  OBVIOUS
<1>5. u[1] = e1 /\ u[2] = e2 /\ u[3] = e3 /\ u[4] = e4
  OBVIOUS
<1> HIDE DEF s, t, u
<1>6. /\ w \in Seq(S) /\ Len(w) = Len(s) + Len(t)
      /\ \A i \in 1..Len(s) + Len(t) : w[i] = IF i <= Len(s) THEN s[i] ELSE t[i - Len(s)]
  BY <1>1, <1>2, ConcatProperties
<1> HIDE DEF w
<1>7. Len(w) = 4 /\ \A i \in 1..4 : w[i] = IF i <= 2 THEN s[i] ELSE t[i - 2]
  BY <1>1, <1>2, <1>6
<1>8. w[1] = s[1] /\ w[2] = s[2] /\ w[3] = t[1] /\ w[4] = t[2]
  BY <1>7
<1>9. \A i \in 1..4 : i = 1 \/ i = 2 \/ i = 3 \/ i = 4
  OBVIOUS
<1>10. \A i \in 1..4 : w[i] = u[i]
  BY <1>1, <1>2, <1>5, <1>8, <1>9, Zenon
<1>11. w = u
  BY <1>3, <1>4, <1>6, <1>7, <1>10, SeqEqual
<1> QED
  BY <1>1, <1>2, <1>3, <1>4, <1>11, Zenon DEF s, t, u, w, FourJoined

(* The five parts of an announce: the fixed four bytes, nothing, the        *)
(* ratchet, the signature and the application data.                         *)
LEMMA AnnouncePlaced ==
  ASSUME NEW S, NEW f \in Seq(S), NEW o \in Seq(S), NEW r \in Seq(S), NEW g \in Seq(S),
         NEW t \in Seq(S), Len(f) = 4, Len(o) = 0, Len(g) = 1,
         NEW n \in Nat, n <= 5 + Len(r) + Len(t)
  PROVE  FivePlaced(S, f, o, r, g, t, n)
<1>1. Len(r) \in Nat /\ Len(t) \in Nat
  BY LenProperties
<1>2. n <= Len(f) + Len(o) + Len(r) + Len(g) + Len(t)
  BY <1>1
<1> QED
  BY <1>2, FiveParts

MadeOf(S, x, f, r, g, t) ==
  /\ x = f \o <<>> \o r \o g \o t
  /\ f \in Seq(S) /\ Len(f) = 4 /\ r \in Seq(S)
  /\ (r = <<>> => Len(r) = 0) /\ (r # <<>> => Len(r) = 1)
  /\ t \in Seq(S) /\ (Len(t) = 0 \/ Len(t) = 1)
  /\ g \in Seq(S) /\ Len(g) = 1 /\ <<>> \in Seq(S) /\ Len(<<>>) = 0

LEMMA AnnounceParts ==
  ASSUME NEW id, NEW ratchet, NEW appData, ratchet \in Ratchets, appData \in AppDatas
  PROVE  LET sig == SignatureOn(id, ratchet, appData)
         IN MadeOf(AnnounceBytes(id, sig), BuildAnnounce(id, ratchet, appData).payload,
                   Fixed(id), ratchet, <<sig>>, appData)
<1> DEFINE sig == SignatureOn(id, ratchet, appData)
           S == AnnounceBytes(id, sig)
           x == BuildAnnounce(id, ratchet, appData).payload
           e1 == Byte("encryption key")
           e2 == Byte(id)
           nm == Byte("name")
           rd == Byte("random")
           o == <<>>
           g == <<sig>>
           r == <<Byte("ratchet")>>
           t == <<Byte("app data")>>
           f == Fixed(id)
<1>1. /\ e1 \in S /\ e2 \in S /\ nm \in S /\ rd \in S /\ Byte("ratchet") \in S
      /\ Byte("app data") \in S /\ sig \in S
  BY DEF AnnounceBytes
<1>2. f = <<e1, e2, nm, rd>> /\ PublicKey(id) = <<e1, e2>>
  BY DEF Fixed, PublicKey
<1>3. (ratchet = o \/ ratchet = r) /\ (appData = o \/ appData = t)
  BY DEF Ratchets, AppDatas
<1>4. x = PublicKey(id) \o <<nm, rd>> \o ratchet \o g \o appData
  <2>1. x = AnnouncePayload(id, ratchet, appData)
    BY PayloadOf, Zenon
  <2> QED
    BY <2>1 DEF AnnouncePayload
<1> HIDE DEF S, x
<1>5. o \in Seq(S) /\ Len(o) = 0
  BY EmptySeq, LenProperties
<1>6. g \in Seq(S) /\ Len(g) = 1
  BY <1>1, OneByte
<1>7. r \in Seq(S) /\ Len(r) = 1 /\ r # o
  BY <1>1, OneByte
<1>8. t \in Seq(S) /\ Len(t) = 1
  BY <1>1, OneByte
<1> HIDE DEF e1, e2, nm, rd, o, g, r, t
<1>9. f \in Seq(S) /\ Len(f) = 4 /\ <<e1, e2>> \o <<nm, rd>> = f
  <2>1. e1 \in S /\ e2 \in S /\ nm \in S /\ rd \in S
    BY <1>1
  <2>2. FourJoined(S, e1, e2, nm, rd)
    BY <2>1, FourBytes
  <2> QED
    BY <1>2, <2>2 DEF FourJoined
<1>10. ratchet \in Seq(S) /\ (ratchet = o => Len(ratchet) = 0)
       /\ (ratchet # o => Len(ratchet) = 1)
  <2>1. CASE ratchet = o
    BY <1>5, <2>1, Zenon
  <2>2. CASE ratchet = r
    BY <1>7, <2>2, Zenon
  <2> QED
    BY <1>3, <2>1, <2>2, Zenon
<1>11. appData \in Seq(S) /\ (Len(appData) = 0 \/ Len(appData) = 1)
  <2>1. CASE appData = o
    BY <1>5, <2>1, Zenon
  <2>2. CASE appData = t
    BY <1>8, <2>2, Zenon
  <2> QED
    BY <1>3, <2>1, <2>2, Zenon
<1> HIDE DEF f
<1>12. f \o o = f
  BY <1>9, ConcatEmptySeq DEF o
<1>13. x = f \o o \o ratchet \o g \o appData
  BY <1>2, <1>4, <1>9, <1>12
<1> QED
  BY <1>5, <1>6, <1>9, <1>10, <1>11, <1>13, Zenon DEF S, x, o, g, f, MadeOf

(* What is left of an announce, with the flag that belongs to it.           *)
AnnounceLeft(S, f, r, g, t, after, n, y) ==
  /\ y \in Seq(S) /\ Len(y) = n
  /\ y[1] = f[1] /\ y[2] = f[2] /\ y[3] = f[3] /\ y[4] = f[4]
  /\ Upto(y, 2) \in Seq(S) /\ Len(Upto(y, 2)) = 2
  /\ Upto(y, 2)[1] = f[1] /\ Upto(y, 2)[2] = f[2]
  /\ after <= n => Subarray(y, 4, after) = r
  /\ after + 1 <= n => Subarray(y, after, after + 1) = g
  /\ ~(after + 1 <= n) => Len(Subarray(y, after, after + 1)) = 0
  /\ after + 1 <= n => From(y, after + 1) \in Seq(S)
  /\ n = 5 + Len(r) + Len(t) => From(y, after + 1) = t

LEMMA AnnounceCut ==
  ASSUME NEW S, NEW f \in Seq(S), NEW o \in Seq(S), NEW r \in Seq(S), NEW g \in Seq(S),
         NEW t \in Seq(S), Len(f) = 4, Len(o) = 0, Len(g) = 1,
         NEW after \in Nat, after = 4 + Len(r),
         NEW n \in Nat, 5 <= n, n <= 5 + Len(r) + Len(t)
  PROVE  AnnounceLeft(S, f, r, g, t, after, n, Upto(f \o o \o r \o g \o t, n))
<1> DEFINE y == Upto(f \o o \o r \o g \o t, n)
<1>1. Len(r) \in Nat /\ Len(t) \in Nat
  BY LenProperties
<1>2. FivePlaced(S, f, o, r, g, t, n)
  BY AnnouncePlaced
<1> DEFINE x == f \o o \o r \o g \o t
<1>3. /\ x \in Seq(S) /\ Len(x) = Len(f) + Len(o) + Len(r) + Len(g) + Len(t)
      /\ y \in Seq(S) /\ Len(y) = n
      /\ n >= Len(f) => \A i \in 1..Len(f) : y[i] = f[i]
      /\ n >= Len(f) + Len(o) + Len(r) =>
           Subarray(y, Len(f) + Len(o), Len(f) + Len(o) + Len(r)) = r
      /\ n >= Len(f) + Len(o) + Len(r) + Len(g) =>
           Subarray(y, Len(f) + Len(o) + Len(r), Len(f) + Len(o) + Len(r) + Len(g)) = g
      /\ n = Len(x) => From(y, Len(f) + Len(o) + Len(r) + Len(g)) = t
  BY <1>2 DEF FivePlaced
<1> HIDE DEF x, y
<1>4. /\ Len(f) + Len(o) = 4 /\ Len(f) + Len(o) + Len(r) = after
      /\ Len(f) + Len(o) + Len(r) + Len(g) = after + 1
      /\ Len(x) = 5 + Len(r) + Len(t)
  BY <1>1, <1>3
<1>5. \A i \in 1..4 : y[i] = f[i]
  BY <1>3
<1>6. Upto(y, 2) \in Seq(S) /\ Len(Upto(y, 2)) = 2 /\ \A i \in 1..2 : Upto(y, 2)[i] = y[i]
  <2>1. y \in Seq(S) /\ 2 \in Nat /\ 2 <= Len(y)
    BY <1>3
  <2> QED
    <3>1. \A m \in Nat : m <= Len(y) => /\ Upto(y, m) \in Seq(S) /\ Len(Upto(y, m)) = m
                                       /\ \A i \in 1..m : Upto(y, m)[i] = y[i]
      BY <2>1, CutOff
    <3> QED
      BY <2>1, <3>1, Zenon
<1>7. Upto(y, 2)[1] = f[1] /\ Upto(y, 2)[2] = f[2]
  BY <1>5, <1>6
<1>8. y[1] = f[1] /\ y[2] = f[2] /\ y[3] = f[3] /\ y[4] = f[4]
  BY <1>5
<1>9. after <= n => Subarray(y, 4, after) = r
  BY <1>1, <1>3, <1>4
<1>10. after + 1 <= n => Subarray(y, after, after + 1) = g
  BY <1>1, <1>3, <1>4
<1>11. n = 5 + Len(r) + Len(t) => From(y, after + 1) = t
  BY <1>1, <1>3, <1>4
<1>12. ~(after + 1 <= n) => Len(Subarray(y, after, after + 1)) = 0
  <2> SUFFICES ASSUME ~(after + 1 <= n) PROVE Len(Subarray(y, after, after + 1)) = 0
    OBVIOUS
  <2>1. /\ Subarray(y, after, after + 1) = SubSeq(y, after + 1, n)
        /\ after + 1 \in Int /\ n \in Int /\ n < after + 1
    BY <1>3 DEF Subarray
  <2>2. SubSeq(y, after + 1, n) = <<>>
    BY <2>1, SubSeqEmpty
  <2> QED
    BY <2>1, <2>2
<1>13. after + 1 <= n => From(y, after + 1) \in Seq(S)
  <2>1. \A i \in (after + 1 + 1)..Len(y) : y[i] \in S
    <3> TAKE i \in (after + 1 + 1)..Len(y)
    <3>1. i \in 1..Len(y)
      BY <1>3
    <3> QED
      BY <1>3, <3>1, ElementOfSeq
  <2>2. after + 1 + 1 \in Int /\ Len(y) \in Int
    BY <1>3
  <2> QED
    BY <2>1, <2>2, SubSeqProperties DEF From
<1> QED
  BY <1>3, <1>6, <1>7, <1>8, <1>9, <1>10, <1>11, <1>12, <1>13 DEF AnnounceLeft, y

(* What follows the same bytes can be told apart.                           *)
LEMMA Cancelled ==
  ASSUME NEW S, NEW h \in Seq(S), NEW u \in Seq(S), NEW v \in Seq(S), h \o u = h \o v
  PROVE  u = v
<1>1. From(h \o u, Len(h)) = u
  BY TailInPlace
<1>2. From(h \o v, Len(h)) = v
  BY TailInPlace
<1> QED
  BY <1>1, <1>2

(* A signature is over one sequence of bytes only.                          *)
LEMMA SignedOnce ==
  ASSUME NEW S, NEW id, Byte(id) \in S, NEW h \in Seq(S), NEW u \in Seq(S), NEW v \in Seq(S),
         SignatureOf(id, h \o u) = SignatureOf(id, h \o v)
  PROVE  u = v
<1> DEFINE k == <<Byte(id)>>
<1>1. k \in Seq(S) /\ h \o u \in Seq(S) /\ h \o v \in Seq(S)
  <2>1. k \in Seq(S)
    BY OneByte
  <2> QED
    BY <2>1, Joined
<1>2. k \o (h \o u) = k \o (h \o v)
  BY DEF SignatureOf
<1> HIDE DEF k
<1>3. h \o u = h \o v
  BY <1>1, <1>2, Cancelled, Zenon
<1> QED
  BY <1>3, Cancelled, Zenon

(* What parseAnnounce makes of bytes, once it accepts the destination.      *)
AnnounceRead(y, after, ratchet) ==
  [ok |-> TRUE, publicKey |-> Upto(y, 2), nameHash |-> y[3], randomHash |-> y[4],
   ratchet |-> ratchet, signature |-> Subarray(y, after, after + 1), appData |-> From(y, after + 1)]

LEMMA ParsedAs ==
  ASSUME NEW y, NEW c, NEW d, ~(Len(y) < 5), DestHash(y[3], Upto(y, 2)) = d
  PROVE  ParseAnnounce(y, c, d) =
           AnnounceRead(y, IF c THEN 5 ELSE 4, IF c THEN Subarray(y, 4, 5) ELSE <<>>)
BY DEF ParseAnnounce, AnnounceRead

(* An announce with its own flag: whole, it is accepted; accepted, it is    *)
(* what was signed.                                                         *)
LEMMA AnnounceUnderstood ==
  ASSUME NEW id, NEW ratchet, NEW appData, NEW n \in Nat,
         ratchet \in Ratchets, appData \in AppDatas,
         n <= 5 + Len(ratchet) + Len(appData)
  PROVE  LET a == BuildAnnounce(id, ratchet, appData)
             r == ParseAnnounce(Upto(a.payload, n), a.contextFlag, a.destHash)
         IN /\ n = 5 + Len(ratchet) + Len(appData) => r.ok /\ ValidateAnnounce(r, a.destHash)
            /\ r.ok /\ ValidateAnnounce(r, a.destHash) =>
                 /\ r.publicKey = a.body.publicKey /\ r.nameHash = a.body.nameHash
                 /\ r.randomHash = a.body.randomHash /\ r.ratchet = a.body.ratchet
                 /\ r.appData = a.body.appData
<1> DEFINE a == BuildAnnounce(id, ratchet, appData)
           y == Upto(a.payload, n)
           r == ParseAnnounce(y, a.contextFlag, a.destHash)
           sig == SignatureOn(id, ratchet, appData)
           S == AnnounceBytes(id, sig)
           f == Fixed(id)
           g == <<sig>>
           after == 4 + Len(ratchet)
<1>1. /\ a.payload = f \o <<>> \o ratchet \o g \o appData
      /\ f \in Seq(S) /\ Len(f) = 4 /\ ratchet \in Seq(S)
      /\ (ratchet = <<>> => Len(ratchet) = 0) /\ (ratchet # <<>> => Len(ratchet) = 1)
      /\ appData \in Seq(S) /\ (Len(appData) = 0 \/ Len(appData) = 1)
      /\ g \in Seq(S) /\ Len(g) = 1 /\ <<>> \in Seq(S) /\ Len(<<>>) = 0
  <2>1. MadeOf(S, a.payload, f, ratchet, g, appData)
    BY AnnounceParts
  <2> QED
    BY <2>1 DEF MadeOf
<1>2. /\ a.destHash = DestinationOf(id) /\ a.contextFlag = (ratchet # <<>>)
      /\ a.body.publicKey = PublicKey(id) /\ a.body.nameHash = Byte("name")
      /\ a.body.randomHash = Byte("random") /\ a.body.ratchet = ratchet
      /\ a.body.appData = appData
  BY DEF BuildAnnounce, DestinationOf
<1>3. /\ f[1] = Byte("encryption key") /\ f[2] = Byte(id) /\ f[3] = Byte("name")
      /\ f[4] = Byte("random")
  BY DEF Fixed
<1>4. LET p == PublicKey(id)
      IN /\ p \in Seq(S) /\ Len(p) = 2 /\ p[1] = Byte("encryption key") /\ p[2] = Byte(id)
         /\ p[2][1] = id /\ Byte(id) \in S
  <2> DEFINE e1 == Byte("encryption key")
             e2 == Byte(id)
             p == <<e1, e2>>
  <2>1. e1 \in S /\ e2 \in S /\ e2[1] = id
    BY DEF AnnounceBytes, Byte
  <2> HIDE DEF S, e1, e2
  <2>2. p \in Seq(S) /\ Len(p) = 2 /\ p[1] = e1 /\ p[2] = e2
    BY <2>1
  <2> QED
    BY <2>1, <2>2 DEF PublicKey, e1, e2
<1> DEFINE p == PublicKey(id)
           h == <<DestinationOf(id)>> \o p \o <<Byte("name"), Byte("random")>> \o ratchet
<1>5. h \in Seq(S)
  <2> DEFINE nm == Byte("name")
             rd == Byte("random")
             d == DestinationOf(id)
  <2>1. nm \in S /\ rd \in S /\ d \in S
    BY DEF AnnounceBytes
  <2> HIDE DEF S, nm, rd, d, p
  <2>2. <<d>> \in Seq(S)
    BY <2>1
  <2>3. <<nm, rd>> \in Seq(S)
    BY <2>1
  <2>4. <<d>> \o p \in Seq(S)
    BY <1>4, <2>2, Joined DEF p
  <2>5. <<d>> \o p \o <<nm, rd>> \in Seq(S)
    BY <2>3, <2>4, Joined
  <2>6. <<d>> \o p \o <<nm, rd>> \o ratchet \in Seq(S)
    BY <1>1, <2>5, Joined
  <2> QED
    BY <2>6 DEF d, nm, rd, p
<1>6. sig = SignatureOf(id, h \o appData)
  BY <1>2 DEF SignatureOn, AnnounceSignedData, Signed
<1>7. /\ after \in Nat /\ (ratchet # <<>> => after = 5) /\ (ratchet = <<>> => after = 4)
      /\ 5 + Len(ratchet) + Len(appData) = after + 1 + Len(appData) /\ Len(appData) \in Nat
  <2> DEFINE m == Len(ratchet)
             l == Len(appData)
  <2>1. /\ m \in Nat /\ l \in Nat /\ (ratchet # <<>> => m = 1) /\ (ratchet = <<>> => m = 0)
    BY <1>1, LenProperties
  <2> HIDE DEF m, l
  <2>2. /\ 4 + m \in Nat /\ (ratchet # <<>> => 4 + m = 5) /\ (ratchet = <<>> => 4 + m = 4)
        /\ 5 + m + l = 4 + m + 1 + l
    BY <2>1
  <2> QED
    BY <2>1, <2>2 DEF m, l
<1> HIDE DEF S, f, g, sig, p, h, a, after
<1>8. Len(y) = n
  <2>1. FivePlaced(S, f, <<>>, ratchet, g, appData, n)
    BY <1>1, AnnouncePlaced
  <2> QED
    BY <1>1, <2>1 DEF FivePlaced
<1>9. CASE n < 5
  <2>1. r = Null
    BY <1>8, <1>9 DEF ParseAnnounce
  <2>2. r.ok = FALSE
    BY <2>1 DEF Null
  <2>3. ~(n = 5 + Len(ratchet) + Len(appData))
    BY <1>7, <1>9
  <2> QED
    BY <2>2, <2>3 DEF a
<1>10. CASE 5 <= n
  <2> DEFINE s == Subarray(y, after, after + 1)
             u == From(y, after + 1)
  <2>1. /\ y[1] = f[1] /\ y[2] = f[2] /\ y[3] = f[3] /\ y[4] = f[4]
        /\ Upto(y, 2) \in Seq(S) /\ Len(Upto(y, 2)) = 2
        /\ Upto(y, 2)[1] = f[1] /\ Upto(y, 2)[2] = f[2]
        /\ after <= n => Subarray(y, 4, after) = ratchet
        /\ after + 1 <= n => s = g
        /\ ~(after + 1 <= n) => Len(s) = 0
        /\ after + 1 <= n => u \in Seq(S)
        /\ n = 5 + Len(ratchet) + Len(appData) => u = appData
    <3>1. after = 4 + Len(ratchet)
      BY DEF after
    <3>2. AnnounceLeft(S, f, ratchet, g, appData, after, n,
                       Upto(f \o <<>> \o ratchet \o g \o appData, n))
      BY <1>1, <1>7, <1>10, <3>1, AnnounceCut
    <3>3. AnnounceLeft(S, f, ratchet, g, appData, after, n, y)
      BY <1>1, <3>2
    <3> HIDE DEF y
    <3> QED
      BY <3>3 DEF AnnounceLeft
  <2> HIDE DEF s, u, y
  <2>2. Upto(y, 2) = p
    <3>1. \A i \in 1..2 : i = 1 \/ i = 2
      OBVIOUS
    <3>2. \A i \in 1..2 : Upto(y, 2)[i] = p[i]
      BY <1>3, <1>4, <2>1, <3>1, Zenon DEF f, p
    <3> QED
      BY <1>4, <2>1, <3>2, SeqEqual DEF p
  <2>3. y[3] = Byte("name") /\ y[4] = Byte("random")
    BY <1>3, <2>1 DEF f
  <2>4. DestHash(y[3], Upto(y, 2)) = a.destHash
    BY <1>2, <2>2, <2>3 DEF DestinationOf, p
  <2>5. (IF a.contextFlag THEN Subarray(y, 4, 5) ELSE <<>>) = ratchet
    BY <1>2, <1>7, <1>10, <2>1
  <2>6. (IF a.contextFlag THEN 5 ELSE 4) = after
    BY <1>2, <1>7
  <2>7. r = [ok |-> TRUE, publicKey |-> p, nameHash |-> Byte("name"),
             randomHash |-> Byte("random"), ratchet |-> ratchet, signature |-> s, appData |-> u]
    <3>1. ~(Len(y) < 5)
      BY <1>8, <1>10
    <3>2. r = AnnounceRead(y, IF a.contextFlag THEN 5 ELSE 4,
                   IF a.contextFlag THEN Subarray(y, 4, 5) ELSE <<>>)
      BY <2>4, <3>1, ParsedAs
    <3>3. r = AnnounceRead(y, after, ratchet)
      BY <2>5, <2>6, <3>2
    <3> QED
      BY <2>2, <2>3, <3>3 DEF AnnounceRead, s, u
  <2>8. AnnounceSignedData(a.destHash, r) = h \o u
    <3>1. /\ r.publicKey = p /\ r.nameHash = Byte("name") /\ r.randomHash = Byte("random")
          /\ r.ratchet = ratchet /\ r.appData = u
      BY <2>7
    <3> HIDE DEF r
    <3> QED
      BY <1>2, <3>1 DEF AnnounceSignedData, h
  <2>9. ValidateAnnounce(r, a.destHash) <=> s = <<SignatureOf(id, h \o u)>>
    <3>1. r.signature = s /\ r.publicKey[2][1] = id
      <4>1. p[2][1] = id
        BY <1>4 DEF p
      <4>2. r.signature = s /\ r.publicKey = p
        BY <2>7
      <4> QED
        BY <4>1, <4>2
    <3> QED
      BY <2>8, <3>1 DEF ValidateAnnounce
  <2>10. n = 5 + Len(ratchet) + Len(appData) => r.ok /\ ValidateAnnounce(r, a.destHash)
    <3> SUFFICES ASSUME n = 5 + Len(ratchet) + Len(appData)
                 PROVE  r.ok /\ ValidateAnnounce(r, a.destHash)
      OBVIOUS
    <3>1. after + 1 <= n
      BY <1>7
    <3>2. s = g /\ u = appData
      BY <2>1, <3>1
    <3> QED
      BY <1>6, <2>7, <2>9, <3>2 DEF g
  <2>11. ASSUME ValidateAnnounce(r, a.destHash) PROVE u = appData
    <3>1. Len(s) = 1
      BY <2>9, <2>11
    <3>2. s = g /\ u \in Seq(S)
      BY <1>7, <2>1, <3>1
    <3>3. sig = SignatureOf(id, h \o u)
      BY <2>9, <2>11, <3>2 DEF g
    <3> QED
      BY <1>1, <1>4, <1>5, <1>6, <3>2, <3>3, SignedOnce, Zenon
  <2> QED
    BY <1>2, <2>7, <2>10, <2>11 DEF a, p, y
<1> QED
  BY <1>9, <1>10

(* An announce whose header lost its flag, or got one, is not accepted.     *)
LEMMA FlagLost ==
  ASSUME NEW id, NEW ratchet, NEW appData, ratchet \in Ratchets, appData \in AppDatas
  PROVE  LET a == BuildAnnounce(id, ratchet, appData)
             r == ParseAnnounce(a.payload, ~a.contextFlag, a.destHash)
         IN r.ok => ~ValidateAnnounce(r, a.destHash)
<1> DEFINE a == BuildAnnounce(id, ratchet, appData)
           y == a.payload
           r == ParseAnnounce(y, ~a.contextFlag, a.destHash)
           sig == SignatureOn(id, ratchet, appData)
           S == AnnounceBytes(id, sig)
           f == Fixed(id)
           g == <<sig>>
           n == 5 + Len(ratchet) + Len(appData)
           after == 4 + Len(ratchet)
           from == IF ratchet = <<>> THEN 5 ELSE 4
<1> SUFFICES ASSUME r.ok, ValidateAnnounce(r, a.destHash) PROVE FALSE
  OBVIOUS
<1>1. MadeOf(S, y, f, ratchet, g, appData)
  BY AnnounceParts
<1>2. a.contextFlag = (ratchet # <<>>)
  BY DEF BuildAnnounce
<1>3. r.signature = Subarray(y, from, from + 1)
  BY <1>2 DEF ParseAnnounce, Null
<1>4. PICK x : Subarray(y, from, from + 1) = <<SignatureOf(x[1], x[2])>>
  <2>1. \E b, c : r.signature = <<SignatureOf(b, c)>>
    BY DEF ValidateAnnounce
  <2>2. PICK b, c : r.signature = <<SignatureOf(b, c)>>
    BY <2>1
  <2> WITNESS <<b, c>>
  <2> QED
    BY <1>3, <2>2
<1> HIDE DEF S, f, g, sig, y, r
<1>5. /\ n \in Nat /\ Len(appData) \in Nat /\ Len(appData) <= 1
      /\ n = 5 + Len(ratchet) + Len(appData)
      /\ (ratchet = <<>> => Len(ratchet) = 0) /\ (ratchet # <<>> => Len(ratchet) = 1)
      /\ after \in Nat /\ after = 4 + Len(ratchet) /\ 5 <= n
  BY <1>1, LenProperties DEF MadeOf
<1>6. /\ y = f \o <<>> \o ratchet \o g \o appData
      /\ f \in Seq(S) /\ Len(f) = 4 /\ ratchet \in Seq(S) /\ appData \in Seq(S)
      /\ g \in Seq(S) /\ Len(g) = 1 /\ <<>> \in Seq(S) /\ Len(<<>>) = 0
  BY <1>1 DEF MadeOf
<1> HIDE DEF n, after
<1>7. AnnounceLeft(S, f, ratchet, g, appData, after, n, Upto(y, n)) /\ Len(y) = n /\ y \in Seq(S)
  <2>1. n <= 5 + Len(ratchet) + Len(appData)
    BY <1>5
  <2>2. AnnounceLeft(S, f, ratchet, g, appData, after, n,
                     Upto(f \o <<>> \o ratchet \o g \o appData, n))
    <3>1. after \in Nat /\ after = 4 + Len(ratchet) /\ n \in Nat /\ 5 <= n
      BY <1>5
    <3> QED
      BY <1>6, <2>1, <3>1, AnnounceCut
  <2>3. FivePlaced(S, f, <<>>, ratchet, g, appData, n)
    BY <1>5, <1>6, <2>1, AnnouncePlaced
  <2>4. /\ f \o <<>> \o ratchet \o g \o appData \in Seq(S)
        /\ Len(f \o <<>> \o ratchet \o g \o appData)
             = Len(f) + Len(<<>>) + Len(ratchet) + Len(g) + Len(appData)
    BY <2>3 DEF FivePlaced
  <2>5. y \in Seq(S) /\ Len(y) = Len(f) + Len(<<>>) + Len(ratchet) + Len(g) + Len(appData)
    BY <1>6, <2>4
  <2>6. Len(y) = n
    BY <1>5, <1>6, <2>5
  <2> QED
    BY <1>6, <2>2, <2>5, <2>6
<1>8. Upto(y, n) = y
  BY <1>7, SubSeqFull DEF Upto
<1>9. CASE ratchet = <<>>
  <2>1. from = 5 /\ after = 4 /\ n = 5 + Len(appData)
    BY <1>5, <1>9
  <2>2. From(y, 5) = appData
    BY <1>5, <1>7, <1>8, <2>1 DEF AnnounceLeft
  <2>3. Subarray(y, 5, 6) = SubSeq(y, 6, n)
    BY <1>5, <1>7, <2>1 DEF Subarray
  <2>4. From(y, 5) = SubSeq(y, 6, n)
    BY <1>7 DEF From
  <2>5. appData = <<SignatureOf(x[1], x[2])>>
    BY <1>4, <2>1, <2>2, <2>3, <2>4
  <2> QED
    BY <2>5 DEF AppDatas, SignatureOf, Byte
<1>10. CASE ratchet # <<>>
  <2>1. from = 4 /\ after = 5
    <3>1. Len(ratchet) = 1 /\ after = 4 + Len(ratchet)
      BY <1>5, <1>10, Zenon
    <3>2. from = 4
      BY <1>10, Zenon
    <3> QED
      BY <3>1, <3>2
  <2>2. Subarray(y, 4, 5) = ratchet
    BY <1>5, <1>7, <1>8, <2>1 DEF AnnounceLeft
  <2>3. ratchet = <<SignatureOf(x[1], x[2])>>
    BY <1>4, <2>1, <2>2
  <2> QED
    BY <1>10, <2>3 DEF Ratchets, SignatureOf, Byte
<1> QED
  BY <1>9, <1>10

(* A message: source and signature, the head of the array, its elements,    *)
(* and a stamp or none.                                                     *)
(* The bytes of a message: who it is from, the signature, the head of the   *)
(* array, its elements, and the stamp if it has one.                        *)
MessageJoined(S, src, sig, fa, els, stamp) ==
  LET packed == <<fa>> \o (els \o stamp)
      x == <<src, sig>> \o packed
  IN /\ els \in Seq(S)
     /\ packed \in Seq(S) /\ Len(packed) = 5 + Len(stamp) /\ packed[1] = fa
     /\ SubSeq(packed, 2, 5) = els
     /\ x \in Seq(S) /\ Len(x) = 7 + Len(stamp)
     /\ x[1] = src /\ x[2] = sig /\ x[3] = fa /\ From(x, 2) = packed

LEMMA MessageParts ==
  ASSUME NEW S, NEW src \in S, NEW sig \in S, NEW fa \in S, NEW els \in Seq(S), Len(els) = 4,
         NEW stamp \in Seq(S), Len(stamp) = 0 \/ Len(stamp) = 1
  PROVE  MessageJoined(S, src, sig, fa, els, stamp)
<1> DEFINE h == <<fa>>
           k == <<src, sig>>
           e == els \o stamp
           p == h \o e
           x == k \o p
           m == Len(stamp)
<1>1. h \in Seq(S) /\ Len(h) = 1 /\ h[1] = fa
  OBVIOUS
<1>2. k \in Seq(S) /\ Len(k) = 2 /\ k[1] = src /\ k[2] = sig
  OBVIOUS
<1>3. m \in Nat /\ (m = 0 \/ m = 1)
  BY LenProperties
<1>4. e \in Seq(S) /\ Len(e) = 4 + m
  <2>1. e \in Seq(S) /\ Len(e) = Len(els) + Len(stamp)
    BY Joined
  <2> QED
    BY <2>1
<1> HIDE DEF h, k, e, m
<1>5. p \in Seq(S) /\ Len(p) = 5 + m
  <2>1. p \in Seq(S) /\ Len(p) = Len(h) + Len(e)
    BY <1>1, <1>4, Joined
  <2> HIDE DEF p
  <2> QED
    BY <1>1, <1>3, <1>4, <2>1
<1>6. p[1] = fa
  <2>1. \A i \in 1..Len(h) : p[i] = h[i]
    BY <1>1, <1>4, JoinedFront
  <2> HIDE DEF p
  <2>2. 1 \in 1..Len(h)
    BY <1>1
  <2> QED
    BY <1>1, <2>1, <2>2
<1>7. SubSeq(p, 2, 5) = els
  <2> DEFINE q == h \o els \o stamp
  <2>1. q = p
    BY <1>1, ConcatAssociative DEF e
  <2>2. Subarray(Upto(q, 5 + m), 1, 5) = els
    <3>1. 5 + m \in Nat /\ Len(h) + Len(els) <= 5 + m /\ 5 + m <= Len(h) + Len(els) + Len(stamp)
          /\ Len(h) + Len(els) = 5
      BY <1>1, <1>3 DEF m
    <3>2. Subarray(Upto(h \o els \o stamp, 5 + m), Len(h), Len(h) + Len(els)) = els
      BY <1>1, <3>1, PartsInPlace, ZenonT(40)
    <3> QED
      BY <1>1, <3>1, <3>2
  <2> HIDE DEF p, q
  <2>3. Upto(p, 5 + m) = p
    BY <1>5, SubSeqFull DEF Upto
  <2>4. Subarray(p, 1, 5) = SubSeq(p, 2, 5)
    <3>1. (IF 5 < Len(p) THEN 5 ELSE Len(p)) = 5
      BY <1>3, <1>5
    <3>2. Subarray(p, 1, 5) = SubSeq(p, 1 + 1, IF 5 < Len(p) THEN 5 ELSE Len(p))
      BY Zenon DEF Subarray
    <3>3. 1 + 1 = 2
      OBVIOUS
    <3> QED
      BY <3>1, <3>2, <3>3, Zenon
  <2> QED
    BY <2>1, <2>2, <2>3, <2>4
<1> HIDE DEF p
<1>8. x \in Seq(S) /\ Len(x) = 7 + m
  <2>1. x \in Seq(S) /\ Len(x) = Len(k) + Len(p)
    BY <1>2, <1>5, Joined
  <2> HIDE DEF x
  <2> QED
    BY <1>2, <1>3, <1>5, <2>1
<1>9. From(x, 2) = p
  <2>1. From(k \o p, Len(k)) = p
    BY <1>2, <1>5, TailInPlace
  <2> QED
    BY <1>2, <2>1
<1>10. x[1] = src /\ x[2] = sig
  <2>1. \A i \in 1..Len(k) : x[i] = k[i]
    BY <1>2, <1>5, JoinedFront
  <2> HIDE DEF x
  <2>2. 1 \in 1..Len(k) /\ 2 \in 1..Len(k)
    BY <1>2
  <2> QED
    BY <1>2, <2>1, <2>2
<1>11. x[3] = fa
  <2>1. \A i \in 1..Len(k) + Len(p) : x[i] = IF i <= Len(k) THEN k[i] ELSE p[i - Len(k)]
    BY <1>2, <1>5, ConcatProperties
  <2> HIDE DEF x
  <2>2. 3 \in 1..Len(k) + Len(p) /\ ~(3 <= Len(k)) /\ 3 - Len(k) = 1
    BY <1>2, <1>3, <1>5
  <2>3. x[3] = p[3 - Len(k)]
    BY <2>1, <2>2
  <2> QED
    BY <1>6, <2>2, <2>3
<1> QED
  BY <1>5, <1>6, <1>7, <1>8, <1>9, <1>10, <1>11 DEF MessageJoined, h, k, e, p, m

(* The bytes of a message.                                                  *)
MessageBytes(dest, source, signature, elements, stamp) ==
  {dest, source, signature, Byte("fixarray 4"), Byte("fixarray 5")}
  \cup {elements[i] : i \in 1..4} \cup {stamp[i] : i \in 1..Len(stamp)}

Stamps == {<<>>, <<Packed("stamp", "js")>>}

MessageOf(elements, stamp) == PackMessage("alice", Byte("dest"), Byte("source"), elements, stamp)

HashedOf(elements) == HashedPart(Byte("dest"), Byte("source"), Array(elements))

SignatureIn(elements) ==
  SignatureOf("alice", Append(HashedOf(elements), HashOf(HashedOf(elements))))

ArrayHead(stamp) == IF stamp = <<>> THEN Byte("fixarray 4") ELSE Byte("fixarray 5")

LEMMA MessageMade ==
  ASSUME NEW elements, NEW stamp, elements \in Elements, stamp \in Stamps
  PROVE  \E S :
    /\ MessageJoined(S, Byte("source"), SignatureIn(elements), ArrayHead(stamp), elements, stamp)
    /\ MessageOf(elements, stamp).payload =
         <<Byte("source"), SignatureIn(elements)>> \o (<<ArrayHead(stamp)>> \o (elements \o stamp))
    /\ Byte("dest") \in S
    /\ (stamp = <<>> => Len(stamp) = 0) /\ (stamp # <<>> => Len(stamp) = 1)
    /\ Array(elements) = <<Byte("fixarray 4")>> \o elements
<1> DEFINE S == MessageBytes(Byte("dest"), Byte("source"), SignatureIn(elements), elements, stamp)
           sp == Packed("stamp", "js")
<1>1. PICK a, b, c, d : elements = <<a, b, c, d>>
  BY DEF Elements
<1>2. a \in S /\ b \in S /\ c \in S /\ d \in S
  <2>1. elements[1] = a /\ elements[2] = b /\ elements[3] = c /\ elements[4] = d
    BY <1>1
  <2>2. 1 \in 1..4 /\ 2 \in 1..4 /\ 3 \in 1..4 /\ 4 \in 1..4
    OBVIOUS
  <2>3. \A i \in 1..4 : elements[i] \in S
    BY DEF MessageBytes
  <2> QED
    BY <2>1, <2>2, <2>3
<1>3. elements \in Seq(S) /\ Len(elements) = 4
  <2> HIDE DEF S
  <2>1. FourJoined(S, a, b, c, d)
    BY <1>2, FourBytes
  <2> QED
    BY <1>1, <2>1 DEF FourJoined
<1>4. /\ Byte("dest") \in S /\ Byte("source") \in S /\ SignatureIn(elements) \in S
      /\ Byte("fixarray 4") \in S /\ Byte("fixarray 5") \in S /\ ArrayHead(stamp) \in S
  BY DEF MessageBytes, ArrayHead
<1>5. /\ stamp \in Seq(S)
      /\ (stamp = <<>> => Len(stamp) = 0) /\ (stamp # <<>> => Len(stamp) = 1)
  <2>1. CASE stamp = <<>>
    <3>1. <<>> \in Seq(S) /\ Len(<<>>) = 0
      BY EmptySeq, LenProperties
    <3> QED
      BY <2>1, <3>1, Zenon
  <2>2. CASE stamp = <<sp>>
    <3>1. Len(<<sp>>) = 1 /\ <<sp>>[1] = sp
      OBVIOUS
    <3>2. sp \in S
      <4>1. Len(stamp) = 1 /\ stamp[1] = sp /\ 1 \in 1..1
        BY <2>2, <3>1
      <4> QED
        BY <4>1 DEF MessageBytes
    <3> HIDE DEF S, sp
    <3>3. <<sp>> \in Seq(S) /\ <<sp>> # <<>>
      BY <3>2
    <3> QED
      BY <2>2, <3>1, <3>3, Zenon
  <2> QED
    BY <2>1, <2>2 DEF Stamps
<1> HIDE DEF S
<1>6. MessageJoined(S, Byte("source"), SignatureIn(elements), ArrayHead(stamp), elements, stamp)
  BY <1>3, <1>4, <1>5, MessageParts
<1>7. Array(elements) = <<Byte("fixarray 4")>> \o elements
  BY <1>3 DEF Array
<1>8. Array(elements \o stamp) = <<ArrayHead(stamp)>> \o (elements \o stamp)
  <2>1. Len(elements \o stamp) = Len(elements) + Len(stamp)
    BY <1>3, <1>5, Joined
  <2> DEFINE z == elements \o stamp
  <2> HIDE DEF z
  <2>2. Len(z) = 4 + Len(stamp)
    BY <1>3, <2>1 DEF z
  <2>3. stamp = <<>> => Len(z) = 4
    BY <1>5, <2>2
  <2>4. stamp # <<>> => Len(z) # 4
    BY <1>5, <2>2
  <2>5. Array(z) = <<ArrayHead(stamp)>> \o z
    BY <2>3, <2>4 DEF Array, ArrayHead
  <2> QED
    BY <2>5 DEF z
<1>9. MessageOf(elements, stamp).payload =
        <<Byte("source"), SignatureIn(elements)>> \o Array(elements \o stamp)
  BY DEF MessageOf, PackMessage, SignatureIn, HashedOf
<1> QED
  BY <1>4, <1>5, <1>6, <1>7, <1>8, <1>9

LEMMA MessageFields ==
  ASSUME NEW elements, NEW stamp
  PROVE  LET m == MessageOf(elements, stamp)
         IN /\ m.from = "alice" /\ m.dest = Byte("dest") /\ (m.stamped <=> stamp # <<>>)
            /\ m.messageId = HashOf(HashedOf(elements))
BY DEF MessageOf, PackMessage, HashedOf

(* A whole message verifies.                                                *)
LEMMA MessageUnderstood ==
  ASSUME NEW elements, NEW stamp, elements \in Elements, stamp \in Stamps
  PROVE  LET m == MessageOf(elements, stamp)
             r == UnpackMessage(m.payload, m.dest)
         IN /\ r.ok /\ VerifyMessageSignature(r, m.from)
            /\ ~m.stamped => r.messageId = m.messageId
<1> DEFINE m == MessageOf(elements, stamp)
           x == m.payload
           sig == SignatureIn(elements)
           fa == ArrayHead(stamp)
           packed == <<fa>> \o (elements \o stamp)
           dest == Byte("dest")
           r == UnpackMessage(x, dest)
           views == PrefixView(packed) \o <<Repack(packed), packed>>
<1>1. PICK S : /\ MessageJoined(S, Byte("source"), sig, fa, elements, stamp)
               /\ x = <<Byte("source"), sig>> \o packed
               /\ Byte("dest") \in S
               /\ (stamp = <<>> => Len(stamp) = 0) /\ (stamp # <<>> => Len(stamp) = 1)
               /\ Array(elements) = <<Byte("fixarray 4")>> \o elements
  BY MessageMade, Zenon
<1>2. /\ packed \in Seq(S) /\ Len(packed) = 5 + Len(stamp) /\ packed[1] = fa
      /\ SubSeq(packed, 2, 5) = elements
      /\ x \in Seq(S) /\ Len(x) = 7 + Len(stamp)
      /\ x[1] = Byte("source") /\ x[2] = sig /\ x[3] = fa /\ From(x, 2) = packed
  BY <1>1 DEF MessageJoined
<1>3. Byte("fixarray 4") # Byte("fixarray 5")
  BY DEF Byte
<1>4. fa = Byte("fixarray 5") <=> stamp # <<>>
  BY <1>3 DEF ArrayHead
<1> HIDE DEF x, sig, fa, packed, dest, m
<1>5. (stamp = <<>> => Len(x) = 7) /\ (stamp # <<>> => Len(x) = 8)
      /\ (stamp # <<>> => Len(packed) = 6)
  <2>1. (stamp = <<>> => Len(stamp) = 0) /\ (stamp # <<>> => Len(stamp) = 1)
    BY <1>1
  <2>2. Len(x) = 7 + Len(stamp) /\ Len(packed) = 5 + Len(stamp)
    BY <1>2
  <2> DEFINE l == Len(stamp)
             lx == Len(x)
             lp == Len(packed)
  <2>3. (stamp = <<>> => l = 0) /\ (stamp # <<>> => l = 1) /\ lx = 7 + l /\ lp = 5 + l
    BY <2>1, <2>2
  <2> HIDE DEF l, lx, lp
  <2>4. (stamp = <<>> => lx = 7) /\ (stamp # <<>> => lx = 8) /\ (stamp # <<>> => lp = 6)
    BY <2>3
  <2> QED
    BY <2>4 DEF lx, lp
<1>6. ~(Len(x) < 7 \/ (x[3] = Byte("fixarray 5") /\ Len(x) < 8))
  <2>1. CASE stamp = <<>>
    <3>1. Len(x) = 7
      BY <1>5, <2>1, Zenon
    <3>2. x[3] # Byte("fixarray 5")
      BY <1>2, <1>4, <2>1, Zenon
    <3>3. ~(Len(x) < 7)
      BY <3>1
    <3> QED
      BY <3>2, <3>3, Zenon
  <2>2. CASE stamp # <<>>
    <3>1. Len(x) = 8
      BY <1>5, <2>2, Zenon
    <3> QED
      BY <3>1
  <2> QED
    BY <2>1, <2>2
<1>7. r = [ok |-> TRUE, source |-> Byte("source"), signature |-> sig, views |-> views,
           dest |-> dest,
           messageId |-> HashOf(HashedPart(dest, Byte("source"),
                                           IF stamp # <<>> THEN Repack(packed) ELSE packed))]
  BY <1>2, <1>4, <1>6 DEF UnpackMessage
<1>8. stamp = <<>> => packed = Array(elements)
  <2> SUFFICES ASSUME stamp = <<>> PROVE packed = Array(elements)
    OBVIOUS
  <2>1. elements \o <<>> = elements
    <3>1. elements \in Seq(S)
      BY <1>1 DEF MessageJoined
    <3> QED
      BY <3>1, ConcatEmptySeq
  <2>2. packed = <<Byte("fixarray 4")>> \o (elements \o <<>>)
    BY DEF packed, fa, ArrayHead
  <2> QED
    BY <1>1, <2>1, <2>2
<1>9. \E i \in DOMAIN views : views[i] = Array(elements)
  <2>1. CASE stamp = <<>>
    <3>1. PrefixView(packed) = <<>>
      BY <1>2, <1>4, <2>1 DEF PrefixView
    <3>2. packed = Array(elements)
      BY <1>8, <2>1
    <3> QED
      BY <3>1, <3>2
  <2>2. CASE stamp # <<>>
    <3>1. PrefixView(packed) = <<Array(elements)>>
      <4>1. packed[1] = Byte("fixarray 5") /\ Len(packed) = 6
        BY <1>2, <1>4, <1>5, <2>2, Zenon
      <4>2. PrefixView(packed) = CutOut(packed)
        BY <4>1 DEF PrefixView
      <4>3. CutOut(packed) = <<<<Byte("fixarray 4")>> \o elements>>
        BY <1>2 DEF CutOut
      <4>4. Array(elements) = <<Byte("fixarray 4")>> \o elements
        BY <1>1
      <4> QED
        BY <4>2, <4>3, <4>4
    <3> QED
      BY <3>1
  <2> QED
    BY <2>1, <2>2
<1> HIDE DEF views
<1>10. r.ok /\ VerifyMessageSignature(r, "alice")
  BY <1>7, <1>9 DEF VerifyMessageSignature, sig, SignatureIn, HashedOf, dest
<1>11. stamp = <<>> => r.messageId = HashOf(HashedOf(elements))
  <2> SUFFICES ASSUME stamp = <<>> PROVE r.messageId = HashOf(HashedOf(elements))
    OBVIOUS
  <2>1. packed = Array(elements)
    BY <1>8
  <2> QED
    BY <1>7, <2>1 DEF HashedOf, dest
<1> QED
  BY <1>10, <1>11, MessageFields DEF m, x, dest

(* A message cut short is not one.                                          *)
LEMMA MessageCut ==
  ASSUME NEW elements, NEW stamp, elements \in Elements, stamp \in Stamps, NEW n \in Nat, NEW d,
         n < Len(MessageOf(elements, stamp).payload)
  PROVE  ~UnpackMessage(Upto(MessageOf(elements, stamp).payload, n), d).ok
<1> DEFINE x == MessageOf(elements, stamp).payload
           y == Upto(x, n)
           sig == SignatureIn(elements)
           fa == ArrayHead(stamp)
           packed == <<fa>> \o (elements \o stamp)
<1>1. PICK S : /\ MessageJoined(S, Byte("source"), sig, fa, elements, stamp)
               /\ x = <<Byte("source"), sig>> \o packed
               /\ Byte("dest") \in S
               /\ (stamp = <<>> => Len(stamp) = 0) /\ (stamp # <<>> => Len(stamp) = 1)
               /\ Array(elements) = <<Byte("fixarray 4")>> \o elements
  BY MessageMade, Zenon
<1>2. x \in Seq(S) /\ Len(x) = 7 + Len(stamp) /\ x[3] = fa
  BY <1>1 DEF MessageJoined
<1> HIDE DEF x, fa
<1>3. n < Len(x) /\ Len(x) \in Nat
  BY <1>2, LenProperties DEF x
<1>4. y \in Seq(S) /\ Len(y) = n /\ \A i \in 1..n : y[i] = x[i]
  BY <1>2, <1>3, CutOff
<1> HIDE DEF y
<1>5. (stamp = <<>> => Len(x) = 7) /\ (stamp # <<>> => Len(x) = 8)
  <2>1. (stamp = <<>> => Len(stamp) = 0) /\ (stamp # <<>> => Len(stamp) = 1)
    BY <1>1
  <2>2. Len(x) = 7 + Len(stamp)
    BY <1>2
  <2> DEFINE l == Len(stamp)
             lx == Len(x)
  <2>3. (stamp = <<>> => l = 0) /\ (stamp # <<>> => l = 1) /\ lx = 7 + l
    BY <2>1, <2>2
  <2> HIDE DEF l, lx
  <2>4. (stamp = <<>> => lx = 7) /\ (stamp # <<>> => lx = 8)
    BY <2>3
  <2> QED
    BY <2>4 DEF lx
<1>6. Len(y) < 7 \/ (y[3] = Byte("fixarray 5") /\ Len(y) < 8)
  <2>1. CASE stamp = <<>>
    <3>1. Len(x) = 7
      BY <1>5, <2>1, Zenon
    <3> QED
      BY <1>3, <1>4, <3>1
  <2>2. CASE stamp # <<>>
    <3>1. Len(x) = 8
      BY <1>5, <2>2, Zenon
    <3>2. n >= 3 => y[3] = x[3]
      BY <1>4
    <3>3. x[3] = Byte("fixarray 5")
      BY <1>2, <2>2 DEF fa, ArrayHead
    <3>4. n < 7 \/ (n >= 3 /\ n < 8)
      BY <1>3, <3>1
    <3> QED
      BY <1>4, <3>2, <3>3, <3>4, Zenon
  <2> QED
    BY <2>1, <2>2
<1> QED
  BY <1>6 DEF UnpackMessage, Null, x, y

(* Inside a link the destination is in front.                               *)
LEMMA InFront ==
  ASSUME NEW S, NEW k \in S, NEW d \in Seq(S)
  PROVE  LET x == <<k>> \o d
         IN /\ x \in Seq(S) /\ Len(x) = 1 + Len(d) /\ x[1] = k /\ From(x, 1) = d
            /\ \A i \in 1..Len(d) : x[i + 1] = d[i]
<1> DEFINE h == <<k>>
           x == h \o d
<1>1. h \in Seq(S) /\ Len(h) = 1 /\ h[1] = k
  OBVIOUS
<1> HIDE DEF h
<1>2. x \in Seq(S) /\ Len(x) = Len(h) + Len(d)
  BY <1>1, Joined
<1>3. \A i \in 1..Len(h) + Len(d) : x[i] = IF i <= Len(h) THEN h[i] ELSE d[i - Len(h)]
  BY <1>1, ConcatProperties
<1>4. From(x, Len(h)) = d
  BY <1>1, TailInPlace
<1> HIDE DEF x
<1>5. Len(d) \in Nat
  BY LenProperties
<1>6. x[1] = k
  <2>1. 1 \in 1..Len(h) + Len(d) /\ 1 <= Len(h)
    BY <1>1, <1>5
  <2> QED
    BY <1>1, <1>3, <2>1
<1>7. \A i \in 1..Len(d) : x[i + 1] = d[i]
  <2> TAKE i \in 1..Len(d)
  <2>1. i + 1 \in 1..Len(h) + Len(d) /\ ~(i + 1 <= Len(h)) /\ i + 1 - Len(h) = i
    BY <1>1, <1>5
  <2>2. x[i + 1] = d[i + 1 - Len(h)]
    BY <1>3, <2>1
  <2> QED
    BY <2>1, <2>2
<1>8. Len(x) = 1 + Len(d) /\ From(x, 1) = d
  BY <1>1, <1>2, <1>4
<1> QED
  BY <1>2, <1>6, <1>7, <1>8 DEF x, h

LEMMA InFrontCut ==
  ASSUME NEW S, NEW k \in S, NEW d \in Seq(S), NEW n \in Nat, 1 <= n, n <= 1 + Len(d)
  PROVE  From(Upto(<<k>> \o d, n), 1) = Upto(d, n - 1)
<1> DEFINE x == <<k>> \o d
           y == Upto(x, n)
           u == From(y, 1)
           v == Upto(d, n - 1)
<1>1. x \in Seq(S) /\ Len(x) = 1 + Len(d) /\ \A i \in 1..Len(d) : x[i + 1] = d[i]
  BY InFront
<1>2. Len(d) \in Nat /\ n - 1 \in Nat /\ n - 1 <= Len(d)
  BY LenProperties
<1> HIDE DEF x
<1>3. y \in Seq(S) /\ Len(y) = n /\ \A i \in 1..n : y[i] = x[i]
  BY <1>1, CutOff
<1>4. v \in Seq(S) /\ Len(v) = n - 1 /\ \A i \in 1..(n - 1) : v[i] = d[i]
  BY <1>2, CutOff
<1> HIDE DEF y, v
<1>5. u \in Seq(S) /\ Len(u) = n - 1 /\ \A i \in 1..(n - 1) : u[i] = y[i + 1]
  <2>1. \A i \in 2..n : y[i] \in S
    BY <1>3, ElementOfSeq
  <2>2. u = SubSeq(y, 2, n)
    BY <1>3 DEF From
  <2>3. /\ SubSeq(y, 2, n) \in Seq(S)
        /\ Len(SubSeq(y, 2, n)) = IF 2 <= n THEN n - 2 + 1 ELSE 0
        /\ \A i \in 1..(n - 2 + 1) : SubSeq(y, 2, n)[i] = y[2 + i - 1]
    BY <2>1, SubSeqProperties
  <2> HIDE DEF u
  <2>4. u \in Seq(S) /\ Len(u) = n - 1
    BY <2>2, <2>3
  <2>5. \A i \in 1..(n - 1) : u[i] = y[2 + i - 1]
    BY <2>2, <2>3
  <2> QED
    BY <2>4, <2>5
<1> HIDE DEF u
<1>6. \A i \in 1..(n - 1) : u[i] = v[i]
  <2> TAKE i \in 1..(n - 1)
  <2>1. i + 1 \in 1..n /\ i \in 1..Len(d)
    BY <1>2
  <2>2. u[i] = y[i + 1] /\ y[i + 1] = x[i + 1] /\ x[i + 1] = d[i] /\ v[i] = d[i]
    BY <1>1, <1>3, <1>4, <1>5, <2>1
  <2> QED
    BY <2>2
<1>7. u = v
  BY <1>4, <1>5, <1>6, SeqEqual
<1> QED
  BY <1>7 DEF u, v, x, y

(* A message has seven bytes at least.                                      *)
LEMMA PayloadTyped ==
  ASSUME NEW elements, NEW stamp, elements \in Elements, stamp \in Stamps
  PROVE  LET x == MessageOf(elements, stamp).payload
         IN \E S : x \in Seq(S) /\ Byte("dest") \in S /\ Len(x) \in Nat /\ Len(x) >= 7
<1> DEFINE x == MessageOf(elements, stamp).payload
<1>1. PICK S : /\ MessageJoined(S, Byte("source"), SignatureIn(elements), ArrayHead(stamp),
                                elements, stamp)
               /\ x = <<Byte("source"), SignatureIn(elements)>>
                      \o (<<ArrayHead(stamp)>> \o (elements \o stamp))
               /\ Byte("dest") \in S
               /\ (stamp = <<>> => Len(stamp) = 0) /\ (stamp # <<>> => Len(stamp) = 1)
               /\ Array(elements) = <<Byte("fixarray 4")>> \o elements
  BY MessageMade, Zenon
<1>2. x \in Seq(S) /\ Len(x) = 7 + Len(stamp)
  BY <1>1 DEF MessageJoined
<1>3. Len(stamp) = 0 \/ Len(stamp) = 1
  BY <1>1
<1> HIDE DEF x
<1>4. Len(x) \in Nat /\ Len(x) >= 7
  BY <1>2, <1>3
<1> QED
  BY <1>1, <1>2, <1>4 DEF x

(* A link message is the message behind its destination, whole and cut      *)
(* short.                                                                   *)
LEMMA LinkMessageUnderstood ==
  ASSUME NEW elements, NEW stamp, elements \in Elements, stamp \in Stamps
  PROVE  LET m == MessageOf(elements, stamp)
         IN UnpackLinkMessage(<<m.dest>> \o m.payload) = UnpackMessage(m.payload, m.dest)
<1> DEFINE d == MessageOf(elements, stamp).payload
           x == <<Byte("dest")>> \o d
<1>1. PICK S : d \in Seq(S) /\ Byte("dest") \in S /\ Len(d) \in Nat /\ Len(d) >= 7
  BY PayloadTyped
<1> HIDE DEF d
<1>2. Len(x) = 1 + Len(d) /\ x[1] = Byte("dest") /\ From(x, 1) = d
  BY <1>1, InFront
<1> HIDE DEF x
<1>3. ~(Len(x) < 8)
  BY <1>1, <1>2
<1>4. UnpackLinkMessage(x) = UnpackMessage(d, Byte("dest"))
  BY <1>2, <1>3 DEF UnpackLinkMessage
<1> QED
  BY <1>4, MessageFields DEF x, d

LEMMA LinkMessageCut ==
  ASSUME NEW elements, NEW stamp, elements \in Elements, stamp \in Stamps, NEW n \in Nat,
         n < 1 + Len(MessageOf(elements, stamp).payload)
  PROVE  ~UnpackLinkMessage(Upto(<<Byte("dest")>> \o MessageOf(elements, stamp).payload, n)).ok
<1> DEFINE d == MessageOf(elements, stamp).payload
           x == <<Byte("dest")>> \o d
           y == Upto(x, n)
<1>1. PICK S : d \in Seq(S) /\ Byte("dest") \in S /\ Len(d) \in Nat /\ Len(d) >= 7
  BY PayloadTyped
<1>2. \A k \in Nat : \A z : k < Len(d) => ~UnpackMessage(Upto(d, k), z).ok
  BY MessageCut
<1>3. n < 1 + Len(d)
  OBVIOUS
<1> HIDE DEF d
<1>4. x \in Seq(S) /\ Len(x) = 1 + Len(d)
  BY <1>1, InFront
<1>5. Len(y) = n
  <2>1. n <= Len(x)
    BY <1>1, <1>3, <1>4
  <2> HIDE DEF x
  <2> QED
    BY <1>4, <2>1, CutOff
<1>6. CASE n < 8
  <2>1. UnpackLinkMessage(y) = Null
    BY <1>5, <1>6 DEF UnpackLinkMessage
  <2> QED
    BY <2>1 DEF Null, d
<1>7. CASE ~(n < 8)
  <2>1. 1 <= n /\ n <= 1 + Len(d) /\ n - 1 \in Nat /\ n - 1 < Len(d)
    BY <1>1, <1>3, <1>7
  <2>2. From(y, 1) = Upto(d, n - 1)
    BY <1>1, <2>1, InFrontCut
  <2>3. UnpackLinkMessage(y) = UnpackMessage(Upto(d, n - 1), y[1])
    BY <1>5, <1>7, <2>2 DEF UnpackLinkMessage
  <2>4. ~UnpackMessage(Upto(d, n - 1), y[1]).ok
    BY <1>2, <2>1
  <2> QED
    BY <2>3, <2>4 DEF d
<1> QED
  BY <1>6, <1>7

(* What was built, what its bytes are, and what the parser makes of them.   *)
SomethingBuilt ==
  \/ \E p \in SomePackets : built = [kind |-> "packet", packet |-> p]
  \/ \E ratchet \in Ratchets, appData \in AppDatas :
        built = [kind |-> "announce", announce |-> BuildAnnounce("alice", ratchet, appData)]
  \/ \E elements \in Elements, stamp \in Stamps, link \in BOOLEAN :
        built = [kind |-> "message", message |-> MessageOf(elements, stamp), link |-> link]

Whole ==
  CASE built.kind = "packet" -> BuildPacket(built.packet)
    [] built.kind = "announce" -> built.announce.payload
    [] OTHER -> (IF built.link THEN <<built.message.dest>> ELSE <<>>) \o built.message.payload

Understood ==
  CASE built.kind = "packet" -> ParsePacket(octets)
    [] built.kind = "announce" -> ParsesAnnounce
    [] OTHER -> IF built.link THEN UnpackLinkMessage(octets)
                              ELSE UnpackMessage(octets, built.message.dest)

OctetsAre ==
  /\ harm # "cut" => octets = Whole
  /\ harm = "cut" => \E n \in 1..(Len(Whole) - 1) : octets = Upto(Whole, n)
  /\ harm = "flag" => built.kind = "announce"

GotIs ==
  /\ harm = "none" => got = Null
  /\ harm = "arrived" => got = Understood
  /\ got = Null \/ got = Understood

CodecInv ==
  /\ harm \in {"none", "cut", "flag", "arrived"}
  /\ \/ built = [kind |-> "nothing"] /\ harm = "none" /\ got = Null
     \/ SomethingBuilt /\ OctetsAre /\ GotIs

LEMMA CodecInitInv == CodecInit => CodecInv
BY DEF CodecInit, CodecInv

LEMMA SomethingIs == SomethingBuilt => built.kind \in {"packet", "announce", "message"}
BY DEF SomethingBuilt

LEMMA SendsInv == CodecInv /\ Sends => CodecInv'
<1> SUFFICES ASSUME CodecInv, Sends PROVE CodecInv'
  OBVIOUS
<1>1. /\ built.kind = "nothing" /\ (SendsPacket \/ SendsAnnounce \/ SendsMessage)
      /\ harm' = harm /\ got' = got
  BY DEF Sends
<1>2. harm = "none" /\ got = Null
  BY <1>1, SomethingIs DEF CodecInv
<1>3. SomethingBuilt' /\ octets' = Whole'
  <2>1. CASE SendsPacket
    <3>1. PICK p \in SomePackets : /\ built' = [kind |-> "packet", packet |-> p]
                                  /\ octets' = BuildPacket(p)
      BY <2>1 DEF SendsPacket
    <3>2. built'.kind = "packet" /\ built'.packet = p
      BY <3>1
    <3> QED
      BY <3>1, <3>2 DEF SomethingBuilt, Whole
  <2>2. CASE SendsAnnounce
    <3>1. PICK ratchet \in Ratchets, appData \in AppDatas :
            /\ built' = [kind |-> "announce", announce |-> BuildAnnounce("alice", ratchet, appData)]
            /\ octets' = BuildAnnounce("alice", ratchet, appData).payload
      BY <2>2 DEF SendsAnnounce, Ratchets, AppDatas
    <3>2. built'.kind = "announce" /\ built'.announce = BuildAnnounce("alice", ratchet, appData)
      BY <3>1
    <3> QED
      BY <3>1, <3>2 DEF SomethingBuilt, Whole
  <2>3. CASE SendsMessage
    <3>1. PICK elements \in Elements, stamp \in Stamps, link \in BOOLEAN :
            /\ built' = [kind |-> "message", message |-> MessageOf(elements, stamp), link |-> link]
            /\ octets' = (IF link THEN <<MessageOf(elements, stamp).dest>> ELSE <<>>)
                         \o MessageOf(elements, stamp).payload
      BY <2>3 DEF SendsMessage, Stamps, MessageOf
    <3>2. /\ built'.kind = "message" /\ built'.message = MessageOf(elements, stamp)
          /\ built'.link = link
      BY <3>1
    <3>3. SomethingBuilt'
      BY <3>1 DEF SomethingBuilt
    <3>4. octets' = Whole'
      BY <3>1, <3>2 DEF Whole
    <3> QED
      BY <3>3, <3>4
  <2> QED
    BY <1>1, <2>1, <2>2, <2>3
<1> QED
  BY <1>1, <1>2, <1>3 DEF CodecInv, OctetsAre, GotIs

LEMMA HarmedInv == CodecInv /\ IsHarmed => CodecInv'
<1> SUFFICES ASSUME CodecInv, IsHarmed PROVE CodecInv'
  OBVIOUS
<1>1. built.kind # "nothing" /\ harm = "none" /\ built' = built /\ got' = got
  BY DEF IsHarmed
<1>2. SomethingBuilt /\ octets = Whole /\ got = Null
  BY <1>1 DEF CodecInv, OctetsAre, GotIs
<1>3. SomethingBuilt' /\ Whole' = Whole
  BY <1>1, <1>2 DEF SomethingBuilt, Whole
<1>4. \/ harm' = "cut" /\ \E n \in 1..(Len(octets) - 1) : octets' = Upto(octets, n)
      \/ built.kind = "announce" /\ harm' = "flag" /\ octets' = octets
  BY DEF IsHarmed
<1>5. OctetsAre'
  BY <1>1, <1>2, <1>3, <1>4 DEF OctetsAre
<1> QED
  BY <1>1, <1>2, <1>3, <1>4, <1>5 DEF CodecInv, GotIs

LEMMA ParsesInv == CodecInv /\ Parses => CodecInv'
<1> SUFFICES ASSUME CodecInv, Parses PROVE CodecInv'
  OBVIOUS
<1>1. /\ built.kind # "nothing" /\ built' = built /\ octets' = octets
      /\ harm' = IF harm = "none" THEN "arrived" ELSE harm
  BY DEF Parses
<1>2. SomethingBuilt /\ OctetsAre /\ harm \in {"none", "cut", "flag", "arrived"}
  BY <1>1 DEF CodecInv
<1>3. SomethingBuilt' /\ Whole' = Whole
  BY <1>1, <1>2 DEF SomethingBuilt, Whole
<1>4. OctetsAre'
  BY <1>1, <1>2, <1>3 DEF OctetsAre
<1>5. got' = Understood
  BY DEF Parses, Understood
<1>6. (harm' = "flag") <=> (harm = "flag")
  BY <1>1
<1>7. ParsesAnnounce' = ParsesAnnounce
  BY <1>1, <1>6 DEF ParsesAnnounce
<1>8. Understood' = Understood
  BY <1>1, <1>7 DEF Understood
<1> QED
  BY <1>1, <1>2, <1>3, <1>4, <1>5, <1>8 DEF CodecInv, GotIs

LEMMA CodecNextInv == CodecInv /\ [CodecNext]_codecVars => CodecInv'
<1> SUFFICES ASSUME CodecInv, [CodecNext]_codecVars PROVE CodecInv'
  OBVIOUS
<1>1. CASE UNCHANGED codecVars
  BY <1>1 DEF CodecInv, SomethingBuilt, OctetsAre, GotIs, Whole, Understood, ParsesAnnounce,
              codecVars
<1> QED
  BY <1>1, SendsInv, HarmedInv, ParsesInv DEF CodecNext

(* The invariant and what the lemmas say of the parsers give the three      *)
(* parts of WholeOrNothing.                                                 *)
LEMMA PacketHolds ==
  ASSUME CodecInv, built.kind = "packet" PROVE PacketSurvives
<1>1. SomethingBuilt /\ OctetsAre /\ GotIs
  BY DEF CodecInv
<1>2. PICK p \in SomePackets : built = [kind |-> "packet", packet |-> p]
  BY <1>1 DEF SomethingBuilt
<1>3. built.packet = p /\ Whole = BuildPacket(p) /\ Understood = ParsePacket(octets)
  BY <1>2 DEF Whole, Understood
<1> DEFINE x == BuildPacket(p)
           r == ParsePacket(octets)
           fields == DOMAIN p \ {"transportId", "context"}
<1>4. x \in Seq(Nat) /\ Len(x) \in Nat /\ Upto(x, Len(x)) = x
  BY PacketParts, LenProperties, SubSeqFull DEF Upto
<1>5. \E n \in Nat : n <= Len(x) /\ octets = Upto(x, n) /\ (harm = "arrived" => n = Len(x))
  <2>1. CASE harm # "cut"
    <3>1. octets = Upto(x, Len(x)) /\ Len(x) <= Len(x)
      BY <1>1, <1>3, <1>4, <2>1 DEF OctetsAre
    <3> QED
      BY <1>4, <3>1
  <2>2. CASE harm = "cut"
    <3>1. PICK n \in 1..(Len(x) - 1) : octets = Upto(x, n)
      BY <1>1, <1>3, <2>2 DEF OctetsAre
    <3>2. n \in Nat /\ n <= Len(x)
      BY <1>4, <3>1
    <3> QED
      BY <2>2, <3>1, <3>2
  <2> QED
    BY <2>1, <2>2
<1>6. PICK n \in Nat : n <= Len(x) /\ octets = Upto(x, n) /\ (harm = "arrived" => n = Len(x))
  BY <1>5
<1>7. /\ harm = "arrived" => (r.ok <=> p.hops <= MAX_HOPS)
      /\ r.ok => /\ Len(r.destHash) = HashLength /\ Len(r.context) = 1
                 /\ p.headerType = HEADER_2 => r.transportId = p.transportId
                 /\ \A f \in fields \ {"payload"} : r[f] = p[f]
                 /\ harm = "arrived" => r.payload = p.payload
  BY <1>6, PacketUnderstood
<1>8. (harm = "arrived" => got = r) /\ (got.ok => got = r)
  BY <1>1, <1>3 DEF GotIs, Null
<1> QED
  BY <1>3, <1>7, <1>8 DEF PacketSurvives

(* An announce that is not cut.                                             *)
LEMMA PayloadWhole ==
  ASSUME NEW ratchet, NEW appData, ratchet \in Ratchets, appData \in AppDatas
  PROVE  LET x == BuildAnnounce("alice", ratchet, appData).payload
         IN /\ Len(x) = 5 + Len(ratchet) + Len(appData) /\ Len(x) \in Nat
            /\ Upto(x, Len(x)) = x
<1> DEFINE x == BuildAnnounce("alice", ratchet, appData).payload
           sig == SignatureOn("alice", ratchet, appData)
           S == AnnounceBytes("alice", sig)
           f == Fixed("alice")
           g == <<sig>>
           n == 5 + Len(ratchet) + Len(appData)
<1>1. MadeOf(S, x, f, ratchet, g, appData)
  BY AnnounceParts
<1> HIDE DEF x, S, f, g
<1>2. /\ x = f \o <<>> \o ratchet \o g \o appData
      /\ f \in Seq(S) /\ Len(f) = 4 /\ ratchet \in Seq(S) /\ appData \in Seq(S)
      /\ g \in Seq(S) /\ Len(g) = 1 /\ <<>> \in Seq(S) /\ Len(<<>>) = 0
  BY <1>1 DEF MadeOf
<1>3. n \in Nat /\ n <= 5 + Len(ratchet) + Len(appData)
  BY <1>2, LenProperties
<1>4. FivePlaced(S, f, <<>>, ratchet, g, appData, n)
  BY <1>2, <1>3, AnnouncePlaced
<1>5. /\ f \o <<>> \o ratchet \o g \o appData \in Seq(S)
      /\ Len(f \o <<>> \o ratchet \o g \o appData)
           = Len(f) + Len(<<>>) + Len(ratchet) + Len(g) + Len(appData)
  BY <1>4 DEF FivePlaced
<1>6. x \in Seq(S) /\ Len(x) = Len(f) + Len(<<>>) + Len(ratchet) + Len(g) + Len(appData)
  BY <1>2, <1>5, Zenon
<1>7. Len(x) = n
  <2>1. Len(ratchet) \in Nat /\ Len(appData) \in Nat
    BY <1>2, LenProperties
  <2> QED
    BY <1>2, <1>6, <2>1
<1>8. Upto(x, Len(x)) = x
  BY <1>6, SubSeqFull DEF Upto
<1> QED
  BY <1>3, <1>7, <1>8 DEF x

LEMMA AnnounceHolds ==
  ASSUME CodecInv, built.kind = "announce" PROVE AnnounceSurvives
<1>1. SomethingBuilt /\ OctetsAre /\ GotIs /\ harm \in {"none", "cut", "flag", "arrived"}
  BY DEF CodecInv
<1>2. PICK ratchet \in Ratchets, appData \in AppDatas :
        built = [kind |-> "announce", announce |-> BuildAnnounce("alice", ratchet, appData)]
  BY <1>1 DEF SomethingBuilt
<1> DEFINE a == BuildAnnounce("alice", ratchet, appData)
           x == a.payload
           r == ParseAnnounce(octets, (harm = "flag") # a.contextFlag, a.destHash)
<1>3. /\ built.announce = a /\ Whole = x
      /\ Understood = IF r.ok /\ ValidateAnnounce(r, a.destHash) THEN r ELSE Null
  BY <1>2 DEF Whole, Understood, ParsesAnnounce
<1>4. (a.contextFlag <=> ratchet # <<>>) /\ a.contextFlag \in BOOLEAN
  BY DEF BuildAnnounce
<1>5. DOMAIN a.body = {"publicKey", "nameHash", "randomHash", "ratchet", "appData"}
  BY DEF BuildAnnounce
<1>6. Len(x) = 5 + Len(ratchet) + Len(appData) /\ Len(x) \in Nat /\ Upto(x, Len(x)) = x
  BY PayloadWhole
<1>7. CASE harm = "flag"
  <2>1. octets = x /\ ((harm = "flag") # a.contextFlag) = ~a.contextFlag
    BY <1>1, <1>3, <1>4, <1>7 DEF OctetsAre
  <2>2. r.ok => ~ValidateAnnounce(r, a.destHash)
    BY <2>1, FlagLost
  <2>3. ~got.ok
    BY <1>1, <1>3, <2>2 DEF GotIs, Null
  <2> QED
    BY <1>7, <2>3 DEF AnnounceSurvives
<1>8. CASE harm # "flag"
  <2>1. \E n \in Nat : n <= Len(x) /\ octets = Upto(x, n) /\ (harm = "arrived" => n = Len(x))
    <3>1. CASE harm # "cut"
      BY <1>1, <1>3, <1>6, <3>1 DEF OctetsAre
    <3>2. CASE harm = "cut"
      <4>1. PICK n \in 1..(Len(x) - 1) : octets = Upto(x, n)
        BY <1>1, <1>3, <3>2 DEF OctetsAre
      <4> HIDE DEF x
      <4>2. n \in Nat /\ n <= Len(x)
        BY <1>6, <4>1
      <4> QED
        BY <3>2, <4>1, <4>2
    <3> QED
      BY <3>1, <3>2
  <2>2. PICK n \in Nat : n <= Len(x) /\ octets = Upto(x, n) /\ (harm = "arrived" => n = Len(x))
    BY <2>1
  <2>3. ((harm = "flag") # a.contextFlag) = a.contextFlag
    BY <1>4, <1>8
  <2>4. n <= 5 + Len(ratchet) + Len(appData)
    BY <1>6, <2>2, Zenon
  <2>5. r = ParseAnnounce(Upto(x, n), a.contextFlag, a.destHash)
    BY <2>2, <2>3
  <2>6. /\ n = 5 + Len(ratchet) + Len(appData) => r.ok /\ ValidateAnnounce(r, a.destHash)
        /\ r.ok /\ ValidateAnnounce(r, a.destHash) =>
             /\ r.publicKey = a.body.publicKey /\ r.nameHash = a.body.nameHash
             /\ r.randomHash = a.body.randomHash /\ r.ratchet = a.body.ratchet
             /\ r.appData = a.body.appData
    BY <2>4, <2>5, AnnounceUnderstood
  <2> HIDE DEF a, x, r
  <2>7. harm = "arrived" => got.ok
    BY <1>1, <1>3, <1>6, <2>2, <2>6, Zenon DEF GotIs
  <2>8. got.ok => got = r /\ r.ok /\ ValidateAnnounce(r, a.destHash)
    BY <1>1, <1>3 DEF GotIs, Null
  <2>9. got.ok => \A f \in DOMAIN a.body : got[f] = a.body[f]
    BY <1>5, <2>6, <2>8
  <2> QED
    BY <1>3, <2>7, <2>9 DEF AnnounceSurvives
<1> QED
  BY <1>7, <1>8

LEMMA MessageHolds ==
  ASSUME CodecInv, built.kind = "message" PROVE MessageSurvives
<1>1. SomethingBuilt /\ OctetsAre /\ GotIs
  BY DEF CodecInv
<1>2. PICK elements \in Elements, stamp \in Stamps, link \in BOOLEAN :
        built = [kind |-> "message", message |-> MessageOf(elements, stamp), link |-> link]
  BY <1>1 DEF SomethingBuilt
<1> DEFINE m == MessageOf(elements, stamp)
           d == m.payload
<1>3. PICK S : d \in Seq(S) /\ Byte("dest") \in S /\ Len(d) \in Nat /\ Len(d) >= 7
  BY PayloadTyped
<1>4. built.kind = "message" /\ built.message = m /\ built.link = link
  BY <1>2
<1>5. m.from = "alice" /\ m.dest = Byte("dest")
  BY MessageFields
<1>6. /\ UnpackMessage(d, m.dest).ok /\ VerifyMessageSignature(UnpackMessage(d, m.dest), m.from)
      /\ ~m.stamped => UnpackMessage(d, m.dest).messageId = m.messageId
  BY MessageUnderstood
<1>7. UnpackLinkMessage(<<m.dest>> \o d) = UnpackMessage(d, m.dest)
  BY LinkMessageUnderstood
<1>8. \A n \in Nat : n < Len(d) => ~UnpackMessage(Upto(d, n), m.dest).ok
  BY MessageCut
<1>9. \A n \in Nat : n < 1 + Len(d) => ~UnpackLinkMessage(Upto(<<m.dest>> \o d, n)).ok
  BY <1>5, LinkMessageCut
<1> HIDE DEF m, d
<1>10. /\ Whole = IF link THEN <<m.dest>> \o d ELSE d
       /\ Understood = IF link THEN UnpackLinkMessage(octets) ELSE UnpackMessage(octets, m.dest)
  <2>1. <<>> \o d = d
    BY <1>3, ConcatEmptySeq
  <2> QED
    BY <1>4, <2>1 DEF Whole, Understood, d
<1>11. (link => Len(Whole) = 1 + Len(d)) /\ (~link => Len(Whole) = Len(d))
  <2>1. Len(<<m.dest>> \o d) = 1 + Len(d)
    BY <1>3, <1>5, InFront
  <2> QED
    BY <1>10, <2>1
<1>12. CASE harm = "arrived"
  <2>1. octets = Whole /\ got = Understood
    BY <1>1, <1>12 DEF OctetsAre, GotIs
  <2>2. got = UnpackMessage(d, m.dest)
    BY <1>7, <1>10, <2>1
  <2> QED
    BY <1>4, <1>6, <1>12, <2>2, Zenon DEF MessageSurvives
<1>13. CASE harm = "cut"
  <2>1. PICK n \in 1..(Len(Whole) - 1) : octets = Upto(Whole, n)
    BY <1>1, <1>13 DEF OctetsAre
  <2>2. ~Understood.ok
    <3>1. CASE link
      <4>1. n \in Nat /\ n < 1 + Len(d)
        BY <1>3, <1>11, <2>1, <3>1
      <4>2. ~UnpackLinkMessage(Upto(<<m.dest>> \o d, n)).ok
        BY <1>9, <4>1
      <4> QED
        BY <1>10, <2>1, <3>1, <4>2, Zenon
    <3>2. CASE ~link
      <4>1. n \in Nat /\ n < Len(d)
        BY <1>3, <1>11, <2>1, <3>2
      <4>2. ~UnpackMessage(Upto(d, n), m.dest).ok
        BY <1>8, <4>1
      <4> QED
        BY <1>10, <2>1, <3>2, <4>2, Zenon
    <3> QED
      BY <3>1, <3>2
  <2>3. ~got.ok
    BY <1>1, <2>2 DEF GotIs, Null
  <2> QED
    BY <1>13, <2>3 DEF MessageSurvives
<1> QED
  BY <1>12, <1>13 DEF MessageSurvives

LEMMA CodecInvariant == CodecSpec => []CodecInv
BY CodecInitInv, CodecNextInv, PTL DEF CodecSpec

(* Whole, every packet, announce and message that this program builds or a  *)
(* peer sends it is understood as it was meant by parsePacket,              *)
(* parseAnnounce with validateAnnounce, and unpackMessage or                *)
(* unpackLinkMessage; cut short, or with the ratchet flag of an announce    *)
(* lost, it is not taken for something else. For a hash of any length.      *)
THEOREM WholeCorrect == CodecSpec => []WholeOrNothing
<1>1. CodecInv => WholeOrNothing
  <2> SUFFICES ASSUME CodecInv PROVE WholeOrNothing
    OBVIOUS
  <2>1. CASE built.kind = "packet"
    BY <2>1, PacketHolds DEF WholeOrNothing
  <2>2. CASE built.kind = "announce"
    BY <2>2, AnnounceHolds DEF WholeOrNothing
  <2>3. CASE built.kind = "message"
    BY <2>3, MessageHolds DEF WholeOrNothing
  <2> QED
    BY <2>1, <2>2, <2>3 DEF WholeOrNothing
<1> QED
  BY <1>1, CodecInvariant, PTL

LEMMA CodecInvTyped == CodecInv => CodecTypeOK
<1> SUFFICES ASSUME CodecInv PROVE CodecTypeOK
  OBVIOUS
<1>1. CASE built = [kind |-> "nothing"] /\ harm = "none" /\ got = Null
  BY <1>1 DEF CodecTypeOK, Null
<1>2. CASE SomethingBuilt /\ OctetsAre /\ GotIs
  <2>1. \A z, y : UnpackMessage(z, y).ok \in BOOLEAN
    BY DEF UnpackMessage, Null
  <2>2. ParsePacket(octets).ok \in BOOLEAN
    BY DEF ParsePacket, Null
  <2>3. ParsesAnnounce.ok \in BOOLEAN
    <3>1. \A z, y, w : ParseAnnounce(z, y, w).ok \in BOOLEAN
      BY DEF ParseAnnounce, Null
    <3> QED
      BY <3>1 DEF ParsesAnnounce, Null
  <2>4. UnpackLinkMessage(octets).ok \in BOOLEAN
    BY <2>1 DEF UnpackLinkMessage, Null
  <2>5. Understood.ok \in BOOLEAN /\ Null.ok \in BOOLEAN
    BY <2>1, <2>2, <2>3, <2>4 DEF Understood, Null
  <2> QED
    BY <1>2, <2>5, SomethingIs DEF CodecInv, CodecTypeOK, GotIs
<1> QED
  BY <1>1, <1>2 DEF CodecInv

(* The parsers answer with something understood or nothing at all.          *)
THEOREM CodecTyped == CodecSpec => []CodecTypeOK
  BY CodecInvTyped, CodecInvariant, PTL

(***************************************************************************)
(* The composition. A behaviour is one component's, of which the invariant  *)
(* is the one above; the others rest.                                       *)
(***************************************************************************)
Inv ==
  /\ part \in Parts
  /\ part = "aln" => BackInv
  /\ part \in {"copies", "contact"} => InboundInv
  /\ part = "responder" => ResponderInv
  /\ part = "announcing" => AnnouncingInv
  /\ part = "nomadnet" => NnInv
  /\ part = "session" => SessionTypeOK /\ DrivenInv
  /\ part = "framing" => FramingInv
  /\ part = "codec" => CodecInv
  /\ part = "transports" => TransportInv

LEMMA Initial == Init => Inv
<1> SUFFICES ASSUME Init PROVE Inv
  OBVIOUS
<1>1. part \in Parts /\ (part = "framing" => FramingInit)
  BY DEF Init
<1>2. BackInv /\ InboundInv /\ ResponderInv /\ NnInv
  BY BackInitial, InboundInitial, ResponderInitInv, NnInitial DEF Init
<1>3. SessionTypeOK /\ DrivenInv /\ AnnouncingInv /\ CodecInv /\ TransportInv
  BY SessionInitTyped, SessionInitInv, AnnouncingInitial, CodecInitInv, TransportInitial DEF Init
<1> QED
  BY <1>1, <1>2, <1>3, FramingBegins DEF Inv

(* A step is one of the component's.                                        *)
LEMMA PartSteps ==
  ASSUME [Next]_vars
  PROVE  /\ part' = part
         /\ part = "aln" => [AlnNext]_alnVars
         /\ part \in {"copies", "contact"} => [InboundNext]_inboundVars
         /\ part = "responder" => [ResponderNext]_responderVars
         /\ part = "announcing" => [AnnouncingNext]_announceVars
         /\ part = "nomadnet" => [NnNext]_nnVars
         /\ part = "session" => [SessionNext]_sessionVars
         /\ part = "framing" => [FramingNext]_framingVars
         /\ part = "codec" => [CodecNext]_codecVars
         /\ part = "transports" => [TransportNext]_transportVars
<1>1. CASE UNCHANGED vars
  BY <1>1 DEF vars
<1>2. CASE Next
  <2>1. (\E c \in Copies : CopyStep(c)) => InboundNext
    BY DEF InboundNext
  <2> QED
    BY <1>2, <2>1 DEF Next
<1> QED
  BY <1>1, <1>2

LEMMA StepKeeps == Inv /\ [Next]_vars => Inv'
<1> SUFFICES ASSUME Inv, [Next]_vars PROVE Inv'
  OBVIOUS
<1>1. part' = part /\ part \in Parts
  BY PartSteps DEF Inv
<1>2. part = "aln" => BackInv'
  BY PartSteps, BackKept DEF Inv
<1>3. part \in {"copies", "contact"} => InboundInv'
  BY PartSteps, InboundInvStep DEF Inv
<1>4. part = "responder" => ResponderInv'
  BY PartSteps, ResponderNextInv DEF Inv
<1>5. part = "announcing" => AnnouncingInv'
  BY PartSteps, CallsKept, RingsAndSavesKept DEF Inv, AnnouncingInv
<1>6. part = "nomadnet" => NnInv'
  BY PartSteps, NnNextInv DEF Inv
<1>7. part = "session" => SessionTypeOK' /\ DrivenInv'
  BY PartSteps, SessionNextTyped, SessionNextInv DEF Inv
<1>8. part = "framing" => FramingInv'
  BY PartSteps, FramingNextInv DEF Inv
<1>9. part = "codec" => CodecInv'
  BY PartSteps, CodecNextInv DEF Inv
<1>10. part = "transports" => TransportInv'
  BY PartSteps, TransportNextInv DEF Inv
<1> QED
  BY <1>1, <1>2, <1>3, <1>4, <1>5, <1>6, <1>7, <1>8, <1>9, <1>10 DEF Inv

LEMMA InvTyped == Inv => TypeOK
<1> SUFFICES ASSUME Inv PROVE TypeOK
  OBVIOUS
<1>1. part \in Parts
  BY DEF Inv
<1>2. /\ part = "aln" => AlnTypeOK
      /\ part = "copies" \/ part = "contact" => InboundTypeOK
      /\ part = "responder" => ResponderTypeOK
  BY BackInvTyped, InboundInvTyped DEF Inv, ResponderInv
<1>3. /\ part = "announcing" => AnnouncingTypeOK
      /\ part = "nomadnet" => NnTypeOK
      /\ part = "session" => SessionTypeOK
  BY AnnouncingInvTyped DEF Inv, NnInv
<1>4. /\ part = "framing" => FramingTypeOK
      /\ part = "codec" => CodecTypeOK
      /\ part = "transports" => TransportTypeOK
  BY FramingInvTyped, CodecInvTyped, TransportInvTyped DEF Inv
<1> QED
  BY <1>1, <1>2, <1>3, <1>4 DEF TypeOK, Parts

(* Whichever of the components is at work, its tables, queues, links, rings *)
(* and calls are well formed, and within their bounds.                      *)
THEOREM PacketsWellTyped == Spec => []TypeOK
  BY Initial, StepKeeps, InvTyped, PTL DEF Spec
===============================================================================
