----------------------------- MODULE InitiatorLink -----------------------------
(***************************************************************************)
(* Opening a Link to a destination (js/app.js, openLinkToContact,           *)
(* handleInitiatorLinkProof, closeLink; js/link.js, validateProof) on top   *)
(* of its path preamble: each caller of PathRequest goes on to open a link  *)
(* of its own. The handler of a link proof is suspended twice, and the      *)
(* timeout, a second copy of the proof, the peer and the loss of the        *)
(* transport act in between.                                                *)
(***************************************************************************)
EXTENDS PathRequest

CONSTANTS
  Handlers,  \* handleInitiatorLinkProof calls that can be in flight together
  NoHandler  \* not a handler: what a handler without a link points to

ASSUME LinkAssumption == NoHandler \notin Callers

VARIABLES
  step,      \* how far each openLinkToContact call is
  promise,   \* the promise it returned, or will return
  pend,      \* initiatorLinks: the links whose establishment is awaited
  patience,  \* the links whose establishment timer is armed
  status,    \* Link.status
  links,     \* the map of the same name
  hpc,       \* where each handler is suspended
  hlink,     \* the link it works on
  asked,     \* LINKREQUESTs transmitted
  proved,    \* links the responder has, and has sent a LRPROOF for
  gone       \* history: links closed, or begun before the transport was lost

openVars == <<step, promise>>
mapVars  == <<pend, patience, links, status>>
handVars == <<hpc, hlink>>
peerVars == <<asked, proved, gone>>
linkVars == <<openVars, mapVars, handVars, peerVars>>
vars == <<pathVars, linkVars>>

(* Well typed; and a handler points to a link exactly while it works on it  *)
(* (handleInitiatorLinkProof).                                              *)
LinkTypeOK ==
  /\ PathTypeOK
  /\ step \in [Callers -> {"path", "id", "sending", "done"}]
  /\ promise \in [Callers -> {"none", "resolved", "rejected"}]
  /\ pend \subseteq Callers /\ patience \subseteq Callers
  /\ links \subseteq Callers
  /\ status \in [Callers -> {"PENDING", "ACTIVE", "CLOSED"}]
  /\ hpc \in [Handlers -> {"idle", "derive", "send"}]
  /\ hlink \in [Handlers -> Callers \cup {NoHandler}]
  /\ \A h \in Handlers : hlink[h] = NoHandler <=> hpc[h] = "idle"
  /\ asked \subseteq Callers /\ proved \subseteq asked
  /\ gone \subseteq Callers

Init ==
  /\ PathInit
  /\ step = [c \in Callers |-> "path"]
  /\ promise = [c \in Callers |-> "none"]
  /\ pend = {} /\ patience = {} /\ links = {}
  /\ status = [c \in Callers |-> "PENDING"]
  /\ hpc = [h \in Handlers |-> "idle"]
  /\ hlink = [h \in Handlers |-> NoHandler]
  /\ asked = {} /\ proved = {} /\ gone = {}

(* A promise settles once; later calls of resolve and reject do nothing.    *)
Settle(S, v) ==
  promise' = [c \in Callers |->
    IF c \in S /\ promise[c] = "none" THEN v ELSE promise[c]]

-----------------------------------------------------------------------------
(* openLinkToContact.                                                       *)

(* The preamble is over; its answer is not looked at, an exception is the   *)
(* end.                                                                     *)
PreambleOver(c) ==
  /\ step[c] = "path" /\ call[c] \in Answered
  /\ IF call[c] = "threw"
       THEN Settle({c}, "rejected") /\ step' = [step EXCEPT ![c] = "done"]
       ELSE UNCHANGED promise /\ step' = [step EXCEPT ![c] = "id"]
  /\ UNCHANGED <<pathVars, mapVars, handVars, peerVars>>

Await(c) == pend' = pend \cup {c} /\ patience' = patience \cup {c}

(* The link_id is known: make the entry with its timer, then send. With the *)
(* radio on the packet may get out, and then sendPacket does not throw.     *)
SendLinkRequest(c) ==
  /\ step[c] = "id"
  /\ Await(c)
  /\ step' = [step EXCEPT ![c] = "sending"]
  /\ \/ radioOn /\ asked' = asked \cup {c}
     \/ UNCHANGED asked
  /\ UNCHANGED <<pathVars, promise, links, status, handVars, proved, gone>>

RefusedForgotten(c) ==
  /\ pend' = pend \ {c} /\ patience' = patience \ {c}
  /\ UNCHANGED promise

(* The establishment failed: its timer, its entry and its promise end.      *)
Refused(c) ==
  /\ pend' = pend \ {c} /\ patience' = patience \ {c}
  /\ Settle({c}, "rejected")

LinkRequestSent(c) ==
  /\ step[c] = "sending"
  /\ step' = [step EXCEPT ![c] = "done"]
  /\ UNCHANGED <<pathVars, promise, mapVars, handVars, peerVars>>

LinkRequestThrows(c) ==
  /\ step[c] = "sending" /\ c \notin asked
  /\ step' = [step EXCEPT ![c] = "done"]
  /\ Refused(c)
  /\ UNCHANGED <<pathVars, links, status, handVars, peerVars>>

LinkTimeout(c) ==
  /\ c \in patience
  /\ patience' = patience \ {c}
  /\ IF c \in pend
       THEN pend' = pend \ {c} /\ Settle({c}, "rejected")
       ELSE UNCHANGED <<pend, promise>>
  /\ UNCHANGED <<pathVars, step, links, status, handVars, peerVars>>

-----------------------------------------------------------------------------
(* handleInitiatorLinkProof, with validateProof.                            *)

AcceptableUnsigned(c, intact) == status[c] = "PENDING"

(* The status is checked, then the signature, in one go.                    *)
Acceptable(c, intact) == status[c] = "PENDING" /\ intact

(* A proof arrives: from the responder, intact or with a signature that     *)
(* does not verify. Only one for an awaited link is looked at.              *)
LinkProofArrives(h) ==
  /\ hpc[h] = "idle"
  /\ \E c \in pend \cap asked, intact \in BOOLEAN :
       /\ intact => c \in proved
       /\ IF Acceptable(c, intact)
            THEN /\ hpc' = [hpc EXCEPT ![h] = "derive"]
                 /\ hlink' = [hlink EXCEPT ![h] = c]
                 /\ UNCHANGED <<pend, patience, promise>>
            ELSE Refused(c) /\ UNCHANGED handVars
  /\ UNCHANGED <<pathVars, step, links, status, peerVars>>

(* The session key is derived: the link is active, whatever it was before.  *)
(* The LRRTT is then encrypted and sent, and a failure only logged.         *)
KeyDerived(h) ==
  /\ hpc[h] = "derive"
  /\ status' = [status EXCEPT ![hlink[h]] = "ACTIVE"]
  /\ hpc' = [hpc EXCEPT ![h] = "send"]
  /\ UNCHANGED <<pathVars, openVars, pend, patience, links, hlink, peerVars>>

StoreLinkUnlisted(c) == UNCHANGED links

StoreLink(c) == links' = links \cup {c}

Release(h) ==
  /\ hpc' = [hpc EXCEPT ![h] = "idle"]
  /\ hlink' = [hlink EXCEPT ![h] = NoHandler]

(* No look at what happened since the proof arrived.                        *)
Established(h) ==
  /\ hpc[h] = "send"
  /\ pend' = pend \ {hlink[h]} /\ patience' = patience \ {hlink[h]}
  /\ StoreLink(hlink[h])
  /\ Settle({hlink[h]}, "resolved")
  /\ Release(h)
  /\ UNCHANGED <<pathVars, step, status, peerVars>>

-----------------------------------------------------------------------------
(* The end of a link.                                                       *)

(* closeLink, once its LINKCLOSE is sent or failed, and a LINKCLOSE of the  *)
(* peer for a link that is listed.                                          *)
CloseLink(c) ==
  /\ promise[c] = "resolved" \/ c \in links
  /\ links' = links \ {c}
  /\ status' = [status EXCEPT ![c] = "CLOSED"]
  /\ gone' = gone \cup {c}
  /\ UNCHANGED <<pathVars, openVars, pend, patience, handVars, asked, proved>>

(* _onDisconnect: paths, establishments and links go; handlers go on.       *)
LinksLost ==
  /\ TransportLost
  /\ Settle(pend, "rejected")
  /\ pend' = {} /\ patience' = patience \ pend
  /\ links' = {}
  /\ gone' = gone \cup asked
  /\ UNCHANGED <<step, status, handVars, asked, proved>>

(* The responder takes the LINKREQUEST and answers, now or later, and again *)
(* when a relay repeats the request.                                        *)
Respond(c) ==
  /\ c \in asked
  /\ proved' = proved \cup {c}
  /\ UNCHANGED <<pathVars, openVars, mapVars, handVars, asked, gone>>

-----------------------------------------------------------------------------
PathStep ==
  /\ \/ \E c \in Callers : step[c] = "path" /\ Request(c)
     \/ Paths \/ RadioUp \/ RadioStop
  /\ UNCHANGED linkVars

Open(c) ==
  PreambleOver(c) \/ SendLinkRequest(c) \/ LinkRequestSent(c)
  \/ LinkRequestThrows(c) \/ LinkTimeout(c)

Handle(h) == KeyDerived(h) \/ Established(h)

Next ==
  \/ PathStep
  \/ \E c \in Callers : Open(c) \/ CloseLink(c) \/ Respond(c)
  \/ \E h \in Handlers : LinkProofArrives(h) \/ Handle(h)
  \/ LinksLost

Spec == Init /\ [][Next]_vars

(* Crypto answers, sendPacket settles and timers fire; nothing is assumed   *)
(* of the network, the peer, or the preamble.                               *)
Fairness ==
  /\ \A c \in Callers :
       /\ WF_vars(SendLinkRequest(c))
       /\ WF_vars(LinkRequestSent(c) \/ LinkRequestThrows(c))
       /\ WF_vars(LinkTimeout(c))
  /\ \A h \in Handlers : WF_vars(Handle(h))

FairSpec == Spec /\ Fairness

-----------------------------------------------------------------------------
(* Properties.                                                              *)

(* Every awaited establishment can still end: its timer is armed and its    *)
(* promise open, also with two proofs of one link in flight, a throwing     *)
(* send, or the transport lost (openLinkToContact, _onDisconnect).          *)
AwaitedIsTimed ==
  /\ pend \subseteq patience
  /\ \A c \in pend : promise[c] = "none"

(* What a caller was handed it can use: until the link is closed or lost    *)
(* with the transport, it is active, listed for the packets that come back  *)
(* on it, and the responder has it (handleInitiatorLinkProof).              *)
ResolvedIsUsable ==
  \A c \in Callers : promise[c] = "resolved" /\ c \notin gone =>
    status[c] = "ACTIVE" /\ c \in links

(* No link is listed, and no key derived, that the responder does not have. *)
LinkIsMutual ==
  \A c \in Callers :
    c \in links \/ status[c] = "ACTIVE" => c \in proved

(* After its preamble openLinkToContact always ends: its caller gets a link *)
(* or an error, whatever the responder, the network and the transport do.   *)
OpenSettles ==
  \A c \in Callers : step[c] = "id" ~> promise[c] # "none"

(* "links died with the transport. Without this, the maps kept stale-ACTIVE *)
(* links across a BLE drop/reconnect" (_onDisconnect): a link begun before  *)
(* the transport was lost, or closed, is not listed.                        *)
LostIsForgotten == links \cap gone = {}
=============================================================================
