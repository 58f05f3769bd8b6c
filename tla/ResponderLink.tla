----------------------------- MODULE ResponderLink -----------------------------
(***************************************************************************)
(* A link that a peer opens (js/app.js, handleLinkRequest, handleLinkData,  *)
(* closeLink, closeAllLinks, _onDisconnect; js/link.js, validateRequest).   *)
(* The LINKREQUEST arrives in several copies; each is validated by a        *)
(* handler of its own, which makes a link object with a fresh key before it *)
(* looks whether the link is there already. The peer believes the first     *)
(* proof it gets. An object is named by the copy that made it.              *)
(***************************************************************************)
EXTENDS Naturals, FiniteSets

CONSTANTS
  Requests,   \* copies of the LINKREQUEST, numbered as they arrive
  Receivers,  \* handleLinkData calls that can be under way together
  NoLink

ASSUME ResponderAssumption == Requests \subseteq Nat /\ NoLink \notin Requests

VARIABLES
  request,   \* where each handleLinkRequest call is
  listed,    \* the object links has for the link id
  state,     \* Link.status of each object
  receiver,  \* where each handleLinkData call is: its object, context and key
  proofs,    \* LRPROOFs sent, by the object whose key they carry
  peerKey,   \* the peer: the key it has accepted
  datagrams,   \* the peer: contexts it has sent under that key
  closing,   \* the object that closeLink is closing
  ended      \* history: the link was closed, or the transport lost

responderVars == <<request, listed, state, receiver, proofs, peerKey, datagrams,
                   closing, ended>>

Contexts == {"message", "rtt", "close", "keepalive"}

FreeReceiver == [at |-> "no", link |-> NoLink, context |-> "rtt"]

ResponderInit ==
  /\ request = [r \in Requests |-> "no"]
  /\ listed = NoLink
  /\ state = [r \in Requests |-> "HANDSHAKE"]
  /\ receiver = [h \in Receivers |-> FreeReceiver]
  /\ proofs = {} /\ peerKey = NoLink /\ datagrams = {}
  /\ closing = NoLink /\ ended = FALSE

requestVars == <<request, proofs>>
peerVars    == <<peerKey, datagrams>>

-----------------------------------------------------------------------------
(* handleLinkRequest.                                                       *)

(* A copy of the right size and mode is validated; any other is dropped.    *)
LinkRequestArrives(r) ==
  /\ request[r] = "no" /\ \A q \in Requests : request[q] = "no" => r <= q
  /\ request' = [request EXCEPT ![r] = "validating"]
  /\ UNCHANGED <<listed, state, receiver, proofs, peerVars, closing, ended>>

LinkRequestRefused(r) ==
  /\ request[r] = "validating"
  /\ request' = [request EXCEPT ![r] = "done"]
  /\ UNCHANGED <<listed, state, receiver, proofs, peerVars, closing, ended>>

StoreNewest(r) == listed' = r

(* The object goes into the map unless one is there.                        *)
StoreFirst(r) == listed' = IF listed = NoLink THEN r ELSE listed

(* The proof that is sent is the stored object's.                           *)
Validated(r) ==
  /\ request[r] = "validating"
  /\ StoreFirst(r)
  /\ request' = [request EXCEPT ![r] = "proving"]
  /\ proofs' = proofs \cup {listed'}
  /\ UNCHANGED <<state, receiver, peerVars, closing, ended>>

ProofSent(r) ==
  /\ request[r] = "proving"
  /\ request' = [request EXCEPT ![r] = "done"]
  /\ UNCHANGED <<listed, state, receiver, proofs, peerVars, closing, ended>>

-----------------------------------------------------------------------------
(* The peer (an initiator of Reticulum).                                    *)

(* It accepts one proof, whichever reaches it first.                        *)
PeerAccepts ==
  /\ peerKey = NoLink
  /\ \E k \in proofs : peerKey' = k
  /\ datagrams' = {"rtt"}
  /\ UNCHANGED <<request, listed, state, receiver, proofs, closing, ended>>

PeerSends ==
  /\ peerKey # NoLink
  /\ \E x \in Contexts \ datagrams : datagrams' = datagrams \cup {x}
  /\ UNCHANGED <<request, listed, state, receiver, proofs, peerKey, closing, ended>>

-----------------------------------------------------------------------------
(* handleLinkData.                                                          *)

Receives(h, at, k, x) ==
  receiver' = [receiver EXCEPT ![h] = [at |-> at, link |-> k, context |-> x]]

(* A packet of the peer's arrives, once or again. The object is taken from  *)
(* the map; all but a keepalive are decrypted with its key.                 *)
LinkDataArrives(h) ==
  /\ receiver[h].at = "no"
  /\ listed # NoLink
  /\ \E x \in datagrams :
       Receives(h, IF x = "keepalive" THEN "answer" ELSE "decrypt", listed, x)
  /\ UNCHANGED <<requestVars, listed, state, peerVars, closing, ended>>

(* The object is active from here on, closed or not; its link is closed     *)
(* whatever object is listed; a message goes to dispatch and is proved.     *)
LinkDataDecrypted(h) ==
  /\ receiver[h].at = "decrypt"
  /\ LET k == receiver[h].link
         x == receiver[h].context
     IN \/ /\ k # peerKey
           /\ receiver' = [receiver EXCEPT ![h] = FreeReceiver]
           /\ UNCHANGED <<listed, state, ended>>
        \/ /\ k = peerKey /\ x = "rtt"
           /\ state' = [state EXCEPT ![k] = "ACTIVE"]
           /\ receiver' = [receiver EXCEPT ![h] = FreeReceiver]
           /\ UNCHANGED <<listed, ended>>
        \/ /\ k = peerKey /\ x = "close"
           /\ state' = [state EXCEPT ![k] = "CLOSED"]
           /\ listed' = NoLink /\ ended' = TRUE
           /\ receiver' = [receiver EXCEPT ![h] = FreeReceiver]
        \/ /\ k = peerKey /\ x = "message"
           /\ Receives(h, "answer", k, x)
           /\ UNCHANGED <<listed, state, ended>>
  /\ UNCHANGED <<requestVars, peerVars, closing>>

(* The pong, or the message's proof, is sent or not.                        *)
LinkDataAnswered(h) ==
  /\ receiver[h].at = "answer"
  /\ receiver' = [receiver EXCEPT ![h] = FreeReceiver]
  /\ UNCHANGED <<requestVars, listed, state, peerVars, closing, ended>>

-----------------------------------------------------------------------------
(* closeLink, as the disconnect button calls it for every link, sends the   *)
(* peer a LINKCLOSE if the link was active, and then forgets the link.      *)

CloseBegins ==
  /\ closing = NoLink /\ listed # NoLink
  /\ closing' = listed
  /\ UNCHANGED <<requestVars, listed, state, receiver, peerVars, ended>>

CloseEnds ==
  /\ closing # NoLink
  /\ state' = [state EXCEPT ![closing] = "CLOSED"]
  /\ listed' = NoLink /\ closing' = NoLink /\ ended' = TRUE
  /\ UNCHANGED <<requestVars, receiver, peerVars>>

TransportDies ==
  /\ ~ended /\ ended' = TRUE
  /\ listed' = NoLink
  /\ UNCHANGED <<requestVars, state, receiver, peerVars, closing>>

ResponderNext ==
  \/ \E r \in Requests : LinkRequestArrives(r) \/ LinkRequestRefused(r)
                         \/ Validated(r) \/ ProofSent(r)
  \/ PeerAccepts \/ PeerSends
  \/ \E h \in Receivers : LinkDataArrives(h) \/ LinkDataDecrypted(h)
                          \/ LinkDataAnswered(h)
  \/ CloseBegins \/ CloseEnds \/ TransportDies

ResponderSpec == ResponderInit /\ [][ResponderNext]_responderVars

-----------------------------------------------------------------------------
(* Properties.                                                              *)

(* Well typed; and a handler has an object exactly while it works on one    *)
(* (handleLinkData).                                                        *)
ResponderTypeOK ==
  /\ request \in [Requests -> {"no", "validating", "proving", "done"}]
  /\ {listed, peerKey, closing} \subseteq Requests \cup {NoLink}
  /\ state \in [Requests -> {"HANDSHAKE", "ACTIVE", "CLOSED"}]
  /\ receiver \in [Receivers -> [at : {"no", "decrypt", "answer"},
                                 link : Requests \cup {NoLink}, context : Contexts]]
  /\ \A h \in Receivers : receiver[h].at = "no" <=> receiver[h].link = NoLink
  /\ proofs \subseteq Requests /\ datagrams \subseteq Contexts
  /\ ended \in BOOLEAN

(* Until the link is closed or lost, every proof that was sent carries the  *)
(* key of the one listed object, so the peer's key is that object's, and an *)
(* active object is the one the peer talks to: copies of a request that are *)
(* validated together do not orphan the peer's session (the comment at      *)
(* js/app.js:1705; handleLinkRequest looks after its await).                *)
ProofsAgree ==
  ~ended =>
    /\ proofs \subseteq {listed}
    /\ peerKey # NoLink => peerKey = listed
    /\ \A r \in Requests : state[r] = "ACTIVE" => r = peerKey
=============================================================================
