-------------------------------- MODULE NomadNet --------------------------------
(***************************************************************************)
(* Browsing NomadNet pages (js/app.js, nnNavigate, nnEnsureLink,            *)
(* nnSendRequest, handleNomadNetResponse, startResourceReceive). There is   *)
(* one browse link and one pending request on a link, but nothing keeps     *)
(* navigations apart: each awaits the link, the encryption of its request   *)
(* and that of the closing of the link it replaces. A link is named by the  *)
(* navigation that opened it, a request by the navigation that made it.     *)
(***************************************************************************)
EXTENDS Naturals, Sequences, FiniteSets

CONSTANTS
  Navs,   \* navigations in one session, at most
  NomadNodes,  \* nomadnetwork nodes
  Paths   \* paths of pages

VARIABLES
  nnRadio,   \* radioOn
  browse,    \* nnState
  visits,    \* nnHistory
  visit,     \* nnHistoryIdx, counted from 1
  nav,       \* where each navigation is, and its variables
  nnActive,  \* links that are LINK_ACTIVE
  nnClosing, \* links whose closeLink is under way
  nnSlot,    \* link._nnRequest
  nnRx,      \* the request whose page link._resource is assembling
  answers,   \* requests whose inline answer is being decrypted
  page       \* what nnRenderPage last showed, and in answer to what

nnVars == <<nnRadio, browse, visits, visit, nav, nnActive, nnClosing, nnSlot, nnRx,
            answers, page>>

Nowhere == "nowhere"
NoNav == "no nav"

ASSUME NomadNetAssumption == NoNav \notin Navs

Unused == [at |-> "no", node |-> Nowhere, path |-> Nowhere, push |-> FALSE, via |-> NoNav]

NnInit ==
  /\ nnRadio = TRUE
  /\ browse = [link |-> NoNav, node |-> Nowhere, path |-> Nowhere]
  /\ visits = <<>> /\ visit = 0
  /\ nav = [n \in Navs |-> Unused]
  /\ nnActive = {} /\ nnClosing = {}
  /\ nnSlot = [n \in Navs |-> NoNav]
  /\ nnRx = [n \in Navs |-> NoNav]
  /\ answers = {}
  /\ page = [node |-> Nowhere, path |-> Nowhere, of |-> NoNav]

nnLinkVars == <<nnSlot, nnRx, answers>>

-----------------------------------------------------------------------------
(* nnNavigate.                                                              *)

Reusable(node) == browse.link \in nnActive /\ browse.node = node

(* The link is there: the path is noted, and the entry pushed behind the    *)
(* current one.                                                             *)
Proceeds(n, asked, l) ==
  /\ nav' = [nav EXCEPT ![n] = [asked EXCEPT !.at = "building", !.via = l]]
  /\ browse' = [link |-> l, node |-> asked.node, path |-> asked.path]
  /\ IF asked.push
       THEN /\ visits' = Append(SubSeq(visits, 1, visit),
                                [node |-> asked.node, path |-> asked.path])
            /\ visit' = visit + 1
       ELSE TRUE

(* nnEnsureLink: the browse link if it leads to the node, though it may be  *)
(* closing; otherwise that one is closed and a new one opened.              *)
Starts(n, node, path, push) ==
  LET asked == [at |-> "opening", node |-> node, path |-> path, push |-> push, via |-> NoNav]
  IN IF Reusable(node)
       THEN /\ Proceeds(n, asked, browse.link)
            /\ UNCHANGED nnClosing
       ELSE /\ nnClosing' = nnClosing \cup ({browse.link} \cap nnActive)
            /\ nav' = [nav EXCEPT ![n] = asked]
            /\ UNCHANGED browse

(* A click or an address.                                                   *)
Navigates(n) ==
  /\ nnRadio /\ nav[n].at = "no"
  /\ \E node \in NomadNodes, path \in Paths :
       /\ Starts(n, node, path, TRUE)
       /\ ~Reusable(node) => UNCHANGED <<visits, visit>>
  /\ UNCHANGED <<nnRadio, nnActive, nnLinkVars, page>>

(* Back, forward and reload: the index moves first, whatever comes of it.   *)
Revisits(n) ==
  /\ nav[n].at = "no"
  /\ \E i \in {visit - 1, visit, visit + 1} \cap DOMAIN visits :
       /\ visit' = i
       /\ IF nnRadio
            THEN Starts(n, visits[i].node, visits[i].path, FALSE)
            ELSE /\ nav' = [nav EXCEPT ![n].at = "over"]
                 /\ UNCHANGED <<browse, nnClosing>>
  /\ UNCHANGED <<nnRadio, visits, nnActive, nnLinkVars, page>>

(* openLinkToContact resolved. The link this one replaces as the browse     *)
(* link stays open if it was not the browse link when this call began.      *)
NnLinkOpens(n) ==
  /\ nnRadio /\ nav[n].at = "opening"
  /\ nnActive' = nnActive \cup {n}
  /\ Proceeds(n, nav[n], n)
  /\ ~nav[n].push => UNCHANGED <<visits, visit>>
  /\ UNCHANGED <<nnRadio, nnClosing, nnLinkVars, page>>

(* The node is not known, or no link comes about.                           *)
NnOpenFails(n) ==
  /\ nav[n].at = "opening"
  /\ nav' = [nav EXCEPT ![n].at = "over"]
  /\ UNCHANGED <<nnRadio, browse, visits, visit, nnActive, nnClosing, nnLinkVars, page>>

(* nnSendRequest, once it has the packet and its hash.                      *)
NnRequestSent(n) ==
  /\ nav[n].at = "building"
  /\ nnSlot' = [nnSlot EXCEPT ![nav[n].via] = n]
  /\ nav' = [nav EXCEPT ![n].at = "asked"]
  /\ UNCHANGED <<nnRadio, browse, visits, visit, nnActive, nnClosing, nnRx, answers, page>>

-----------------------------------------------------------------------------
(* The answers. Each request may be answered more than once, or never.      *)

Answerable(n) == nnRadio /\ nav[n].at = "asked" /\ nav[n].via \in nnActive

AnswerComes(n) ==
  /\ Answerable(n) /\ n \notin answers
  /\ answers' = answers \cup {n}
  /\ UNCHANGED <<nnRadio, browse, visits, visit, nav, nnActive, nnClosing, nnSlot, nnRx, page>>

IsPendingAny(n) == nnSlot[nav[n].via] # NoNav

IsPending(n) == nnSlot[nav[n].via] = n

(* handleNomadNetResponse: a page is shown under what nnState says now and  *)
(* the path of the pending request; a file is saved.                        *)
ResponseHandled(n) ==
  IF IsPending(n)
    THEN /\ nnSlot' = [nnSlot EXCEPT ![nav[n].via] = NoNav]
         /\ \/ UNCHANGED page
            \/ page' = [node |-> browse.node, path |-> nav[nnSlot[nav[n].via]].path, of |-> n]
    ELSE UNCHANGED <<nnSlot, page>>

AnswerHandled(n) ==
  /\ n \in answers
  /\ answers' = answers \ {n}
  /\ ResponseHandled(n)
  /\ UNCHANGED <<nnRadio, browse, visits, visit, nav, nnActive, nnClosing, nnRx>>

(* A resource is a page only when a request is pending as it is announced;  *)
(* it supersedes the one before it.                                         *)
PageAdvertised(n) ==
  /\ Answerable(n) /\ nnSlot[nav[n].via] # NoNav
  /\ nnRx' = [nnRx EXCEPT ![nav[n].via] = n]
  /\ UNCHANGED <<nnRadio, browse, visits, visit, nav, nnActive, nnClosing, nnSlot, answers, page>>

PageAssembled(l) ==
  /\ nnRx[l] # NoNav
  /\ nnRx' = [nnRx EXCEPT ![l] = NoNav]
  /\ ResponseHandled(nnRx[l])
  /\ UNCHANGED <<nnRadio, browse, visits, visit, nav, nnActive, nnClosing, answers>>

PageFails(l) ==
  /\ nnRx[l] # NoNav
  /\ nnRx' = [nnRx EXCEPT ![l] = NoNav]
  /\ UNCHANGED <<nnRadio, browse, visits, visit, nav, nnActive, nnClosing, nnSlot, answers, page>>

-----------------------------------------------------------------------------
(* A link ends: closeLink is through, the node closed it, or a watchdog did.*)
NnLinkCloses(l) ==
  /\ l \in nnActive
  /\ nnActive' = nnActive \ {l}
  /\ nnClosing' = nnClosing \ {l}
  /\ UNCHANGED <<nnRadio, browse, visits, visit, nav, nnLinkVars, page>>

(* The links go with the transport, and the browse link is forgotten.       *)
NnLosesTransport ==
  /\ nnRadio /\ nnRadio' = FALSE
  /\ browse' = [browse EXCEPT !.link = NoNav, !.node = Nowhere]
  /\ UNCHANGED <<visits, visit, nav, nnActive, nnClosing, nnLinkVars, page>>

NnNext ==
  \/ \E n \in Navs :
       \/ Navigates(n) \/ Revisits(n) \/ NnLinkOpens(n) \/ NnOpenFails(n) \/ NnRequestSent(n)
       \/ AnswerComes(n) \/ AnswerHandled(n)
       \/ PageAdvertised(n) \/ PageAssembled(n) \/ PageFails(n)
       \/ NnLinkCloses(n)
  \/ NnLosesTransport

NnSpec == NnInit /\ [][NnNext]_nnVars

-----------------------------------------------------------------------------
(* Properties.                                                              *)

(* Well typed; the index is on an entry of the history whenever there is    *)
(* one (nnGoBack, nnGoForward index nnHistory with it), and only an active  *)
(* link is being closed.                                                    *)
NnTypeOK ==
  /\ nnRadio \in BOOLEAN
  /\ browse \in [link : Navs \cup {NoNav}, node : NomadNodes \cup {Nowhere},
                 path : Paths \cup {Nowhere}]
  /\ visits \in Seq([node : NomadNodes, path : Paths])
  /\ visit \in 0..Len(visits) /\ (visit = 0 <=> visits = <<>>)
  /\ nav \in [Navs -> [at : {"no", "opening", "building", "asked", "over"},
                       node : NomadNodes \cup {Nowhere}, path : Paths \cup {Nowhere},
                       push : BOOLEAN, via : Navs \cup {NoNav}]]
  /\ nnClosing \subseteq nnActive /\ nnActive \subseteq Navs
  /\ nnSlot \in [Navs -> Navs \cup {NoNav}]
  /\ nnRx \in [Navs -> Navs \cup {NoNav}]
  /\ answers \subseteq Navs
  /\ page \in [node : NomadNodes \cup {Nowhere}, path : Paths \cup {Nowhere},
               of : Navs \cup {NoNav}]

(* A page is shown as what it is: under the path of the request it answers, *)
(* and under the node it came from as long as it came over the browse link. *)
(* (When navigations to two nodes overlap, or the transport goes while the  *)
(* answer is decrypted, handleNomadNetResponse labels it with another node  *)
(* or none, and its relative links lead there.)                             *)
PageMatchesRequest ==
  [][page' # page =>
       /\ page'.path = nav[page'.of].path
       /\ browse.link = nav[page'.of].via => page'.node = nav[page'.of].node]_page
=============================================================================
