------------------------------ MODULE PathRequest ------------------------------
(***************************************************************************)
(* Path requests for one destination (js/app.js, requestPath, trackPath):   *)
(* several callers ask for a path at once, share the entry of the map       *)
(* pendingPathRequests, and race its timer, the path response and the loss  *)
(* of the transport. Requests for different destinations share nothing but  *)
(* the transport.                                                           *)
(***************************************************************************)
EXTENDS Naturals, FiniteSets

CONSTANTS
  Callers,   \* the callers of requestPath: sends, link openings, lookups
  NoCaller

ASSUME PathAssumption == NoCaller \notin Callers

VARIABLES
  radioOn,    \* the flag of the same name
  known,      \* pathTable has the destination
  verifying,  \* an announce of the destination is being parsed and verified
  entry,      \* the entry of pendingPathRequests: whose it is, whom it resolves
  timers,     \* the callers whose own timer is armed
  call,       \* where each caller's requestPath call is, or what it returned
  dropped     \* history: the transport has been lost

pathVars == <<radioOn, known, verifying, entry, timers, call, dropped>>

Answered == {"true", "false", "threw"}

NoEntry == [owner |-> NoCaller, chain |-> {}]

(* Well typed; and an entry has an owner exactly while it has someone to    *)
(* resolve (pendingPathRequests).                                           *)
PathTypeOK ==
  /\ radioOn \in BOOLEAN /\ known \in BOOLEAN
  /\ verifying \in BOOLEAN /\ dropped \in BOOLEAN
  /\ entry \in [owner : Callers \cup {NoCaller}, chain : SUBSET Callers]
  /\ entry.owner = NoCaller <=> entry.chain = {}
  /\ timers \subseteq Callers
  /\ call \in [Callers -> {"idle", "sending", "waiting"} \cup Answered]

PathInit ==
  /\ radioOn \in BOOLEAN
  /\ known = FALSE
  /\ verifying = FALSE
  /\ entry = NoEntry
  /\ timers = {}
  /\ call = [c \in Callers |-> "idle"]
  /\ dropped = FALSE

-----------------------------------------------------------------------------
(* requestPath.                                                             *)

(* Every caller looks at the flag first. A known path is the answer; an     *)
(* entry is joined by wrapping its resolve; otherwise the packet goes out.  *)
RequestPath(c) ==
  /\ radioOn
  /\ call[c] = "idle"
  /\ \/ /\ known
        /\ call' = [call EXCEPT ![c] = "true"]
        /\ UNCHANGED entry
     \/ /\ ~known /\ entry # NoEntry
        /\ entry' = [entry EXCEPT !.chain = @ \cup {c}]
        /\ call' = [call EXCEPT ![c] = "waiting"]
     \/ /\ ~known /\ entry = NoEntry
        /\ call' = [call EXCEPT ![c] = "sending"]
        /\ UNCHANGED entry
  /\ UNCHANGED <<radioOn, known, verifying, timers, dropped>>

RegisterUntimed(c) ==
  /\ entry' = [owner |-> c, chain |-> {c}]
  /\ UNCHANGED timers

(* The entry is made after the send, over whatever entry is there by now.   *)
Register(c) ==
  /\ entry' = [owner |-> c, chain |-> {c}]
  /\ timers' = timers \cup {c}

RequestSent(c) ==
  /\ call[c] = "sending"
  /\ Register(c)
  /\ call' = [call EXCEPT ![c] = "waiting"]
  /\ UNCHANGED <<radioOn, known, verifying, dropped>>

RequestThrows(c) ==
  /\ call[c] = "sending"
  /\ call' = [call EXCEPT ![c] = "threw"]
  /\ UNCHANGED <<radioOn, known, verifying, entry, timers, dropped>>

ExpireKeepsEntry(c) == timers' = timers \ {c} /\ UNCHANGED entry

(* The timer deletes the destination's entry, whoever made it.              *)
Expire(c) == timers' = timers \ {c} /\ entry' = NoEntry

(* It resolves the promise of the caller that armed it, and no other: the   *)
(* wrapped resolve of the entry is not what it calls.                       *)
PathTimeout(c) ==
  /\ c \in timers
  /\ Expire(c)
  /\ call' = [call EXCEPT ![c] = "false"]
  /\ UNCHANGED <<radioOn, known, verifying, dropped>>

(* The caller goes on, and may ask again later.                             *)
Leave(c) ==
  /\ call[c] \in Answered
  /\ call' = [call EXCEPT ![c] = "idle"]
  /\ UNCHANGED <<radioOn, known, verifying, entry, timers, dropped>>

-----------------------------------------------------------------------------
(* trackPath, and the path table.                                           *)

(* An announce arrives; handleAnnounce awaits its parsing. There may be     *)
(* another on its way there, also after the transport is lost.              *)
AnnounceArrives ==
  /\ verifying' = TRUE
  /\ UNCHANGED <<radioOn, known, entry, timers, call, dropped>>

AnnounceRejected ==
  /\ verifying
  /\ verifying' = FALSE
  /\ UNCHANGED <<radioOn, known, entry, timers, call, dropped>>

ResolveOwner(e) == {e.owner} \ {NoCaller}

(* Whom the entry's resolve answers: its owner and all that joined it.      *)
Resolve(e) == e.chain

TrackPath ==
  /\ verifying
  /\ verifying' \in BOOLEAN
  /\ known' = TRUE
  /\ timers' = timers \ {entry.owner}
  /\ entry' = NoEntry
  /\ call' = [c \in Callers |-> IF c \in Resolve(entry) THEN "true" ELSE call[c]]
  /\ UNCHANGED <<radioOn, dropped>>

(* PATH_TABLE_MAX newer paths push this one out.                            *)
PathEvicted ==
  /\ known
  /\ known' = FALSE
  /\ UNCHANGED <<radioOn, verifying, entry, timers, call, dropped>>

-----------------------------------------------------------------------------
(* The transport.                                                           *)

RadioUp ==
  /\ ~radioOn
  /\ radioOn' = TRUE
  /\ UNCHANGED <<known, verifying, entry, timers, call, dropped>>

(* The stop button: the maps stay.                                          *)
RadioStop ==
  /\ radioOn
  /\ radioOn' = FALSE
  /\ UNCHANGED <<known, verifying, entry, timers, call, dropped>>

(* _onDisconnect: the maps and the entry's timer go, its promise does not   *)
(* settle; announces and requests in flight are not stopped.                *)
TransportLost ==
  /\ radioOn' = FALSE
  /\ known' = FALSE
  /\ timers' = timers \ {entry.owner}
  /\ entry' = NoEntry
  /\ dropped' = TRUE
  /\ UNCHANGED <<verifying, call>>

-----------------------------------------------------------------------------
Request(c) ==
  RequestPath(c) \/ RequestSent(c) \/ RequestThrows(c) \/ PathTimeout(c)

Paths == AnnounceArrives \/ AnnounceRejected \/ TrackPath \/ PathEvicted

PathNext ==
  \/ \E c \in Callers : Request(c) \/ Leave(c)
  \/ Paths
  \/ RadioUp \/ RadioStop \/ TransportLost

PathSpec == PathInit /\ [][PathNext]_pathVars

(* sendPacket settles and a timer fires.                                    *)
PathFairness == \A c \in Callers :
  /\ WF_pathVars(RequestSent(c) \/ RequestThrows(c))
  /\ WF_pathVars(PathTimeout(c))

PathFairSpec == PathSpec /\ PathFairness

-----------------------------------------------------------------------------
(* Properties.                                                              *)

(* No entry outlives the timer that removes it: a dead entry would catch    *)
(* every later caller for ever. Although callers overwrite each other's     *)
(* entries, time out under them, and lose the transport, of those an entry  *)
(* resolves its owner, and only its owner, has a timer armed, and all are   *)
(* still waiting (requestPath, trackPath, _onDisconnect).                   *)
EntryIsLive ==
  entry # NoEntry =>
    /\ timers \cap entry.chain = {entry.owner}
    /\ \A c \in entry.chain : call[c] = "waiting"

(* An armed timer has a caller to answer: it never overrides an answer.     *)
TimersAwaited == \A c \in timers : call[c] = "waiting"

(* While the transport lasts, a caller that sent a request itself gets an   *)
(* answer, also when another one overwrote its entry.                       *)
OwnersAnswered ==
  []~dropped => \A c \in Callers :
    call[c] = "sending" ~> call[c] \in Answered

(* And callers that joined it are answered with it when the path arrives:   *)
(* an answer "true" to the entry's owner is one to all it resolves          *)
(* ("wait on the same promise", requestPath).                               *)
JoinersAnswered ==
  [][\A c, d \in Callers :
       /\ entry # NoEntry /\ c = entry.owner /\ d \in entry.chain
       /\ call'[c] = "true"
       => call'[d] = "true"]_pathVars

(* "Returns true if a path arrived in time, false on timeout": while the    *)
(* radio stays on, every caller is answered.                                *)
CallersAnswered ==
  []radioOn => \A c \in Callers :
    call[c] = "waiting" ~> call[c] \in Answered
=============================================================================
