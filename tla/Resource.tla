------------------------------- MODULE Resource -------------------------------
(***************************************************************************)
(* The transfer of one Resource over an established link (js/resource.js,   *)
(* ResourceSender and ResourceReceiver; js/app.js, startResourceReceive and *)
(* the resource contexts of handleLinkData). The receiver asks for windows  *)
(* of parts by their map hashes, of which the advertisement names only the  *)
(* first segment. Its part handlers are suspended while they hash, and the  *)
(* assembly twice. A repeated advertisement starts a receiver of its own in *)
(* place of the one the link points to. A request is answered when it is    *)
(* made, or lost: that it, too, may be late shows in its late answers.      *)
(***************************************************************************)
EXTENDS Naturals, Sequences, FiniteSets

CONSTANTS
  PartCount,      \* parts of the resource
  SegLen,         \* HASHMAP_MAX_LEN: map hashes in an advertisement or an update
  InitialWindow,  \* INITIAL_WINDOW
  MaxWindow,      \* opts.maxWindow
  StallRetries,   \* opts.stallRetries
  MaxHashing,     \* bound: parts of a receiver being hashed at a time
  Starts          \* the receivers that copies of the advertisement can start

ASSUME ResourceAssumption ==
  /\ {PartCount, SegLen, InitialWindow} \subseteq Nat \ {0}
  /\ MaxWindow \in Nat /\ InitialWindow <= MaxWindow
  /\ {MaxHashing, StallRetries, Starts} \subseteq Nat

VARIABLES
  rx,      \* the receivers
  slot,    \* link._resource
  sender,  \* the sender: at work, or what it reported
  wire     \* the packets sent: each arrives later, repeatedly, or never

resVars == <<rx, slot, sender, wire>>

(* A part stands for its slice and for its map hash.                        *)
Parts == 1 .. PartCount

Empty == 0

Receivers == 1 .. Starts

NoReceiver == 0

Packets ==
  [t : {"prf", "icl", "rcl"}] \cup
  [t : {"part", "hmu"}, p : Parts]

Prf == [t |-> "prf"]
Icl == [t |-> "icl"]
Rcl == [t |-> "rcl"]
Part(p) == [t |-> "part", p |-> p]
Hmu(p) == [t |-> "hmu", p |-> p]    \* an update of the hashmap from part p on

(* The map hashes from part p on that fit one packet.                       *)
Segment(p) ==
  LET n == PartCount + 1 - p
  IN  [i \in 1 .. (IF n < SegLen THEN n ELSE SegLen) |-> p + i - 1]

Receiver ==
  [started : BOOLEAN, parts : [Parts -> Parts \cup {Empty}],
   known : Seq(Parts), out : SUBSET Parts, window : Nat, waiting : BOOLEAN,
   left : Nat, armed : BOOLEAN, done : BOOLEAN, hashing : SUBSET Parts,
   asm : {"none", "check", "prove"}, failed : BOOLEAN,
   got : Seq([Parts -> Parts \cup {Empty}])]

(* A receiver as its constructor leaves it.                                 *)
Constructed ==
  [started |-> FALSE, parts |-> [p \in Parts |-> Empty],
   known |-> Segment(1), out |-> {}, window |-> InitialWindow,
   waiting |-> FALSE, left |-> StallRetries, armed |-> FALSE, done |-> FALSE,
   hashing |-> {}, asm |-> "none", failed |-> FALSE, got |-> <<>>]

(* Well typed; the hashmap never outgrows the resource, nor the window the  *)
(* largest that the path takes ("a burst larger than they hold guarantees a *)
(* dropped part").                                                          *)
ResTypeOK ==
  /\ rx \in [Receivers -> Receiver]
  /\ \A r \in Receivers :
       /\ Len(rx[r].known) \in Parts
       /\ rx[r].window \in 1 .. MaxWindow
  /\ slot \in Receivers \cup {NoReceiver}
  /\ sender \in {"open", "complete", "failed"}
  /\ wire \subseteq Packets

ResInit ==
  /\ rx = [r \in Receivers |-> Constructed]
  /\ slot = NoReceiver
  /\ sender = "open"
  /\ wire = {}

-----------------------------------------------------------------------------
(* Steps of a receiver x.                                                   *)

Missing(x) == {i \in 1 .. Len(x.known) : x.parts[i] = Empty}

Full(x) == \A p \in Parts : x.parts[p] # Empty

(* The next window: the first of the missing parts whose hashes are known.  *)
Window(x) ==
  {x.known[i] : i \in
    {j \in Missing(x) : Cardinality({k \in Missing(x) : k < j}) < x.window}}

ArmNever(x) == x

(* The watchdog is set, or set back.                                        *)
Arm(x) == [x EXCEPT !.armed = TRUE]

(* Nothing to ask for: completion is up to the parts on their way.          *)
Idle(x) == x.done \/ (Missing(x) = {} /\ Len(x.known) >= PartCount)

(* _requestNext: ask for a window, or for more of the hashmap.              *)
RequestNext(x) ==
  IF Idle(x) THEN x
  ELSE IF Missing(x) # {} THEN Arm([x EXCEPT !.out = Window(x)])
  ELSE Arm([x EXCEPT !.waiting = TRUE])

(* handleRequest: what the sender answers to that request. The hashmap goes *)
(* on after its last known part, or the request is broken.                  *)
Answers(x) ==
  LET p == x.known[Len(x.known)]
  IN  IF Idle(x) THEN {}
      ELSE IF Missing(x) # {} THEN {Part(q) : q \in Window(x)}
      ELSE {IF p < PartCount THEN Hmu(p + 1) ELSE Icl}

(* Packets of the receiver are sent, then answers to its request, if it is  *)
(* not lost and the sender is at work.                                      *)
Sent(packets, answers) ==
  \/ /\ sender = "open"
     /\ wire' = wire \cup packets \cup answers
     /\ sender' = IF Icl \in answers THEN "failed" ELSE "open"
  \/ wire' = wire \cup packets /\ UNCHANGED sender

Becomes(r, x) == rx' = [rx EXCEPT ![r] = x]

Asks(r, x) ==
  /\ Becomes(r, RequestNext(x))
  /\ Sent({}, Answers(x))

(* The receiver is done, with an error.                                     *)
Ended(x) == [x EXCEPT !.done = TRUE, !.armed = FALSE, !.failed = TRUE]

(* _fail: only the first time; the error callback clears the link's slot.   *)
Fail(r, x) ==
  IF x.done
    THEN Becomes(r, x) /\ UNCHANGED <<slot, sender, wire>>
    ELSE Becomes(r, Ended(x)) /\ slot' = NoReceiver /\ Sent({Rcl}, {})

-----------------------------------------------------------------------------
(* The receiver's end of the link.                                          *)

(* startResourceReceive: abort the receiver in the slot, if it is not done, *)
(* and start another, which refuses a resource too large or goes on.        *)
AdvArrives(r) ==
  LET new == [Constructed EXCEPT !.started = TRUE]
      abort == slot # NoReceiver /\ ~rx[slot].done
      old == IF abort THEN [rx EXCEPT ![slot] = Ended(@)] ELSE rx
      rcl == IF abort THEN {Rcl} ELSE {}
  IN
  /\ ~rx[r].started /\ \A s \in Receivers : s < r => rx[s].started
  /\ \/ /\ rx' = [old EXCEPT ![r] = RequestNext(new)]
        /\ Sent(rcl, Answers(new))
        /\ slot' = r
     \/ /\ rx' = [old EXCEPT ![r] = Ended(new)]
        /\ Sent({Rcl}, {})
        /\ slot' = NoReceiver

(* handlePart, up to the hash of the slice.                                 *)
PartArrives(r, p) ==
  /\ slot = r /\ Part(p) \in wire
  /\ ~rx[r].done
  /\ p \notin rx[r].hashing /\ Cardinality(rx[r].hashing) < MaxHashing
  /\ Becomes(r, Arm([rx[r] EXCEPT !.hashing = @ \cup {p}]))
  /\ UNCHANGED <<slot, sender, wire>>

(* The first empty slot whose map hash is that of part p gets it.           *)
Place(x, p) ==
  LET fits == {i \in Missing(x) : x.known[i] = p}
  IN  [x EXCEPT !.parts = [i \in Parts |->
        IF i \in fits /\ \A j \in fits : i <= j THEN p ELSE x.parts[i]]]

Awaited(x, p) == p \in x.out

TickedKeeping(x, p) == x

(* The part is no longer outstanding.                                       *)
Ticked(x, p) == [x EXCEPT !.out = @ \ {p}]

(* A larger window after a round, up to the largest.                        *)
Grow(x) == [x EXCEPT !.window = IF @ < MaxWindow THEN @ + 1 ELSE @]

(* The rest of handlePart, which does not look at done again.               *)
PartHashed(r, p) ==
  /\ p \in rx[r].hashing
  /\ LET x == [rx[r] EXCEPT !.hashing = @ \ {p}]
         y == Ticked(Place([x EXCEPT !.left = StallRetries], p), p)
     IN  IF ~Awaited(x, p)
           THEN Becomes(r, x) /\ UNCHANGED <<sender, wire>>
         ELSE IF Full(y)
           THEN Becomes(r, [y EXCEPT !.asm = "check"]) /\ UNCHANGED <<sender, wire>>
         ELSE IF y.out = {}
           THEN Asks(r, Grow(y))
           ELSE Becomes(r, y) /\ UNCHANGED <<sender, wire>>
  /\ UNCHANGED slot

RetriedForever(x) == x

(* One stall less to go.                                                    *)
Retried(x) == [x EXCEPT !.left = @ - 1]

(* _onStall: the smallest window again, or give up.                         *)
Stall(r) ==
  LET x == [rx[r] EXCEPT !.armed = FALSE]
  IN
  /\ rx[r].armed /\ ~rx[r].done
  /\ IF x.left = 0
       THEN Fail(r, x)
       ELSE /\ Asks(r, [Retried(x) EXCEPT !.window = InitialWindow, !.out = {},
                                          !.waiting = FALSE])
            /\ UNCHANGED slot

(* handleHashmapUpdate: append the hashes, whatever segment they are of, up *)
(* to the number of parts.                                                  *)
HmuArrives(r, p) ==
  LET all == rx[r].known \o Segment(p)
      n == IF Len(all) < PartCount THEN Len(all) ELSE PartCount
  IN
  /\ slot = r /\ Hmu(p) \in wire
  /\ ~rx[r].done /\ rx[r].waiting
  /\ Asks(r, [rx[r] EXCEPT !.known = SubSeq(all, 1, n), !.waiting = FALSE])
  /\ UNCHANGED slot

(* cancel: the sender gave up.                                              *)
IclArrives(r) ==
  /\ slot = r /\ Icl \in wire
  /\ ~rx[r].done
  /\ Becomes(r, Ended(rx[r]))
  /\ slot' = NoReceiver
  /\ UNCHANGED <<sender, wire>>

IntactAny(x) == TRUE

(* The hash of what was put together is the resource's.                     *)
Intact(x) == \A p \in Parts : x.parts[p] = p

(* _assemble, up to the integrity check. It too ignores done.               *)
Check(r) ==
  LET x == rx[r]
  IN
  /\ x.asm = "check"
  /\ IF Intact(x)
       THEN /\ Becomes(r, [x EXCEPT !.asm = "prove", !.done = TRUE, !.armed = FALSE])
            /\ UNCHANGED <<slot, sender, wire>>
       ELSE Fail(r, [x EXCEPT !.asm = "none"])

(* The rest: send the proof and hand over the data, which clears the slot,  *)
(* whoever is in it.                                                        *)
Prove(r) ==
  /\ rx[r].asm = "prove"
  /\ Becomes(r, [rx[r] EXCEPT !.asm = "none", !.got = Append(@, rx[r].parts)])
  /\ wire' = wire \cup {Prf}
  /\ slot' = NoReceiver
  /\ UNCHANGED sender

-----------------------------------------------------------------------------
(* The sender's end.                                                        *)

AnyProof == TRUE

(* The proof is the one expected.                                           *)
Expected == Prf \in wire

(* handleProof.                                                             *)
PrfArrives ==
  /\ sender = "open" /\ Expected
  /\ sender' = "complete"
  /\ UNCHANGED <<rx, slot, wire>>

(* cancel: the peer rejected the resource.                                  *)
RclArrives ==
  /\ sender = "open" /\ Rcl \in wire
  /\ sender' = "failed"
  /\ UNCHANGED <<rx, slot, wire>>

(* A sender of another implementation may give up when it likes.            *)
SenderCancels ==
  /\ sender = "open"
  /\ sender' = "failed"
  /\ wire' = wire \cup {Icl}
  /\ UNCHANGED <<rx, slot>>

-----------------------------------------------------------------------------
Receive(r) ==
  \/ AdvArrives(r) \/ IclArrives(r)
  \/ \E p \in Parts : PartArrives(r, p) \/ HmuArrives(r, p)

Work(r) ==
  (\E p \in Parts : PartHashed(r, p)) \/ Check(r) \/ Prove(r)

Serve ==
  \/ PrfArrives \/ RclArrives \/ SenderCancels

ResNext ==
  \/ \E r \in Receivers : Receive(r) \/ Work(r) \/ Stall(r)
  \/ Serve

ResSpec == ResInit /\ [][ResNext]_resVars

(* The crypto answers, and the stall timer fires, which every part sets     *)
(* back: no packet is repeated for ever. Nothing else is assumed of the     *)
(* sender and the network.                                                  *)
ResFairness == \A r \in Receivers :
  WF_resVars(Work(r)) /\ WF_resVars(Stall(r))

ResFairSpec == ResSpec /\ ResFairness

-----------------------------------------------------------------------------
(* Properties.                                                              *)

(* Only what was sent is handed over, with map hashes that a late repeated  *)
(* update has shifted, and handlers that go on after the receiver is done   *)
(* (_assemble).                                                             *)
DeliveredIsSent ==
  \A r \in Receivers : \A i \in DOMAIN rx[r].got :
    \A p \in Parts : rx[r].got[i][p] = p

(* A receiver hands over at most once: late and repeated parts do not start *)
(* another assembly (handlePart).                                           *)
DeliveredOnce ==
  \A r \in Receivers : Len(rx[r].got) <= 1

(* The sender reports success only if a receiver handed the data over: it   *)
(* is what a message sent over a link is shown as delivered on.             *)
SenderKnows ==
  sender = "complete" => \E r \in Receivers : rx[r].got # <<>>

(* "Without one, a single lost part left outstanding non-empty FOREVER":    *)
(* as long as a transfer is not over, its watchdog is armed, or every part  *)
(* is there and being assembled.                                            *)
NeverUnwatched ==
  \A r \in Receivers : rx[r].started /\ ~rx[r].done =>
    rx[r].armed \/ rx[r].asm = "check"

(* Every receiver ends: with the data or with an error, also when the       *)
(* sender falls silent, or when another takes its place in the slot.        *)
ReceiverEnds ==
  \A r \in Receivers : rx[r].started ~> rx[r].failed \/ rx[r].got # <<>>
=============================================================================
