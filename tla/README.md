# A verification of the Reticulum web client in TLA+

The program is a LXMF messenger in a browser page: it speaks the Reticulum
protocol over LoRa radios (Web Bluetooth, Web Serial), over a WebSocket to a
Reticulum daemon, or through an agnostic-LoRa-Net (ALN) mesh node. It is
single-threaded JavaScript, but every handler is `async`: it is suspended at
each `await`, and any other handler, timer or click may run there. Nearly all
that is hard in it is of this kind. This directory models it in TLA+, checks the
models with TLC, and proves the main invariants with TLAPS.

## 1. Inventory

| part | code | state it keeps | operations | what is hard, and what makes it correct |
|---|---|---|---|---|
| Outbound messages | `js/app.js` 2887-3120, 3354-3412, 3500-3654; `js/store.js` | IndexedDB rows (state, attempts, nextRetryAt, rawPacket, packetHash) | sendMessage, doOutboundSend, retry tick, delivery proof, delete | overlapping ticks, proofs that land during a send, deletion and reload under a running handler; a double check is true, retries end, and pass their budget only where ticks overlap |
| Paths | `app.js` 1269-1404 | pathTable, pendingPathRequests | requestPath, trackPath, timer, disconnect | callers share and overwrite an entry; each is answered |
| Initiator links | `app.js` 1884-2090; `js/link.js` | initiatorLinks, links, Link.status | openLinkToContact, link proof, timeout, close | two awaits in the proof handler; an opening settles, a link handed out is usable |
| Responder links, link data | `app.js` 1685-1880 | links | handleLinkRequest, handleLinkData by context | repeated requests, data before the RTT packet |
| Resource transfer | `js/resource.js`, `app.js` 2534-2638 | parts, hashmap, window, outstanding; one receiver slot per link | advertise, request, part, hashmap update, proof, stall timer, cancel | lost and repeated packets, concurrent part handlers, supersession during assembly; what is delivered is what was sent, a transfer ends |
| ALN router | `js/aln-router.js`, `aln-interface.js`, `aln-tunnel.js` | bindings, link and reverse routes, pending queue, attached node | route, learn, drain, prune | tables change during an await; every packet in one place, none waits whose route is known, every peer greeted |
| Inbound delivery | `app.js` 532-643, 1183-1267, 1467-1681, 3301-3318 | contacts, recentMessageMap, rows | announces, data packets, messages, reactions | check and act separated by awaits; one bubble per message, contacts neither lost nor revived |
| Announces, ratchets | `app.js` 65-86, 299-308, 1423-1465, 3658-3714; `js/identity.js` | lastAnnounceAt, lastPathResponseAt, ratchet and its ring | sendAnnounce, path responses, rotation | rate limit across an await, reload between rotation and save; what was announced can be decrypted |
| Propagation sync | `app.js` 2139-2430 | pnState, seen ids, request slot of a link | listing, fetch and acknowledge rounds | double start, purge of what was not ingested |
| NomadNet | `app.js` 2519-2760 | nnState, request slot of a link | navigate, request, response | two navigations in flight |
| Session | `app.js` 4996-5203 | radioOn, timers, rnode | connect, ready, stop, disconnect | an old interface's events in a new session |
| RNode, transports | `js/rnode.js`, `*-transport.js`, `rnsd-interface.js` | callback table, timers; connection, chunks of a write | commands, frames, connect, write, disconnect | responses matched by command only; writes that overlap or end half-way; the end of a connection is told once |
| Framing | `js/hdlc.js`, `js/kiss.js`, `js/nus-demux.js` | a partial frame | byte by byte | resynchronisation |
| Configuration client | `js/transport-config.js` | one pending request | call, response, timeout | a late response answers the next request |
| Firmware update | `js/dfu.js`, `js/transport-flasher-app.js` | sequence number | start, init, data, stop | acknowledgements are not matched |
| Bridges | `tools/ws_bridge.go`, `tools/ws_bridge_public/main.go`, `tools/ws_bridge.py` | connections, counters | accept, pump, tear down | two goroutines per connection |
| Codecs, cryptography | `js/reticulum.js`, `announce.js`, `lxmf.js`, `crypto.js`, ... | none | build, parse, pack, verify | fields at offsets that depend on flags, and reads that clamp: whole or not at all |
| Threads, badges | `app.js` 4160-4360 | contacts, lastReadId, activeContactHash, _activeView | select, render, back, switch view, remove, arrivals | renders that end late; only what was painted counts as read |
| Composer | `app.js` 2840-2978, 3436-3470 | stagedAttachment, replyingToMsg, the open conversation | stage, reply, send, recover a key | globals read after awaits; what goes out was meant for its recipient |
| Nodes store | `app.js` 680-800, `js/store.js` | nodes rows, newNodesSincePrune | announces, prune, rename, delete, clear | a prune decides on old rows; the store stays bounded |
| Panic wipe | `app.js` 5366-5410, `store.js` | timers, transport, database | wipe, and whatever still runs | handlers at work re-open what is deleted |
| User interface | `index.html`, `css/`, the rest of `app.js` | filters, dialogs, maps | | not modelled |

How they interact: a transport hands frames to `onPacket`, which dispatches on
the packet type to announces, data, link requests, link data and proofs. All
handlers share the maps of `app.js` and the store. A send asks for a path, then
either transmits one packet and waits for a proof, or opens a link and sends a
single link packet or a Resource over it. `_onDisconnect` empties the session's
maps under all of them; a reload ends every handler and keeps only the rows.

## 2. Plan

| step | module | composes / refines | runs | proofs |
|---|---|---|---|---|
| done | `Outbound` | implements `DeliveryContract` | outbound, delivery, outbound_budget, outbound_downgrade, outbound_reload | types, invariant, deletion, budget, refinement |
| done | `PathRequest` | a part of `MCRequests` | requests, path_request_joiner | types, invariants, joiners |
| done | `InitiatorLink` | extends `PathRequest`, implements its specification | initiator_link, initiator_link_lost | types, invariants, refinement |
| done | `Resource` | both ends over a lossy link, and the receiver slot of a link | delivery | types, integrity, single hand-over, sender, watchdog |
| done | `AlnRouter`, `Inbound`, `ResponderLink`, `Announcing`, `NomadNet`, `Session`, `Framing`, `Codec`, `Transports` | parts of `MCPackets` | packets, inbound_copies | router's queue, greetings and tables, stored messages and their counts, responder's keys, announced keys, pages, session's timers, framing, formats, lone frames, types |
| done | `PnSync`, `ConfigClient`, `RNodeCommands`, `Dfu`, `Bridge` | parts of `MCRequests` | requests | purges, flashes, callbacks and their timers, the bridge's caps, types |
| done | `Conversations`, `NodeStore`, `Composer`, `Wipe` | parts of `MCStorage` | storage | read marks, bound of the nodes store, composer, wipe |
| left | | | | every safety property that a run checks is proved; liveness stays with TLC (section 5) |

## 3. The modules

An action is the code between two awaits that touch shared state: one IndexedDB
transaction with the code that follows it, or one `sendPacket`. Packets,
hashes, keys and signatures are values: a packet is named by the message or link
it belongs to, a proof by the packet it answers.

### Outbound, DeliveryContract

`rows` is the message store, the only variable that survives `Reload`. A worker
is a caller of `doOutboundSend`: `sendMessage` for its own message, or a tick
with the rows its snapshot selected (`todo`). `pc` names the await at which the
worker is suspended: `mark` (3535), `transmit` (3543), `recheckSent` /
`recheckFailed` (3563, 3578), `settleSent` / `settleFailed` (3565, 3580). `num`
is the local `attemptNumber`, computed from the row as it was first read.
`compose` is how far `sendMessage` itself is: saved optimistically, building
(path request, signing, encryption), sending over a link, done. `proving` holds
the rows a `handleDeliveryProof` found in its snapshot and is about to write.
`timer` abstracts `nextRetryAt` to unset, in the future, passed. `overlapped` is a
history: the messages of which a transmission was made while a second worker had
the row in its snapshot or in hand.

`air` and `proofs` are sets: a packet once transmitted may arrive now, later,
repeatedly (a retransmission is the same bytes), or never, and so may its proof;
not arriving is loss. A radio that is off takes bytes and sends nothing; what
comes in is dispatched all the same, since `onPacket` asks for no flag.

`DeliveryContract` says what the user may be told: a message is submitted once,
shown confirmed only if the peer has it, may be abandoned and taken up again,
and once deleted stays deleted. It leaves out, on purpose, that a confirmation
is final: the code does not keep that (see the findings).

### PathRequest

All callers of `requestPath` for one destination. `entry` is the value of
`pendingPathRequests`: its `owner` made it (and holds its timer), `chain` is
everyone its `resolve` answers, since a caller that finds an entry wraps that
function. `timers` are the armed timers: those of overwritten entries stay armed.
`call` is where a caller is suspended, or its answer. `verifying` says that an
announce is between its arrival and `trackPath`; announces in flight together
are merged, which `TrackPath` allows for by leaving `verifying` free. A caller
whose `requestPath` throws or times out may call it again (`Leave`).

### InitiatorLink

Extends `PathRequest`: each caller goes on from the path request to open one
link of its own, named by the caller. `pend` and `patience` are the entries and
timers of `initiatorLinks`, `promise` what the caller will get, `links` the map
of usable links. A handler (`hpc`) of a link proof is suspended in the key
derivation of `validateProof` and in the LRRTT packet's encryption and sending,
which are one step here because nothing shared is looked at in between. A
corrupted proof stands for every one that `validateProof` refuses on its
content. A `sendPacket` that throws has not transmitted the link request.
`gone` is a history variable: links that were closed, or whose request was out
when the transport was lost.

### Resource

One resource, its sender, and the receivers that copies of its advertisement
start: `rx` are the `ResourceReceiver` objects, `slot` is `link._resource`. A
superseded receiver is aborted but keeps running: its `handlePart`s are suspended
in their hash (`hashing`), its `_assemble` in decryption and integrity check
(`asm = "check"`) or in the hash of the proof (`"prove"`), and none of them looks
at `done` again. `known` is the hashmap as far as the receiver has it, `out` the
set `outstanding`, `got` what it handed over. A part's number stands for its
slice and for its map hash. `wire` is a set: what was sent may arrive now, later,
repeatedly or never. A request is answered in the step that makes it, or lost:
`handleRequest` reads nothing but `done` (which only ever becomes true) and the
fixed parts, so that answering late is the same as answers that arrive late. A
resource that is too large, or of several segments, is refused at the start;
compression, progress display and collisions of map hashes are left out; so is
metadata, whose decoding could throw after the proof was sent, the proof and the
hand-over being one step here; and so is an empty update of the hashmap, which the sender here never sends.

### The parts of MCDelivery, MCPackets, MCRequests and MCStorage

These components are modelled one by one. What joins them in the program, a
packet on the transport or a row in the store, is an input or an output of each
model, so that they share no variables; these `MC` modules therefore let one
component move in a behaviour (`part` says which) while the others rest. That is
the disjoint union of their state spaces, not their product. `MCDelivery` does so
with `Outbound` and `Resource`, and gives each its fairness.

`AlnRouter` has one consumer (`pump`) of the node's console lines and frames and
any number of `sendPacket` calls (`send`). Both suspend at every hash and every
write and share the directory (`bound`), the link and reverse routes, the attached
node and the queue of packets without a route. `cached` is the latest announce,
`sent` which packet was written to which node, `lost` what was given up.

`Inbound` follows the copies of one peer's messages through `handleData`,
`handleLinkData`, `dispatchIncomingMessage` and `handleIncomingReaction`, each
copy in a handler of its own, together with announces that upsert the contact,
pins, the removal of the conversation and reloads. A transaction on a store
takes effect where it is created, and its handler goes on later.

`ResponderLink` is `handleLinkRequest` with copies of one request, each of which
makes an object with a fresh key, `handleLinkData` by context, closing and the
loss of the transport, with the peer that believes the first proof.

`Announcing` is `sendAnnounce` from its three callers with both rate limits, the
rotation into the ring, saves that are in flight in their order, and reloads.
`NomadNet` is navigation: the shared browse link, its one request slot, the
inline answer and the answer by Resource, the history. `Session` is `connect`,
`startRadio`, the two disconnects and the `_onDisconnect` events of older
interfaces that arrive when a newer one is in use; a WebSocket that is let go of
while it opens may open yet. `Framing` feeds four framings
(KISS, HDLC, the ALN node's, the bootloader's) byte by byte, one byte lost.

`Codec` builds a packet, an announce or a message byte by byte (a byte is the
field it is of and what the field was made of), cuts it short or changes it, and
parses what is left with the offsets and length checks of the code. `Transports`
is one BLE, serial or WebSocket connection with overlapping writes, each a frame
in chunks; `device` is what the other side received.

`PnSync` is `pnSyncNow` with its requests, timers and the node that purges what is
acknowledged. `ConfigClient` is `TransportClient` with one pending request under
several handlers of the page. `RNodeCommands` is the callback table and the timers
of `_sendAndWait`. `Dfu` is one flash after another over a line that damages
packets and delays acknowledgements. `Bridge` is the three bridge programs: two
pumps for a connection, each blocked on a read or a write, and the admission
counts of the public one.

`Conversations` is the open thread: `renderMessages` reads, suspends, paints and
marks read what it read, while the user opens, leaves and removes threads,
announces replace contact objects and messages arrive. `painted` is a history of
what was on the screen. `NodeStore` is the retention of announced nodes:
`pruneNodeStore` deletes by the rows it read, and spares the contacts it knew
then, while announces and renames write.
`Composer` is the composer's globals and the two handlers that use them after
their awaits; `moved` marks a call under which another conversation was opened.
`Wipe` is `runDestruct` with handlers at work and a `connect()`, by the user or by
the bridge poll, that may begin and open at any time: `late` holds the handlers
begun since the deletion was asked for, `unclosed` says that the wipe left a
transport open, with the radio off or by a disconnect that failed, or that one
opened since it began.

## 4. What is checked

| run | instance | shows |
|---|---|---|
| outbound | 1 row, 2 overlapping ticks beside sendMessage's own send, 2 attempts, the radio off and on again, 1 reload | `OverspentByOverlap`: only overlapping callers take a packet past its attempts; `DeletedStaysDeleted`; `KeepsContract`, the refinement of `DeliveryContract` |
| delivery | `Outbound` with 2 rows, 1 tick, 2 attempts, or `Resource` with 3 parts, 1 map hash per packet, windows 1 and 2, 1 retry, 2 receivers; fair | `DeliveredIsReal` and `TransmittedIsTracked` with two rows whose proofs could be confused; `RowsSettle`: every filled row comes to rest. `DeliveredIsSent`, also with a hashmap that a repeated update has shifted; `DeliveredOnce`; `SenderKnows`; `NeverUnwatched`, against "a single lost part left `outstanding` non-empty FOREVER" (resource.js 107); `ReceiverEnds` |
| initiator_link | 2 callers, 2 handlers, fair | `ResolvedIsUsable`, `LinkIsMutual`; `OpenSettles` |
| packets | nine components, each alone (below) | `BufferedInOnePlace`, `BufferedIsUnresolved`, `PeersGreeted`; `LinkProofMeansStored`, `CopiesCounted`; `ProofsAgree`; `AnnouncedIsKept`; `PageMatchesRequest`; `ReadyIsDriven`; `OneLossSpoilsOne`; `WholeOrNothing`; `AloneArrives`; types |
| requests | six components, each alone, fair; the public bridge also with both its caps reached | `EntryIsLive`, `OwnersAnswered`, `JoinersAnswered`; `PurgedWasTried`, `SyncEnds`; `CallsSettle`; `FlashIsWhole`; `BridgeEnds`; types, which include that a waiting RNode command has a timer and that the public bridge counts exactly the connections that hold a slot |
| storage | four components, each alone | `ReadMeansPainted`, `StoreBounded`, `SentFromHome`, `ResidueWasInFlight` |

Bounds of the core. Three map hashes in three packets make two updates of the
hashmap, so that the second can be met by a copy of the first; two windows show
growth and its loss after a stall; two receivers are one that is superseded and
its successor. `MaxHashing` lets each receiver hash one part at a time in the run,
any number in the theorems. Two rows are what a proof can confuse; workers on
different rows share nothing else. Two ticks plus the send of `sendMessage` are
three overlapping sends of one row; the theorems hold for any number. Two attempts
show the first, the repeated and the last one. `MaxSessions` and `MaxReloads`
bound how often the radio comes up and the page is reloaded: once each beyond the
first (in delivery not at all, since there every row must come to rest). Three callers are an owner, one that overwrites it and one that joins. Two
handlers are a proof and its copy.

Bounds of the parts.

* `AlnRouter`: 2 nodes, 2 sends of the seven packets and 2 arrivals of lines or
  frames, a queue and a reverse table of one entry, so that both are full and
  evict. `Links` is empty: the one link of the run also serves for one that a peer
  opens, since its request may arrive.
* `Inbound`: 3 copies of up to 2 messages and a reaction when the contact stays, 2
  copies when it is announced, pinned, removed and the page reloads; the map of
  recent messages holds one, so that it evicts.
* `ResponderLink`: 2 copies of the request, 2 handlers of link data.
* `Announcing`: 2 calls, a ring of depth 1, 2 rotations, 2 reloads: a key goes
  through the ring and out of it.
* `NomadNet`: 2 navigations, 2 nodes, 2 paths. `Session`: 3 interfaces, 2 presses
  each of Start and Disconnect: an event of the first can meet the third.
* `Framing`: 2 packets of 2 bytes, each byte any of the special ones, one lost.
  `Codec`: hashes of 2 bytes, keys of 2, every other field 1: enough for each
  field to be told from its neighbours at every cut. `Transports`: 3 writes of 4
  bytes in chunks of 2.
* `PathRequest`: 3 callers. `PnSync`: one sync of 2 messages in rounds of one, or
  two syncs of one message. `ConfigClient`: 2 handlers, 2 responses on the air.
  `RNodeCommands`: 2 calls of one command and 1 of another. `Dfu`: 2 chunks, 2
  attempts. `Bridge`: any of the three programs with 2 connections of one address;
  and the public one with 3 connections of two addresses that never get as far as the
  daemon, room for 2 in all and 1 of an address, so that both caps refuse.
* `Conversations`: one peer, 2 rows, 2 renders, one arrival and one announce
  together; no thread open stands for another thread, which a render of this one
  cannot tell apart. `NodeStore`: 3 nodes, one of them linked, room for one, a
  prune every second new row, 2 announces and 2 prunes under way, 3 announces in
  all. `Composer`: 2 conversations, one picked file, 2 sends. `Wipe`: 2 handlers.

Symmetric sets (ticks, mesh nodes, calls of one handler, unlinked nodes) are used
only in runs without liveness. Deadlock is not checked where the system may
really stop: radio sessions, arrivals and presses are bounded, and a component
with nothing more to do rests. It is checked for initiator_link.

Fairness. A suspended handler is resumed: the event loop runs it, IndexedDB and
the crypto answer, `sendPacket` returns or throws. A timer that is armed fires,
the retry interval fires while the radio is on, the clock passes a date. The stall
timer is set back by every part that arrives: that it fires assumes that no packet
is repeated for ever. In `MCRequests` each component has its own: the send and the
timer of each path request; the steps a sync takes by itself or by its timer
(`PnGoesOn`); a configuration request's send and timer (`CfgGoesOn`); a pump that
has something to read or a socket to see closed (`BridgeGoesOn`). Nothing else is
assumed of the user, the network, the peer, the propagation node, the device or
the other end of a bridge; the liveness properties hold whatever those do.
`RowsSettle` is stated for sessions in which the radio stays on, because the
interval runs only then.

Some properties name an exception, and each is one the code really has:
`SyncEnds` and `CallsSettle` a write that fails after its request was over, whose
catch then disarms the next request; `FlashIsWhole` an acknowledgement left over
from an earlier attempt, whose number the page does not look at;
`PageMatchesRequest` an answer over a link that is no longer the browse link;
`SentFromHome` a call under which another conversation was opened; `AloneArrives`
overlapping writes; `BridgeEnds` an end that holds the connection;
`AnnouncedIsKept` a reload before the rotated key was saved; `ResolvedIsUsable` a
link that was closed, or lost with the transport; `StoreBounded` rows that came
in past the count and a prune that failed; `OverspentByOverlap` a row that two
callers have at once. `ResidueWasInFlight` exempts handlers at work when the
deletion began, and a transport that is left open or opens later: the wipe
disconnects only with the radio on (5385), a disconnect may fail, and a
`connect()` in flight, or one that the bridge poll starts, goes on; "Stops
inbound traffic first" (5370) holds without these only. `CallsSettle`
says that a caller is answered, not that the answer is its own: a response that
comes after its timeout is taken for the next one's. `PurgedWasTried` counts a
message that could not be ingested as tried, as the code means to (2286).

Findings. Six runs end in a violation of what a comment says of the code:

* `outbound_downgrade`: "don't downgrade it back to SENT" (3562). The re-read and
  the write are two transactions; a proof that commits between them is
  overwritten.
* `outbound_budget`: retransmissions are "Bounded by MSG_MAX_ATTEMPTS" (3617), but
  the interval starts a tick while the earlier one still works. A call that read
  the row before another wrote its attempt sets the number back, and the packet
  goes out once more.
* `outbound_reload`: the row is filled to survive "a reload mid-transmission"
  (3099), but it shows sending, and no tick looks at sending rows.
* `path_request_joiner`: `requestPath` is to return false on timeout (1332), but
  the timer resolves only the caller that armed it.
* `initiator_link_lost`: links are to die with the transport (5052), but a proof
  handler suspended meanwhile lists its link afterwards.
* `inbound_copies`: "Persisted rows already contain only one copy" (1473), but a
  message is looked up in the map of recent ones at 1546 and entered at 1660,
  several awaits later, so that copies that arrive together get a row each.

Each property has a mutant in `PROJECT.json`: a definition changed the way a bug
would change it, which breaks the property under the run's own configuration.
Their operators stand next to the ones they replace (`...Unproved`, `...Untimed`
and so on).

## 5. What is proved

For every value of the constants, from the named assumptions of the modules, which
TLC evaluates in the runs. They only say that bounds are numbers (of a resource,
positive ones, with the initial window not above the largest; depths and capacities
of rings and tables, the size of a hash and of a chunk positive), that the "nobody"
values are not somebody (`NoNav \notin Navs`, `NoLink \notin Requests` and the like),
that requests and syncs are named by numbers, what the kinds of a router's packets are,
and, of the nodes store, that there are finitely many nodes, since its bound is a cardinality.

* `OutboundProofs`. `DeliveredIsReal` is not inductive: a proof handler writes
  what it found before. `IInv` adds that proofs, and handlers about to record
  one, exist only for messages the peer has; that a message not yet submitted has
  no trace, so that its row cannot inherit one; and that a worker's row has its
  packet or is deleted, so that a retransmission is tracked. Each step keeps it,
  one proof step per action; `UpdateInv` is the part common to all writers.
  `DeletedCorrect` follows since only `SaveRow` makes a row. `ImplementsContract`
  maps each step to one of the contract or a stutter: `RowStepContract` covers
  any change of one row, given that "delivered" is written only with the peer's
  having the message, which `IInv` provides.
* `OutboundProofs`, the budget. Overlapping callers of `doOutboundSend` can take a
  row past its attempts (`outbound_budget`); `BudgetCorrect` says that nothing else
  can: a packet that went out more than `MAX_ATTEMPTS` times was once transmitted
  while a second caller had its row. In `BudgetInv`, a row of which that never
  happened is covered (`LoneCovered`): its count is at least what was transmitted
  of it, and whoever has it in hand, or is about to transmit it, has an attempt left
  and knows the transmissions before. `Unsent`: a message that `sendMessage` has not
  handed over has no count; `HandedOnce`: a caller's snapshot no longer has the row
  it works on. It holds for any number of ticks, sessions and reloads.
* `PathRequestProofs`. `EntryIsLive` and `TimersAwaited` are inductive together:
  an answer removes the entry and its timer at once, and an overwritten owner
  keeps its own timer but is in no chain. `JoinersAnswered` follows, as the only
  step that answers "true" to an owner is `TrackPath` (the owner is waiting, so
  it cannot be starting a call).
* `InitiatorLinkProofs`. `KeepsPathSpec`: the composition implements
  `PathRequest`, so the theorems above hold of it. `LinkInv` strengthens
  `ResolvedIsUsable`: a link a handler works on, and one that was handed out, is
  one the responder has; a caller that has not asked has no entry.

* `ResourceProofs`. `RxInv` is what holds of each receiver alone: only hashes of
  missing parts are outstanding (`OutMissing`), so that a full receiver awaits
  nothing and no late part can start a second assembly; a receiver that assembles
  is full and has handed over nothing, and past the integrity check its parts are
  those sent; a started one that is not done is armed or assembling. Lemmas show
  that each operation on a receiver keeps this (`PlacedInv`: a part in its place;
  `IngestInv`: the hashmap goes on; `AssemblyInv`), `Changes` lifts them to the
  system, and `NextInv` goes through the actions. `ProofInv` adds that a proof is
  on the wire only after a hand-over, from which `SenderCorrect` follows.

* `StorageProofs`. `SentFromHome` is a history, so `HomeInv` says what makes the
  next entry right: a call suspended in reading a file or asking for a key, and a
  staged file, know the open conversation unless they were marked as left
  (`PicksAtHome`, `StagedAtHome`, `SendsAtHome`). `MovesLeaves` shows that opening
  another conversation marks them all, `RowWrittenHome` that a row written from
  such a call is at home. For the wipe, `Silenced` says that nothing is delivered
  once the transport was closed, unless another opened since, and that no timer sets
  out once `radioOn` is cleared, from which `LateUnclosed` follows.
* `StorageProofs`, the open thread. `ReadMeansPainted` speaks of the marks in memory
  and on disk, but an announce writes back a contact, with its mark, that it read
  before its signature was checked, and a render marks what it read before it was
  suspended. `ConvInv` therefore says of every mark, also of those an announce holds,
  that nothing below it is unpainted (`MarkFits`), and of every render that it knows
  all the incoming rows of its thread up to the newest it read (`RenderFits`), which
  holds since a row that comes later has a higher id. One lemma for each group of
  handlers (`RenderPaintsWell`, `ContactStepsWell`, `AnnounceStepsWell`, ...).
* `StorageProofs`, the nodes store. `StoreBounded` is about moments without a prune,
  and says nothing of the rows in between. `NodesInv`: the rows that did not come in
  past the count are within the bound plus the counted ones (`Within`), or a prune
  under way read all of them but the counted ones (`Knows`), so that what it is about
  to delete is enough. `PruneLeaves` shows that of the rows it read no more than the
  bound stay, since all that are older than the oldest one to stay are deleted (lemma
  `Smallest`, by well-foundedness of < on the numbers); `RestShrinks` is the part
  common to the steps that bring nothing, or only a counted row, into the sum.
* `PacketsProofs`. `ProofsAgree` is inductive with the types: `StoreFirst` keeps
  the first object, and before it there is no proof. `ReadyIsDriven` is inductive
  too; `AnswersDriven` is the part common to the steps that may set `radioOn`.
* `PacketsProofs`, incoming messages. `LinkProofMeansStored` needs what a handler
  relies on when it comes back from an await: the row it saved, and each entry of the
  map of recent messages, is a row of its own text, and that text was stored
  (`HandlerStored`, `EntryStored`). Rows are only ever added (`RowsOnlyGrow`), so that
  these facts outlive other handlers' steps, a removal and a reload.
* `PacketsProofs`, announces. A ring exists in memory, on disk and in every save in
  flight. `RingFits` says of each that it has every key up to its newest, except those
  that a full ring dropped and those a reload cut off; `SavesFit` orders the saves by
  their keys and gives each call at most one. A key that a full ring dropped has
  more than `RingDepth` newer ones (`DroppedIsRetired`, by counting the ring).
* `PacketsProofs`, pages. `PageMatchesRequest` is an action property: `PageThen` is
  proved of each step from `NnInv`, by which a navigation that holds a link is for the
  node of the one that opened it, the browse link goes to the node that is shown as
  browsed, and an answer is to a request that was sent.
* `PacketsProofs`, transports. Only a BLE write can be under way; what one that no
  other overlapped has got out is the end of what the device received (`OutAtEnd`),
  so that its last chunk completes a frame between two FENDs (`FrameAtEnd`), and what
  is appended later leaves it received (`ReceivedStays`).
* `RequestsProofs`, the sync. `HandledWasTried`: whatever a call has seen,
  acknowledges or will acknowledge, and what local storage has, was tried. It is
  carried through every round, and through a call that ends while others go on.
* `RequestsProofs`, the flash. `DfuInv` says that page and bootloader are in step
  as long as the attempt took no foreign acknowledgement: at most one packet of the
  attempt is out, behind all others on the line (`OneOut`); what was written ends with
  the stage or the one before (`InStep`); an acknowledgement of the attempt means that
  everything up to the stage is written (`AckedIsWritten`). After success what is left
  on the line begins no new flash (`FlashStays`).
* `WireProofs`, the router. `AlnShape` is the types with what the consumer holds at each of
  its suspensions. `GreetInv`: no binding names the attached node; whoever serves a
  peer is noted as told, and who is noted was sent the latest announce, or its write
  is to come. `WaitInv`: while no drain is due, no queued packet has a binding, and
  none that a drain has passed gets one without another drain becoming due. `PlaceInv`:
  a buffered packet is in the queue, kept by the drain, in its hands, on its list,
  written to one node or lost, and in one of these once, from which the sum of
  `BufferedInOnePlace` is computed with the cardinalities of singletons. Lemmas on
  sequences (`SplitAt`, `SplitSets`) say what taking an element out of the queue leaves.
* `WireProofs`, the router's tables. `BackInv` adds to `AlnShape` what the table of
  reverse routes holds. What is filtered out of it is written as the recursive function
  `Without`, not with `SelectSeq`, so that it can be reasoned about.
* `WireProofs`, induction. The library's induction theorems take an operator, which no
  prover here can instantiate. `Induction` gets what is needed from the least number
  for which a claim would fail; `RecursionDefines` says that a recursive function on
  0..n obeys its equation and `RecursionTyped` that its values keep a type.
* `WireProofs`, framing. `FramingInv` says where in the stream the parser is
  (`StreamPlace`): between two packets, at the opening of one, behind its first j bytes,
  or in the middle of an escape, with what it has collected and with the rest of the
  stream still to come; and once a byte is missing, within the packet that it broke, or
  behind one whose closing flag it was. In each place what was handed over is what was
  sent so far, less or with another in the place of the broken one. A lemma for each
  kind of byte says to which place it leads.
* `PacketsProofs`, the counts. `CountInv`, as long as nothing is removed: all rows are
  live (`AllLive`), a text has at most one entry in the map of recent messages, with the
  count of its row (`EntriesCount`), a row that was just saved counts one and is neither
  another handler's nor yet in the map (`SavedAlone`), and the rows of a text show as
  many copies as were let through (`AllCounted`). The last is a cardinality of pairs, so
  that a new row or a higher count adds one pair.
* `PacketsProofs`, formats. `CodecInv` says that the bytes are those built, a beginning of
  them, or an announce with its ratchet flag flipped. The lemmas compute what the parser
  finds at each offset of a concatenation of which the end is missing: a message cut
  short does not unpack, and an announce that was cut or flipped does not verify, since a
  signature is for one content and what is read differs from it.
* `PacketsProofs` and `RequestsProofs`, types. Every component's type invariant is
  proved of its own specification, and those of the compositions `MCPackets` and
  `MCRequests` from them, part by part (`PartSteps`, `StepKeeps`). Several need more than
  types: a callback belongs to its call's command and a waiting call has its timer
  (`RnInv`), a calling handler still has its request (`CfgInv`), and the bridge counts
  exactly the connections that hold a slot and keeps to its caps (`CountsRight`).

Only model-checked: all liveness (`RowsSettle`, `OwnersAnswered`, `OpenSettles`,
`ReceiverEnds`, `SyncEnds`, `CallsSettle`, `BridgeEnds`), since the proof system at hand
treats neither fairness nor `ENABLED`.

Several strengthenings (`IInv` of the core, `TimersAwaited`, `AwaitedIsTimed` and the
invariants named above) are only proved: the runs check what they imply.

## 6. Not modelled, and abstractions

* IndexedDB failures, except that `sendMessage`'s catch stands for any failure
  before the packet is sent, and that a prune may fail to read or delete.
* Times: backoff and patience are "armed" and "over". The order in which a tick
  takes the rows of its snapshot is arbitrary. Rate limits are "recent" or not.
* Each outgoing message is in a conversation of its own (`Outbound`); one peer
  in `Inbound` and, in the run, in `Conversations`.
* The id of a stamped message is taken over a re-encoding of its first four
  elements. `Codec` has a second encoding of the payload that only a foreign
  sender uses, with which that id differs from the sender's, and claims the
  agreement for messages without a stamp only.
* Key agreement, AES and HMAC are values, and so is what is signed; `tests/*.mjs`
  covers them. `known-destinations.js`, the import and export of contact cards,
  QR codes and backups are left out.
* Of the browser of NomadNet pages, the Micron renderer (pure). Of the session,
  the bridge poll and the watch on a radio's battery. Of the RNode, the
  statistics it reports and the order of its configuration commands. Of the
  firmware update, reading the zip and opening the port.
* A `ResourceSender` has no watchdog, and the sender of a single link packet
  learns nothing of its delivery: the code offers no progress there, so no
  property claims any.
* Of the screens, layout, filters, labels, maps and dialogs.
* Third-party libraries (`lib/`), and the responder script in `tools/`.
