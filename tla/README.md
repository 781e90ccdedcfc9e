# kyneta exchange: a TLA+ verification project

This directory holds TLA+ models of the part of kyneta that has to be right
when processes crash, stores fail, peers come and go and several processes share
one storage: the `@kyneta/exchange` package and the transports under it. TLC
checks the models on small instances, TLAPS proves theorems for every value of
the constants.

    tlc -workers 2 -config Persistence.cfg MCScenariosPersistence
    tlapm SyncProofs.tla

Paths without a directory are in `src/packages/exchange/src/`.

## The system

An application holds documents. A `Runtime` loads, stores and closes them; an
`Exchange` is a `Runtime` plus a `Synchronizer` that keeps documents in step
with other peers over transports. Decisions are pure programs
(`(input, model) -> (model, effects)`), executed by shells: the store program
and the lifecycle program by `runtime.ts`, the session program and the sync
program by `synchronizer.ts`. A dispatcher queues what a program's effects
trigger, so that one input and all it causes run to the end before the next;
between two inputs anything may happen: a store call ends, a timer fires, a
message arrives, the application writes.

| component | state it keeps | operations | hard behaviour | what makes it correct |
|---|---|---|---|---|
| store program (`store/store-program.ts`) | a phase per document: unwritten, idle at a version, writing with what it owes; terminal when the seat is lost | register, hydrated, state-advanced, compact, write-succeeded, write-failed, release, forget, seat-lost | requests during a write; failed writes that were applied; a release decided while a write settles | one write at a time; nothing owed is forgotten; nothing is released before it is stored |
| store executor (`runtime.ts`) | the retry timer, the drain's dirty set, `ownHigh` per document | load, append, compact, delete, retry, drain, `publishable` | effects run between awaits; the replica moves on under them | no own operation leaves before it is stored; what is confirmed is stored |
| serial store (`store/serial-store.ts`) | one promise chain per document | every store call | calls of two instances in one queue | order of calls is order of effects |
| stored entries (`stored-entries.ts`) | none | take a stream into a replica | entries that cannot be taken in | the version reported is of what was taken in |
| storage and seats (`store/store.ts`, `store/seats.ts`) | records with marks, the seat pool with fences | append, loadAll, currentMark, compact, delete, allocate | several processes; a dead run's write; a lock lost by a live process | no record is lost; a claimed seat has one writer |
| publish gate (`publish-gate.ts`) | none | `gateOpen` | what may leave the process | shut exactly while own writes are unconfirmed |
| lifecycle program (`lifecycle-program.ts`) | a stage per document and generation | get, open, replicate, unload, destroy, suspend, resume, close | stale loads, hooks that call back, released against reopened | one instance per document; an unload loses nothing |
| session program (`session-program.ts`) | channels and peers | channel added, establish, depart, removed, timers | two channels to one peer, reconnection, depart against drop | session, timers, sync program and feed tell the same story |
| sync program (`sync-program.ts`), synchronizer (`synchronizer.ts`) | documents, what each peer is known to hold, offers owed | present, interest, offer, accept, refuse, dismiss, vacant | lost messages and state, offers held by the gate, unloads, resets | what is recorded of a peer is true; no advance is forgotten; peers converge |
| line (`line.ts`) | an outbox and an inbox document | send, receive, acknowledge, prune | sequence numbers over restarts | each message once, in order |
| undo (`undo/`) | the open step, the undo document | record, undo, redo | a crash between note and apply | a step is undone as far as it still stands, or not at all if `whole` is asked; none is applied twice |
| terms, settling, observation, capabilities, governance | feeds per document; registries | feeds; gates | a term that never reports | readers settle when, and only when, they may |
| transport core (`packages/transport`), wire (`exchange/wire`) | alias tables, reassembler, frame parser | send, receive | fragments lost or duplicated, aliases before they are announced | a message arrives as it was sent or not at all |
| transports (websocket, sse, unix-socket, webrtc, bridge) | a connection state machine each | connect, ready, drop, reconnect, stop | a late event of an earlier attempt | a channel exists exactly while the connection does |
| stores (leveldb, indexeddb, sqlite, postgres, prisma) | the storage | the `Store` interface | transactions of each database | the interface's promises |
| machine (`packages/machine`) | dispatcher queue, lease | dispatch | reentrant dispatch | run to completion |
| schema, its substrates and backends | documents, versions, merges | CRDT algebra | merging and versions | versions order what is held |
| changefeed, index, zset, datalog, perspective, reactive, react, devtools, random | derived data | incremental views | glitches | view = recomputation |

`PROJECT.json` lists every component with what is and is not modelled, and every
hazard with the properties that would catch it.

## Modules

| module | models | used by |
|---|---|---|
| `StoreProgram` | the store program on the phase of one document, one operator per input, returning the next phase and the effects | `Persistence` |
| `Persistence` | that document in its process: executor, drain, gate, serial queue, lifecycle, seat, storage | `MCScenariosPersistence`, proofs |
| `PersistenceProofs` | type correctness, store-first, the phase, addresses, unloads, reports and the stored stream, from two inductive invariants | |
| `SessionProgram` | the session program, one operator per input | `Session` |
| `Session` | two Exchanges' session halves, their transports' channels, the timers, the sync program's record of peers, the feed | `MCSession`, `MCScenariosSession`, proofs |
| `SessionProofs` | type correctness, the session invariant, and freshness where connections do not overlap | |
| `SyncProgram` | the sync program for one document, one operator per input, returning model, offers and messages | `Sync` |
| `Sync` | N peers with the document: shell, gate, links, stores, faults | `MCSync`, `MCScenarios`, proofs |
| `SyncProofs` | what a handler may answer; the inductive invariant of Sync and seven theorems from it | |
| `PushProofs` | no advance is forgotten and a push leaves no hole, from an inductive invariant of what is under way | |
| `LifecycleProgram` | the lifecycle program on the model of one document, one operator per input | `Lifecycle` |
| `Lifecycle` | that document from its doors to the sync graph and the store, with the call stack that callbacks nest on | `MCLifecycle`, proofs |
| `LifecycleProofs` | the live objects of the document are sound between any two effects, from an inductive invariant of the call stack | |
| `BeliefProofs` | what is believed stored is stored, from a second invariant of the call stack, the store program's queue and the store calls | |
| `Stream` | what a `Line` promises, with no documents | `Line` |
| `Line` | two stored peers, an outbox and an inbox each; implements `Stream` | `MCLine`, proofs |
| `LineProofs` | the inductive invariant of the Line; its types, pruning, and that it implements `Stream` | |
| `ClientProgram` | the connection program of the websocket client | `Connection` |
| `Connection` | that client with its shell, the server's connections, the pipelines at both ends | `MCConnection`, proofs |
| `ConnectionProofs` | the shell follows its program, stopping is final, nothing is misread, who is served | |
| `Undo` | the undo program, its shell and the undo of plain documents | `MCUndo` |
| `MC...` | instances for TLC; `MCScenarios...` and `MCUndo` hold several settings, of which a behaviour keeps one | the runs |

Operators named as the faulty variant of another (`OnInterestCursor`,
`GateOpenUnstored`, ...) stand beside the definition they break. Nothing uses
them; each is a plausible bug, and for each property there is one that TLC
catches by it.

### Persistence

One stored document with concurrent writers (Yjs, Loro) in one process. An
operation is a record of its writer, position and run; a version is the set of
operations held. `phase` is the store program's; `calls` is `serialStore`'s
queue, whose head call is executed by the actions `CompactionRead`,
`WriteDone`, `WriteFault`, `WriterRead`, `Loaded`, `LoadFault`, `DeleteDone`,
... one per point where the code awaits; `dirty` and `ownHigh` are the drain's
and the gate's. `storage` holds the records with their marks and the seat's
fence. `Crash` throws the memory away, keeps the storage and leaves at most one
call of the dead run under way, which arrives later, if its fence still holds
(`GhostArrives`). Other processes: `RivalWrites` is one that claimed the same
seat, `OtherSeatAppends` and `OtherSeatCompacts` are other seats of the storage.

Simplifications. A destroyed document's id is not used for the same content
again (`TECHNICAL.md:1317`), so `published` starts anew with `Destroy`. Writes
made before the seat's identity is adopted carry a temporary identity
(`TECHNICAL.md:753`). The `leaving` stage is not told apart from `unloaded`.
`Get` is the `get` door with intent to create. At most one delete is queued at a
time; another seat's delete does not happen. A delta whose base was trimmed is
sent whole by the code and as a delta here, which adds the same records.

### Session

Two peers and a set of channels, each used once. An end of a channel is unused,
open or closed; `wire` holds establish and depart messages to it. A peer is up,
stopping (departs said, flushing), closing (programs rebuilt, transports
stopping) or down, and a new run may follow. `feed` is folded change by change
from what the session emits, as a reader of the feed would; `tracked` and
`heard` are what the sync program was told. `Overlaps` lets a peer open a channel
while an earlier one is not yet noticed closed at the other end.

`shutdown()` announces every peer's departure and then stops the transports; a
channel that establishes in between stays in the feed of a peer that is going
away. The model has these behaviours and no property excludes them.

### Sync

One document on N peers, each a writer. A version counts each writer's
operations: `[Peer -> Nat]`. `SyncProgram` is pure, as the program is: a
handler returns the model, the offers the shell is to export and the messages
to send. A step of `Sync` is one input with everything the dispatcher runs
before the next: the program's reply, the exports the gate lets through, the
report `offers-sent`, and the classification of the version an interest or an
offer states.

A link stands for what `Session` establishes: each end is off, opening, on or
broken (dead and not noticed); what is under way is a sequence led by establish.
`Drop` loses what is under way; each end notices by itself; a reconnection waits
for both, since what happens otherwise is the finding of `session_stale_belief`.
`Stored` is all the rest of Persistence: at any moment the store confirms what
is in memory, and until then the gate is shut for the peer's own writes
(`GateOpen`). `Merged` is the backend: a payload that connects to what is held is
taken in whole; otherwise any subset of its writers that connects may be, which
covers backends that keep what does not connect aside and those that drop it.
`Resolve` says what the application may answer to an announced document.

Left out: several documents (they share only the link), replicate mode,
serialized and history-free documents, lineages, resets, trimmed history (so
compaction resets cannot arise), mismatched metadata, events of the feeds.

### Lifecycle

One document, from its doors (`get`, `open`, `replicate`, `unload`, `destroy`,
`suspend`, `resume`, `reset`) to the sync graph and the store. `Runtime.#step` is not queued: a
door called by a callback runs at once, on the committed model, and the outer
transition goes on afterwards with the effects it has left. The dispatchers of
the store program and the Synchronizer are queued: what is sent to them while
they drain waits. `stack` is that call stack, innermost frame first; store
calls end and peers ask only when it is empty. `CallsBack` names the hooks in
which the application calls a door: `notify`, `events`, `persisted`, `leaving`,
`close`; `Stores` says whether documents are stored, `Serves` whether peers'
asks load a document.

`ResumesEarly` and `UnloadsAgain` admit two uses the checks keep out by default.
With `ResumesEarly` a suspended document may be resumed from a hook before the
Synchronizer has it: `resumeDocument` throws after the commit
(`synchronizer.ts:1196`), which `TECHNICAL.md:1208` rules out. `UnloadsAgain`
is the finding `lifecycle_stale_release`. With `close` in `CallsBack`, a door
called by a hook of the document's disposal registers a document the outer
transition then goes on to remove (`runtime.ts:1484`, `TECHNICAL.md:1252`).

### Line

A `Line` between two stored peers: each writes an outbox document, of which the
other holds a copy, its inbox. An outbox carries messages with sequence
numbers and the acknowledgement of what its writer queued from its inbox.
Documents load, are stored and deleted each by itself; the sync layer carries
an outbox at any time, possibly losing what it carried, and only once it is stored. A peer
stops and starts; `destroy` begins a new lineage. `Stream` is the promise: each
lineage is one stream, given in the order written with no hole, and repeated
only to a peer that started anew. `StreamSpec` is `Stream`'s specification under
the mapping that reads what was written and given off the two documents and
their histories.

What the model shows beside its properties: an acknowledgement and the inbox
are stored separately, so a receiver's restart may deliver again what it
delivered before; `close()` before the outbox has loaded drops what was sent
without a word; leaving a `for await` drops messages already acknowledged;
a second claim of a receiver does not throw. A peer that keeps nothing, and handles
sharing one `Line`, are not modelled.

### Connection

One websocket client and its server. `ClientProgram` is the program;
`Connection` adds the shell's socket, channel, keepalive and retry timer, the
server's connections and both pipelines: aliases of documents, sequence
numbers, fragments with their timeout. A socket carries frames in order until
it fails; each end learns of the failure by itself, so a late event of an
earlier socket is always possible. The client keeps one pipeline over all its
sockets, the server has one per socket. `Named` says whether the
application passes the server the client's peer id.

The run has `Named = FALSE`, the default: the server makes a random id for every socket, so
a close finds only its own connection. No property of it is stated, since there it
holds by the keys alone. With `Named = TRUE` the code loses a client that reconnects: the
client's end of a socket fails, it opens another, `handleConnection` replaces
the connection registered under the id and registers the new one, and then the
close event of the first socket unregisters the second (`server-transport.ts:326`),
whose client stays ready on an open socket that nobody reads. `websocket/TECHNICAL.md:157` flags,
of stable ids, the loop of closes and reconnects as not handled. The theorems of `ConnectionProofs` hold for both.

The run has one document, so an alias used where the reader has another document for
it is reached only as an alias unknown; for several documents `NothingMisread` rests on its
theorem. It exempts a connection on which the collector gave up a partial message,
because the announcement in it is lost; `HalvesMatch` makes no exception: the second half that
arrives after such a timeout begins a batch which nothing will complete.

A message whose fragments time out is lost until the next reconnect; a `present` too large to send
advances the alias state all the same. Draining before a deploy, restarting a stopped client (whose pipeline
stays disposed), transports that throw on construction, limits of the
fragment collector and its eviction, which frames in order never reach, are not
modelled.

### Undo

An undo stack over plain documents. A document is its log of batches; the
stack is itself a stored document; each is stored by itself and the process may
end between any two steps. A step goes through begin, plan, note, apply, move;
`recover` decides after a crash from the noted positions. The footprint of a
plain document is the whole of it: two steps overlap when they have a document
in common. Edits of followed documents are heard at once, the commits of a
gesture in one document are one batch, and destroyed documents are not created again.

What the model shows beside its properties. When the stack is stored ahead of a
document it names and the process ends, the document's head is given again and
the stale record stands (against `plain-revertible.ts:4`). A gesture between a
step's begin and its plan lets it be taken from under a newer one that
overlaps it (`TECHNICAL.md:1593`). `noted` is dispatched also when storing the
note failed. The finding `undo_twice` also arises when the gesture comes after
the decision and before the move is stored.

## Runs

| run | instance | distinct states | what it shows |
|---|---|---|---|
| `persistence` | five settings: `crash`, 1 own write per run, 1 crash, 1 fault, 2 instances, a rival on the seat; `demand`, destroyed or reset and registered again; `retry`, demands among failing writes; `compaction`, 1 own and 1 foreign operation, strays, other seats writing up to mark 4; `progress`, 2 own writes, 2 faults, fair | 586 k | `StoreFirst`: what left is stored; `NoAddressReuse`: no address issued twice among what was stored or sent; `PhaseIsTrue`: one write at a time, and when nothing is pending everything is stored; `ConfirmedIsStored`: the version taken as confirmed is in the store; `StoreFirstInv`, the inductive invariant of the proof; `UnloadLosesNothing`; `ReportsAreOurs`: no instance takes the report of another; `NothingStoredIsLost`: only a delete removes content; `SettlesInTheEnd`: the gate reopens and an unload ends |
| `session_scenarios` | 2 channels, 2 runs; `progress`, fair, no overlap; `overlap`, with a refusing policy | 132 k | `SessionInv`: session, links, timers, sync program and feed agree; `FreshUnlessOverlapping`: what is believed dates from the peer's present run; `AgreesInTheEnd`: handshakes end, a peer that is gone is forgotten |
| `session_stale_belief` | overlapping connections | violation | `FreshPeer` fails |
| `sync_flaky` | 2 peers, 1 write each, from a start where one of drop, crash, leave and depart is left of each pair (two faults), or a quiet one (three) | 710 k | `RecordsAreTrue`: cursors and records of the other are true; `KnownIsStored`: nothing is known that its author's crash could take back; `OwedOnlyWhileHeld`: nothing stays owed that may be sent; `OwedOrCurrent`, `BaselineArrives`: no advance is forgotten, no push leaves a hole; `SyncedHasArrived` |
| `sync_scenarios` | four settings: `leaving`, a vetoes b's operations and serves what is not loaded, documents suspend, unload and are destroyed; `policy`, b hides the document from a, one of each fault; `relay`, 3 peers in a line, the outer two writing, 1 drop; `progress`, b defers or rejects first, 1 write, 1 drop, 1 crash, fair | 212 k | `PushesArrive`, `RefusedIsSentNothing`, `OnlySharersHear`; `ConvergesInSilence`: the peers converge and fall silent |
| `lifecycle` | 4 requests, 1 fault, four hooks calling back, stored or not | 196 k | `InstancesSound`: a live instance has a replica of its own, and a closed one is unwired; `AgreeAtRest`: lifecycle, store program and sync graph tell the same story when nothing runs; `BelievedIsStored`; `UnloadLosesNothing`; `AnswersStand`: an answer given is not taken back; `EverythingSettles` |
| `lifecycle_stale_release` | 5 requests, `UnloadsAgain` | violation | `UnloadLosesNothing` fails |
| `line` | 3 messages and 1 back, 1 restart, split over three starts | 485 k | `LineTypeOK`; `PrunedIsGiven`: what is pruned was given; `StreamSpec`: the refinement; `Drains`: what is sent is given in the end |
| `line_restart` | 1 restart | violation | `NothingLost` fails |
| `connection` | 1 document, 3 sockets, 2 attempts in a row, 3 messages and 1 failing socket or 1 and 2, 1 timeout of a fragment | 313 k | `ShellFollows`: socket, channel, keepalive and timer are those of the program's state; `NothingMisread`: a message is read as the one sent or not at all; `HalvesMatch`: halves of two messages never meet, whatever timed out; `StopIsFinal`; `Reconnects` |
| `undo` | 2 documents, depth 2; settings `crash` (2 writes, 2 requests, 1 crash, 1 fault), `leave` (1 leave, 1 fault), `both` (1 request, 1 of each), `gestures` (3 writes, 2 requests); symmetric in the documents | 849 k | `StackSound`: a step is listed once, and a note is written exactly while a revert waits for it or is to be recovered; `NeverTwiceUnlessCrossed`: no step is applied twice unless its document was written while its revert was in flight or a crash left the stack naming heads not stored; `StrictStack`: as long as all writes go through the stack, every step still stands when its turn comes |
| `undo_twice` | as `crash`, without faults | violation | `NeverTwiceOnceNoted` fails |

`OwedOrCurrent` and `BaselineArrives` are to be read together: the first says
that what a peer will have, by our record, is all we have, or something is owed
or on its way; the second that the record comes true. When nothing is under way
or owed, a peer therefore has what we have.

Bounds. Each hazard needs few actors and few operations, but a fault at each
place: one write held back, one lost, one concurrent with it; one crash between
any two steps; a fault for the write and one for its retry. A setting spends the
bounds where its hazard is: instances that have everything at once hold no new
hazard and are out of reach. The two-peer instances have both directions; the
line of three has the smallest relay. The quiet states some starts use are ones
the full model reaches (TLC finds them when told that it cannot). Where the theorems below
hold, no bound matters. Deadlock is not checked: with the bounds spent and everything
said, the systems rightly stop.

Fairness. Persistence: the drain's microtask, the end of a turn, a set timer and
a pending store call come. Session: a transport gets round to its channels,
timers fire, a shutdown runs on; nothing is assumed of opening channels. Sync:
stores confirm, started unloads end, links of two peers that are not connected
are retried, and what is on a live link arrives. Lifecycle: what runs goes on,
and calls made are answered. Line: documents that can be stored, loaded or
carried are. Connection: client and server go on with what they received or set a timer
for. Writes, faults, loads, requests and departures are never assumed to happen.

## Findings

Four places where the code and the documentation say different things; each is
a run in which TLC finds the violation.

- `session_stale_belief`: a channel established while the peer still has
  another is an additional channel, and the sync program hears nothing, also when
  the peer restarted in between. The documentation says that a reconnecting
  peer's holding is forgotten because it may have restarted, and counts
  the overlapping reconnect among the cases supported. The same branch leaves
  `departing` as it was.
- `lifecycle_stale_release`: a release is taken by whatever unload of the same
  generation stands when it arrives. A callback of the confirmation before it that gets the
  document, writes to it and unloads it again has its write closed over.
- `line_restart`: a message is acknowledged when it is queued for the iterator,
  not when it is read; a receiver that stops in between has lost it.
- `undo_twice`: `recover` takes a document for reverted when its head has passed
  the noted position; a gesture that wrote it while the note was being stored
  passes it too, and a redo then applies the step a second time.

Two branches the session proof shows can be removed: a depart received from a
peer without channels, and clearing `departing` on reconnection; in both cases
the state they provide for does not occur (`LinksMatchChannels`).

## Proofs

For every value of the constants, so for any number of writes, faults, crashes,
instances, channels, sockets and peers:

- `PersistenceProofs!TypeCorrect`, `SessionProofs!TypeCorrect`: type correctness,
  one lemma per action, on lemmas about what each handler returns.
- `PersistenceProofs!StoreFirstCorrect`: `Spec => []StoreFirst`: no own operation
  leaves the process before the store holds it. `StoreFirst` alone is not
  inductive: the gate relies on `ownHigh`, which relies on the confirmed
  version, which relies on the call that was queued, on what that call read,
  and on the fence. The invariant `StoreFirstInv` says these together:
  `ConfirmedIsStored` (what is confirmed is stored, while the seat is held),
  `QueueOK` and `DeleteOK` (what each queued call will confirm), `GateOK` (an own
  operation not stored is dirty or at or below `ownHigh`), `TrackedOK` (which
  lifecycle stages go with which phases) and `SeatOK`. The argument goes by
  the growth of the stored records (`Grows`): everything but a delete, the
  append of a lost seat and a crash leaves the records a superset. The run
  `persistence` checks the same invariant.
- `PersistenceProofs!ConfirmedCorrect`: a delta is never computed from a version
  the store does not hold.
- `PersistenceProofs`: `PhaseCorrect`, `AddressCorrect`, `UnloadCorrect`, `ReportsCorrect` and
  `NothingLostCorrect`, on top of `StoreFirstInv` and of a second inductive
  invariant, `WritesInv`, described below.
- `SessionProofs!SessionCorrect`: `Spec => []SessionInv`. The invariant proved is
  `TypeOK`, `SessionInv` and that a channel not yet added at an end is not in
  its session; each handler has a lemma that it keeps the session's tables in
  step, each action one that timers, sync program and feed follow.
- `SessionProofs!FreshCorrect`: `FreshPeer` and `DepartingIsCurrent`, where connections do
  not overlap (`Overlaps = FALSE`); with overlaps both are false, as `session_stale_belief`
  shows. The invariant, `FreshInv`, is proved on top of the session's: `OneRun`, the channels
  open at one peer were all opened by one run of the other, which is what non-overlap
  gives; `HeardIsMade`, that run is the one last heard of, so a second `establish` cannot
  bring an older one; `SaidIsHeard`, a departure noted was said by the run heard of.
- `ConnectionProofs!ShellFollowsCorrect`: the client's socket, channel, keepalive
  and timer are those of the state its program is in, and no socket it gave up
  stays open. Inductive with type correctness: every effect is run in the step
  that decides it, so each action has one lemma.
- `ConnectionProofs!StopIsFinalCorrect`: after `stop()` no late event of a socket
  or timer gives the client a connection again.
- `ConnectionProofs!NothingMisreadCorrect`: no alias and no half of a message meets those
  of another connection. The invariant, `ReadInv`, speaks of each wire and the pipeline
  that reads it: `Sound`, an alias used is known when its frame is read, stands for one
  document, and the second half of a message follows its first at once; `Told`, the
  sender's aliases are those the reader knows or is about to be told; `Untouched`, a connection
  without a channel at the client has been told at most "ready". A connection on which
  the collector gave up a partial message is exempt, as the property says.
- `SyncProofs`: `TypeCorrect`, `KnownIsStoredCorrect`, `RecordsCorrect`,
  `OnlySharersHearCorrect`, `OwedCorrect`, `SyncedCorrect` and `RefusalCorrect`, from
  one inductive invariant, `SyncInv`.
- `PushProofs!BaselineCorrect` and `OwedOrCurrentCorrect`: what is pushed arrives
  without a hole and no advance is forgotten, from a second invariant, `PushInv`.
- `LifecycleProofs!InstancesSoundCorrect`: no live instance is on a replica disposed of
  or shared, and what was closed is not wired again, however the steps of a document nest,
  from the invariant `LifecycleInv`.
- `BeliefProofs!BelievedCorrect`: what the lifecycle and the store program believe stored
  is stored and will not be deleted, from a second invariant, `BeliefInv`.
- `LineProofs`: `LineTypeCorrect`, `PrunedCorrect` and `StreamImplemented`, the refinement of
  `Stream` by `Line`, from one inductive invariant, `LineInv`.

`WritesInv` says what the queue of store calls means to the rest of a document.
`PhaseFits`: a settled phase has no write queued, and the replica is stored, or a
change is unheard, or a retry is due; a writing phase has exactly one write queued, and what it
will store covers the replica, or more is owed or unheard. `QueueFits`: no call of a
destroyed instance's write follows the live one's load, and a replacement was
queued only when everything it replaces could be read. `AddressFits`: while the seat
is held, the own operations stored, held and on their way to the store are told
apart by address, and a held replica has all of them. `Distinct(Stored)`: those
stored are, always. `PhaseIsTrue` alone is not inductive because a phase becomes
settled on a report, and whether it then tells the truth depends on what the
call that is reported was given; `NoAddressReuse` is not, because an operation
issued in this run may meet one that a run before it left in the queue.
`UnloadCorrect` and `ReportsCorrect` are action properties and need both invariants in
the state before the step; `NothingLostCorrect` needs `QueueFits`: a replacement
that removed records it could not read would lose them.

`SyncInv` is `Inv` and `RecordsInv`. `Inv` says that types
hold; that others hold no more of a peer's writes than its store does
(`HeldIsSafe`); that every message under way is one its sender may have sent and
brings no more than that either (`WiresFit`); that what is in memory has a store behind it,
which holds no more (`Backed`); and that nothing is recorded that an offer to a peer which
cannot have asked could start from (`AskedFirst`). `KnownIsStored` needs the first three
together, since a peer learns of a write from what was already under way when
its author died. `OnlySharersHear` needs `WiresFit` and `AskedFirst`.

`RecordsInv` says what records are worth: the entry fits the document, offers are owed
only to tracked peers of a document held, cursors quote what is held (`Knows`); `establish` is
first on a link, what a message claims its sender holds it holds unless its
`dismiss` follows, and a version stated is no older than what the sender had when
the link came up (`WireTrue`); an open end is of a tracked peer, and what was had when
it opened is had still (`LinkTrue`); what is recorded of a peer on a live
link is held by it, or its `dismiss` is under way (`HeldTrue`). `RecordsAreTrue` is not
inductive without `WireTrue`, because a record is copied from a claim that was
true when it was sent; `SyncedHasArrived` follows from the versions `WireTrue` and
`LinkTrue` bound from below.

Every action is an input with the shell's answer (`Step`), so the proof is in
layers: per handler what it returns (`Answers`, `Keeps`), per answer what the shell
makes of it, per action that `Inv` and `RecordsInv` are kept. That a refusing peer is
sent no content is proved per handler: none of them answers it with an offer.

`PushInv` says, of every two peers, what `OwedOrCurrent` and `BaselineArrives` rest on. Neither
is inductive: that a record comes true depends on where each offer under way starts. `Chained`:
among the offers under way there are some, each of which starts from what the
document and those before it bring (`Sound`), that together bring what the record takes the
peer to hold *and* where the offer owed to it will start; so an offer that is taken in
leaves the others sound, and a new one may join them. The rest says when this chain
may be broken, and that somebody then asks: who let go of the document (`dismiss`) or was
declined (`vacant`) and takes offers in has asked anew (`AskedAgain`); an offer under way is of
what its sender holds, unless a dismiss follows it (`OfferTrue`); only who vetoes refuses
(`RefusalTrue`); nothing is recorded for a peer the document is not shared with or while it is not held
(`UnaskedTrue`); `establish` comes before all else (`Opening`); and all that is held is sent, or
owed, or the peer will be told or will ask (`AdvanceTrue`). Every handler has a lemma that
says what it may do to a record and whom it speaks to (`Pushed`, `Speaks`); an action is a `Turn`,
one such reply with what the shell makes of it, or happens to a link; and each part of `PushInv` is
kept by a turn of either peer. TLC checked the parts on the instances of the runs first.

`LifecycleInv` speaks of every frame of the call stack, at any depth. The code lets a step run inside
an effect of another, against the model that one committed, and relies on the outer
effects being stale when they should be. So what each frame has left to do (`Todo`, in the
`Effects` of the model of *now*) is related to the model of now, not to the one its step
began with: what is still to be disposed of is not live, what is still to be closed is not held or
leaves. `ObjectsSound`: the instances in memory are those the model knows, each on a replica
of its own that was not disposed of. That alone is not inductive for one reason, the `wire` at
the end of a step: between its commit and that effect the document may be closed by a step
nested in `register`. `StackSound` says why it is then not wired: what a frame is to
wire is held for good, or its disposal stands above it on the stack, or its
departure is queued for the Synchronizer's dispatcher that runs directly above (`InTime`), which empties
its queue before it returns (`OneSync`, `Counted`: one departure for each leave under way). Over a
frame that is to wire an instance, therefore, nothing runs but that dispatcher, or the store
program on inputs from which no step of the lifecycle program follows (`UnderSync`). Operations of the
program have a lemma each, on any model, in terms of which generations are live, held for good
and leaving before and after (`StepOf`); effects and doors have one that the parts of the
invariant are kept. TLC checked `LifecycleInv` on the run `lifecycle` before it was proved.

`BeliefInv` adds the store's side: the inputs that frames of the stack have still to send the
store program and those in its queue, the effects it has still to run, and the store
calls that are queued. `BelievedIsStored` is not inductive, since a belief comes from such
an input, and the call it tells of may have been followed by others. `Ordered`: an input that makes
the program track the document (`hydrated`, `register`) is sent by the frame on top only, and
nothing queued would undo it. `Tracked`: while the document is tracked, or is to be, no delete is to
come; a confirmed version, a `hydrated` or a release to come means that the store has the document;
before the first write has ended nothing that starts from a stored version is queued.
`Reading`: once a load has asked what is stored, nothing that writes or deletes comes
before its answer. `Entered`: which of these go with which stages of the
lifecycle. Each kind of effect and each door has a lemma that the four are kept, on top of
`LifecycleInv`. TLC checked `BeliefInv` on the run `lifecycle` first.

`LineInv` says of every copy of an outbox, in its writer's memory, stored, on the wire
or as the other's inbox, that its messages are numbered without a gap (`Sound`), are
those of its stream, and lack none that the other was not given (`OutboxIn`), and that it
acknowledges no more than its writer was given (`AcksIn`). That is enough for
`PrunedIsGiven`. The refinement needs more. `StoredFirst`: what left the writer's memory is in
its store, so that a stop forgets nothing anybody was given, and a lineage
not yet stored was given to nobody; the publish gate and the store proofs are
what stands behind it in the code. `CursorHolds`: a Line's cursor is no further than
what was given of its inbox, and is exactly that until the peer starts anew.
`AckHolds`: until then the outbox acknowledges all of it, so a Line closed and opened
again reads its cursor back. `MintingHolds`: lineages are minted in order and there
are enough of them for all restarts. TLC checked `LineInv` with two restarts
before it was proved. Opening, loading and an arriving offer share the one
synchronous run `Processes`, so the proof treats it once, as an operator on the values of
the documents (`Handles`, `Advances`), and each action says which values those are. The
messages passed over by a loop and those written by `resume()` are given in closed form
(`Past`, `AllWritten`), not as folds, which the prover does not look into.

The assumptions are those the modules name: `BoundsAssumption`,
`NothingAssumption`, `LineAssumption`, `NetworkAssumption`, `NoneAssumption` (the mark for "no
version" is no version), `VersionAssumption` (nor is it the one version of Lifecycle) and the constants' types.

Only model-checked:

- every liveness property: the prover does not reach fairness;
- of Lifecycle, that the parties agree at rest (`AgreeAtRest`), that an unload loses nothing and that answers stand;
- of Connection, `HalvesMatch`;
- everything about Undo, whose stack is rebuilt by filters and folds over sequences: what those
  compute takes an induction over data. `PushesArrive` and `FreshUnlessOverlapping` are properties proved
  above, asked again in the settings of a scenario.

## Not modelled

Encodings, I/O and databases; the CRDTs themselves; the derived-data packages;
bindings, tools, examples and experiments. They are sequential, or data the
models do not tell apart, or libraries; together they are most of the
repository's lines. Lineages are modelled where a `Line` or an undo step meets
one; serialized documents with trimmed history, `planImport` and `doc-reset`
are not.

## Plan

1. Theorems: `Lifecycle!AgreeAtRest`, `Connection!HalvesMatch`.
2. `SyncLineage`: serialized documents with trimmed history, lineages,
   `planImport`, `doc-reset`; properties: the higher lineage wins, no operation of
   a superseded lineage returns, every cursor is cleared by a reset.
