# Verification of py-ipfs-lite

py-ipfs-lite is an IPFS node in Python on trio and py-libp2p: it stores blocks,
builds and reads DAGs, pins and collects garbage, exchanges blocks over Bitswap,
finds providers over the DHT, publishes IPNS names, joins pubsub topics, and
offers all of it as a library (`Peer`), an HTTP API and a command line. The
modules here model its own state machines; trio and py-libp2p are external and
modelled only by what the code relies on.

Everything runs in one trio event loop. A task is undisturbed between two
awaits, so a step of a model is the code between two awaits, and what is hard
is what other tasks, a cancellation, an error or a crash do at an await.

## Inventory

| Component (`py_ipfs_lite/`) | State | Operations | What is hard | What makes it correct | Modules |
| --- | --- | --- | --- | --- | --- |
| GC lock, `peer/ipld.py` `RWLock` | reader count, its lock, a semaphore | `read_lock`, `write_lock` | cancellation at each of its awaits | gc alone or readers together; no lost permit; nobody waits for nobody | `GcLock`, `ReadersWriters` |
| Content and GC, `peer/_content.py`, `dag_utils.py` | blockstore; in gc: key list, pin copy, marks | `add_file`, `add_node`, `remove_node`, `fetch_block`, `add_pin`, `remove_pin`, `gc`, `get_file`, `get_many` | gc reads keys, pins and blocks at different times; most writers take no lock; read errors; crash | a pinned DAG stays; garbage does not; an add is not disturbed; reads come in order | `ContentStore`, `Transfers` |
| Pin store, `pin.py` | pin table, its file | `add_pin`, `remove_pin`, load, save | crash inside a save, failed save, corrupt file | what was pinned is pinned after a restart | `RepoFiles`, `PinTable` |
| Life cycle, `peer/_lifecycle.py`, `peer/state.py` | state, exit stack, nursery | `start`, `close`, background tasks, `bootstrap`, warm-up | failure and cancellation half way, tasks that never end, calls in flight during a close | stopped means nothing left, running means all there; close ends | `PeerLifecycle`, `Routing` |
| Pubsub, `peer/_pubsub.py`, `api/routers/pubsub.py` | subscriptions, buffers, topic statistics, auto-joined set and its file | subscribe, unsubscribe, discovery pass, receive loops, drain | check and registration split by an await; a pass that awaits; start order | each subscription has its loop; cap; no flapping; each message once | `PubsubTopics`, `PubsubInbox` |
| Connection tracker, `connection_tracker.py` | connections, open streams, per-peer totals, finalized keys, metadata | notifee events, leak sweep, snapshots, eviction | late, double and missing close events, reused ids, capacity | each stream counted open once and closed once; reports add up | `ConnectionTracker`, `TrackerReports` |
| IPNS, `peer/_naming.py`, `ipns.py` | stored sequence, record in the network | `publish_name`, `resolve_name`, validation | concurrent publishes, restart, lost datastore, clock | sequences grow; only valid records are accepted | `IpnsPublish` |
| CAR and transfers, `car.py`, `services/files_service.py` | a file, the store, temporary files | export, import, streamed upload and download | truncated or corrupt input half way; blocks deleted meanwhile; a caller that goes away | what is imported verifies; an export is whole or absent | `Transfers` |
| Keep-alive, `peer/_maintenance.py` | in-flight pings, last ping times | sweep, ping, leak monitor | overlap of sweeps and slow pings | no peer is muted; pings stay bounded | `Upkeep` |
| Reprovider, `reprovider.py` | its scope | loop, `reprovide` | one failing provide | one failure does not stop the round | `Upkeep` |
| Routing, `routing.py` | list of routers | tiered lookups, puts, announcements | partial failure | one working router is enough | `Routing`, `IpnsPublish` |
| Seed and version files, `cli.py`, `versioning.py` | two files | read or create | crash between open and write | the identity stays | `RepoFiles` |
| Host factory, setup, adapters | libp2p objects | construction | none of its own | - | `Transfers` (the exchange adapter) |
| Services and HTTP API | none but the buffers above | parse a request, call the peer | only through the peer | - | with their component |
| Metrics, command line, configuration, exceptions | none that behaviour depends on | - | - | - | - |

Interaction: the API calls the services, these call `Peer`. `add_file`/`add_node`
(readers) and `gc` (writer) meet in the RWLock; they and everything else share the
blockstore and the pin store. `start()` opens one nursery that holds the
reprovider, routing, warm-up, keep-alive, leak monitor, pubsub services and
loops, and the provide task of each add. libp2p calls the tracker back.

Compositions: `ContentStore` uses `ReadersWriters` for its lock, which `GcLock` is
shown to implement; its restart brings back any pin table, and `RepoFiles`,
shown to implement `PinTable`, says which. `TrackerReports` adds data to every
handler of `ConnectionTracker`. `Upkeep` runs the strands of `Routing` beside its own.

Definitions named in a comment starting with "Mutation" are wrong on purpose: each
is what a plausible bug would make of the definition below it, and the property
it is meant for fails with it.

## Modules

### GcLock

`pc[t]` is where a call of `read_lock()` or `write_lock()` is. `StartRead` is the
first `async with self._read_count_lock`, `Count` the increment and the acquire of
the semaphore by the first reader, `EnterRead` the end of the entry block,
`EndRead` the lock of the `finally` block, `Uncount` the decrement and the release.
`StartWrite`, `EnterWrite`, `EndWrite` are `write_lock()`. `trio.Lock` and
`trio.Semaphore` are first-come-first-served queues whose release hands over to
the first waiter. `Cancel(t)` cancels the scope around a call; a parked task is
woken with `Cancelled` at once, any other meets it at its next checkpoint, and the
lock of the `finally` block is one. `Spec` has no cancellation, `CancelSpec` has.

### ContentStore

Blocks are CIDs and `Links` the links `walk_dag` extracts; a block's content never
changes. `StartAdd`, `AddBlock`, `EndAdd` are `add_node` (one block) and `add_file`
(all blocks of a DAG, in any order, possibly not all when a put raises).
`PutUnlocked` stands for every put without the lock. gc is `GcStart`,
`GcListKeys`, `GcReadPins`, `GcNextPin` for each pin, `GcVisit` for each block its
walk takes from the queue, `GcMarked`, `GcDelete` for each victim, `GcEnd`; each is
one store call. `GcVisitFails` is a `get` that raises: gc logs it and drops the
rest of that walk. `Restart` is the death of the process at any point; the store
stays and the pin table is whatever the file has. The queue of a walk and the
order of the pins are left open, which covers the code's order. `missed` is a
history variable: what the walks found absent or unreadable.

Not in it: the counts in `GCResult` (`retained_blocks` is the number of marked
CIDs, which includes pinned CIDs that are not stored), and the cancellation of a
gc, which `GcEnd` and the restart approximate by ending it early.

### Transfers

`task[t]` is one call at a time: `export_car` (`ExportStart` to `ExportFails`),
`import_car` (`Import...`), `get_file`/`get_file_stream` (`Read...`), `get_many`
(`Many...`) or the upload buffer of `add_file_from_stream` (`Upload...`). A step is
one store call, one block of a file, or one chunk. A CAR file is a header that is
right, wrong or missing, roots, blocks whose data is right or wrong for their CID,
and an end that is clean or in the middle of a block; varints and CBOR are
abstracted to that. The exchange (its adapter and Bitswap) answers any request with
the right block, kept or not kept in the store, or fails. `LinksOf` is what a
lenient walk finds in a block; `Unwalkable` are those a strict one refuses, because
they cannot be decoded or have a link that is no CID, beside good ones or not. A
file without links has its data within (`Yields`). `Put` and `Delete` are
what the rest of the program does to the store meanwhile, `Cancel` a caller that
goes away: only there the code leaves an export's temporary file. `disturbed` is
history: a block was deleted since the import began.

### RepoFiles and PinTable

`RepoFiles` is a process that starts (`ReadSeed`/`NewSeed`/`WriteSeed` of the
command line, `Load` of the pin store, `CheckVersion`/`WriteVersion`), serves
`AddPin` and `RemovePin`, and saves with one action per call of `_save`:
`MakeDirectory`, `Open`, `Write`, `Sync`, `Replace`, any of which may be `SaveFails`.
`Kill` ends the process anywhere and keeps what was written; `PowerFailure` leaves
of each file any of the contents it has had since the last `WriteBack`. Pins of the
older format (True/False) are migrated on load. `acked`, `recent` and `settled` are
history: `acked` is what the calls that returned let the file hold, which is one
table, the last that was saved, and after a power failure any of `recent`, those
that were acknowledged since the disk was last up to date. `PinTable` is the
promise: the file holds one whole table, and goes
from one to the next at once.

### PeerLifecycle

One task, the owner, calls `start()` and `close()`; `pc` is the await it is at.
`HostRuns`, `ExchangeStarts`, `Started` are `start()`; `StartFails` is its `except
Exception`, `StartCancelled` a `Cancelled` that passes it. `CloseCall`,
`ExitNursery`, `ExitHost`, `StopParts` are `close()`; the first two exits happen
inside `_exit_stack.aclose()`, which leaves the nursery before the host. A nursery's
exit waits for its children; that is trio's contract and the reason a `close()`
nobody cancels does not end (Findings). `children` are the background tasks, of
which those in `Endless` are `while True` loops; a child that raises cancels the
nursery. `AddCall` is the check `_ensure_started()` and `AddStored` the `start_soon`
of the provide task, many awaits later. Not in it: a child that raises, or a scope
that is cancelled, while `start()` is between the opening of the nursery and
RUNNING. The owner then leaves `start()` without leaving the nursery, which trio
reports as an internal error; what happens after it is not defined by the code.
Neither are two owners: a second `close()` returns at once while the first is in
`aclose()` (`_lifecycle.py:263`), and a `start()` that was cancelled while it made
the host leaves STARTING behind, so that every later `start()` returns
(`_lifecycle.py:58`).

### Upkeep and Routing

The background work of a running peer shares no state, so a behaviour of
`Upkeep` runs one strand, chosen at the start by `loop`.

* Keep-alive: a sweep marks peers in flight and starts a task for each
  (`waiting`), a task gets one of the permits (`pinging`), its ping returns, raises or
  times out, and it gives the permit back after its pause (`spacing`). A ping ends
  after the `now` of the sweep that started it, so at the next sweep less than an
  interval has passed since; on the model's clock, where both fall on one tick, it is
  left open whether the peer is due (`DueSets`), which covers a sweep that is itself
  late. `unpinged` counts time since the last ping of a connected peer.
* Monitor: the leak sweep flags streams that are old and have no protocol, and
  resets those that are flagged when one is new; a reset may raise.
* Reprovider: `round` is sleeping, listing, providing; each CID has its own
  timeout and error handling.
* Calls of `TieredRouting`: `FindAsks`/`FindReturns` and `AnnounceAsks`/... come to one
  router after the other. The HTTP client's answers are lists with repeats, junk
  and broken entries; the DHT's are sets, or it raises.
* `bootstrap()` dials, then refreshes the routing table under a guard.
* The warm-up lists the peerstore and inserts candidates one by one, while
  addresses come and go.

### ConnectionTracker and TrackerReports

Every handler runs without an await and is one action: `Connected`, `Disconnected`,
`OpenedStream`, `ClosedStream` (a record is found, or the event is a duplicate, or
it is of a stream never seen), `CheckForLeaks`. A record in `self.streams` is named
by its stream, and `StreamKey` is the pair of addresses it is filed under. `conn`,
`net`, `event` and `closeEvents` are libp2p and the allocator: a connection leaves
the swarm's table before its `disconnected` event, and a stream on it may still
look open; the `opened_stream` event of a stream comes at any time after it is
opened and before its first `closed_stream` event, or never; close events come any
number of times up to a bound; an object that is not referenced is freed and its
address used again. In `ConnectionTracker` a connection's own two events come once,
in order, and its address is not used again. When an entry leaves the bounded FIFO
of finalized keys is left open, which covers its age limit and its capacity.
`inexact` is a history variable: the peers whose counts something the code does
not handle has put out of step; its comment and `CountsExact` name the four cases.

`TrackerReports` takes each of these handlers whole and adds the rest of what it
assigns: the protocol and the direction of a stream, which become readable some
time after its event (`Negotiates`, `Tagged`), are picked up by whichever handler
next looks at the record (`Learns`), and move its counts (`Tally`); the metadata of
a connection is filed under two object addresses (`File`), which another connection
may get when the end of the first was never reported (`Silent`). `StreamReport`,
`ConnectionReport` and `SwarmPeers` are what `stream_stats_snapshot`,
`connection_stats_snapshot` and `list_connected_peers` answer. Not in it: pings and
reset marks, lifetimes, and the list of recent disconnections.

### PubsubTopics and PubsubInbox

`PubsubTopics`: `Start` is the part of `_init_pubsub` that subscribes, `Stop` the
end of the process. `UserSubscribes`/`UserSubscribed` are the check and the
registration of `subscribe_pubsub_topic`, with the await of libp2p in between;
`UserUnsubscribes` is `unsubscribe_pubsub_topic`, whose await changes nothing after
it. A discovery pass is `Scan` (statistics and what is stale),
`LeaveTopic`/`LeftTopic` for each topic it leaves, `PickCandidates`,
`JoinTopic`/`JoinedTopic` for each candidate there is room for, and `EndPass`, which
saves. The file may be unreadable, or fail to be written. Announcer counts are
reduced to none, too few, enough; the candidates' ranking is left open. `cold`,
`hot`, `neglected` and `by` are history variables, counted from the scans alone,
against which the code's own counters are held. `hot` are the scans with enough
announcers since the topic was last left, or short of them `LeaveMisses` times in a
row, and `NoFlapping` asks for enough of these before a join: what the code's reset
is for (`_pubsub.py:214`), and less than the consecutive scans it promises
elsewhere (Findings).

`PubsubInbox`: one topic and what becomes of its messages. The peer itself (start
or discovery) and requests subscribe, each at most once, possibly at the same
time; each that gets a subscription starts a receive loop, which takes the deque
that is current when it starts (`LoopStarts`), gets (`LoopGets`) and appends
(`LoopAppends`), in two steps. A request polls: it drains the deque, and answers or
throws away what it drained (`PollAgain`). `dropped` and `early` are history.

### IpnsPublish

A publish is `Begin`, `ReadLast` (the datastore), `Resolve` (the network, then the
choice of the sequence), `Store`, `PutTo` for each router in turn, `PutEnds` or
`PutTimesOut`. Every one of these calls may fail; what the network returns may be
the record, nothing, or the record with a foreign key, a bad signature, fields that
do not fit the signed data, no date, or reduced to its older signature and with any
sequence (`Damaged`). `Valid` is `validate_ipns_record`: with `v2` every field is
covered, and without it the value and the validity are and the sequence is not.
`FoundIsSuperseded` is therefore about publishes that found the record with `v2`
(`found`), and `AnswersAreHeld` promises of a reduced record its value and its
validity only. A sequence above `MaxSequence` is refused (`Refuse`), after it was
stored. A delegated router refuses every put. `Restart` ends the
process, `Clock` moves or sets the clock. The network keeps the record with the
highest sequence. `signed`, `succeeded`, `floor`, `found`, `orderly` are history.

## Runs

| Run (module, cfg) | Shows | Bounds |
| --- | --- | --- |
| `gc_lock` (`GcLock`, `GcLock_safe.cfg`) | The abstract lock is implemented; readers get in, writers get in once the readers drain | 3 readers, 2 writers, each any number of times: two readers and a third that comes late, two gcs in the queue |
| `gc_lock_cancel` (`GcLock`, `GcLock_cancel.cfg`) | Two gcs never overlap, whatever is cancelled | the same, everybody cancellable |
| `content` (`MCContentStore`, `ContentStore.cfg`) | A collection spares what the pins it read protect, marks nothing else, disturbs no add, and ends | a chain of three blocks, of which two can be unreadable, removed or pinned; two adders |
| `lifecycle` (`PeerLifecycle`, `PeerLifecycle.cfg`) | A stopped peer is quiet, a running one complete, a cancelled close ends | two starts, four tasks, one of which may fail, two adds |
| `tracker` (`MCConnectionTracker`, `ConnectionTracker.cfg`) | Counts follow the records, an open stream keeps its record, a sweep leaves no dead record and flags no false leak | two connections to one peer, one to another; two streams in turn at one address, a third on the other connection; one close event each, one remembered key, evictions above one peer |
| `tracker_reports` (`MCTrackerReports`, `TrackerReports.cfg`) | Streams by direction and protocol add up; a connection is reported with its own metadata or none | three connections, two streams, at most four of them ever made; one connection and one stream may be unheard of, another connection's end unreported |
| `pubsub` (`PubsubTopics`, `PubsubTopics.cfg`) | The cap, no flapping, no join on scans from before the topic was gone, no stale topic kept | the peer's own topic and another, one user, 2 confirmations, 3 misses, no extra room |
| `pubsub_inbox` (`MCPubsubInbox`, `PubsubInbox.cfg`) | Messages are returned once and in order, lost only where the code drops them; a registered topic is read | the peer and 2 requests, 3 messages, room for 2 |
| `ipns` (`MCIpnsPublish`, `IpnsPublish.cfg`) | A publish that found the record supersedes; answers are what is held; sequences increase | 3 publishes, 2 at a time; a delegated router and the DHT; 3 clock values; sequences up to 3, of which 0 and 3 stand in altered records |
| `repo_files` (`MCRepoFiles`, `RepoFiles.cfg`) | The pin file is whole and holds what was acknowledged, after a power failure too; it is an atomic table; the identity stays | 2 CIDs, 2 seeds, no save begins while the disk may have two contents |
| `transfers` (`MCTransfers`, `Transfers.cfg`) | Exports are whole, imports verified and complete ones accepted, reads in order, buffers bounded | two tasks at once; a directory of a two-level file, with raw and dag-pb leaves, and a node with a good and a bad link; six foreign CAR files |
| `upkeep` (`MCUpkeep`, `Upkeep.cfg`) | Nobody is muted, skipped or left waiting | 3 peers, 1 permit, 2 streams, 2 CIDs, 2 routers, 3 providers, answers of up to 3 lines, 4 stored peers and room for 2 |

Why the bounds are enough:

* One close event per stream is enough for a duplicate, because the disconnect and
  the sweep close streams too; one remembered key makes every second one push the
  first out.
* In `tracker_reports` four objects are a peer's two connections with both streams,
  or a connection, its stream, and another connection at its address. `MayBeUnheard`
  and `MayBeSilent` say of which the events can be missing, `KnownAtOnce` which stream
  has its protocol from the first. No flags are raised in its sweeps, because
  nothing it reports depends on them; `tracker` has the flags.
* In `pubsub` the only room is what the own topic leaves when it cannot be subscribed
  to or a user takes it away, so that with two topics the cap decides.
* Three messages and a deque of two make one overflow; three tasks make two loops on
  one subscription and a request that reads beside them. Counts are "all" and 2.
* A chain of three is enough for the walk of gc: a root, an interior block that can
  be lost so that the walk breaks off, and a leaf that is deleted for it; two pins on
  it share blocks. The DAG of `transfers` has a block that occurs twice, in a file
  and directly, so that order, repetition and the set of seen blocks all matter; of
  the two files that are read (`Files`) one is within the size limit.
* Three publishes are one that is lost or overlapped, one beside it and one after
  them. A `Lifetime` of 1 in three clock values makes records expire. Of the `Altered`
  sequences one is below all that are signed and one is `MaxSequence`, so that the
  sequence after it is refused.
* In `repo_files` the file before a save and the file after it are what a power failure
  chooses between; the acknowledged tables it may go back to are those two.
* The seeds (`MaxSeeds`) are the first and one that would wrongly replace it.

Symmetry (tasks, publishes, requests, CIDs) is used only in runs without liveness.
Deadlock is checked in `gc_lock`, `content`, `tracker`, `tracker_reports`, `pubsub`
and `upkeep`. In the others what is bounded is used up: the tasks and starts, the
publishes, requests and messages, the seeds, and cancelled readers for which gc
waits for ever.

`TypeOK` is a conjunct of one property of each run that has room for it
(`CapRespected`, `OnceInOrder`, `FoundIsSuperseded`, `ReturnedIsOnFile`,
`BuffersBounded`, `InflightIsTask`); it is proved of every module that has one.

Fairness: trio runs every task that is not parked, so each step of a task that has
begun is weakly fair. Store calls return or raise, bodies of locks end, provides and
dials have a timeout. In `Upkeep` the steps of the reprovider are weakly fair, and a
listing that succeeds again and again is strongly fair, that is the store does not
raise for ever; trio's clock goes on (`GuardPasses`), while a refresh need not end.
Nobody is obliged to call anything, to cancel anything, or to fail.

## Proofs

Every state invariant, every action property and every refinement that a run checks
is proved for every value of the constants, on the assumptions stated in the modules:

* `TasksAssumption`: finitely many readers, disjoint from the writers.
* `StoreAssumption`: finitely many blocks, links between them.
* `TransfersAssumption`: what a CID may name, and of which blocks a strict walk
  refuses some link. Links have no cycle, because a CID is
  the hash of its block's content, its links included; sizes are positive.
* `TrackerAssumption`, `ReportsAssumption`: finitely many peers, connections, streams,
  directions and protocols; any addresses, capacities, missing events.
* `PubsubAssumption`, `InboxAssumption`: finitely many topics and requests, thresholds
  above zero, a deque with room for one message.
* `UpkeepAssumption`, `RoutingAssumption`: finitely many peers, intervals and permits
  above zero, any number of routers.
* `IpnsAssumption`: among the routers one DHT at most, as `_hostfactory.py` builds
  them; any altered sequences up to the highest there is. `LifecycleAssumption`: which
  background tasks start early, late, never end.
  `RepoAssumption`: what the bounds are.

The arguments, module by module:

* `GcLock_proofs`, without cancellation: `IInv` adds to what is checked who owns the
  count lock (`CountLockOwned`), that a parked task is in one queue once
  (`WaitersParked`) and that the reader that fetches the permit is the only one
  counted (`FetcherAlone`). Without the last, the permit would not be the readers' as a
  group. The lemma that matters is that a reader that is reading is counted by a
  count above zero, hence the permit is the group's and no writer has it
  (`Exclusion`). For `Refinement`, every step of the lock is a step of
  `ReadersWriters`, which `ContentStore` uses, or leaves the sets of readers and
  writers alone. With cancellation that exclusion is false (Findings), and `CancelInv`
  is weaker: a count covers the readers that are still to give it back, though it may
  stay too high for ever, and the permit is there at most once, though it may stay
  with readers that are gone. That is enough for `WritersExclusive`: two collections
  never overlap.
* `ContentStore_proofs`, collection: `WalkOnTrack` says of the walk under way that the
  links of each block it found are visited or queued, so that when the queue is empty
  its visited set is closed under links but for the missed blocks, and contains
  everything reachable (`ReachLeast`, `WalkComplete`). `SettledMarked` carries that
  to all finished walks, and `SparesPinned` follows as a victim is never marked.
* `ContentStore_proofs`, transfers: the same argument makes an export whole
  (`ExportRight`: what it wrote is what it visited, each block once, within the DAG of
  one root, and `WalkWhole`). An import owes the store what it has read of the file
  and the roots it has checked (`ReadIn`, `RootsChecked`), unless a block was deleted
  meanwhile; a complete file is therefore refused for no other reason. `BuffersInv`
  sums sizes along a sequence (`BytesAppend`). For `DeliveredInOrder` the content of
  a file must be shown to exist and to be unique (`ContentExists`, `ContentUnique`,
  both because links have no cycle); then what is delivered, followed by the content
  of what is queued, is the content of the root at every step (`DeliveryRight`).
* `Peer_proofs`, life cycle: what `start()` has acquired and `close()` has yet to
  release at each await (`StartProgress`, `CloseProgress`), that a nursery that is not
  open is empty, and that outside a call a peer that is not running holds nothing.
* `Peer_proofs`, loops: each part is about the variables of one strand, which the
  others leave alone. Pings: a task is in one of the three lists, once
  (`PingTasks`), and the time left to a peer covers the sweep that passes it over, the
  one that takes it, and the rounds of permits of those ahead of it (`UntilPinged`),
  of which a timeout takes one (`RoundPasses`).
  Monitor: the age of a stream and the monitor's sleep together stay within the gap,
  and one that is flagged is among those still to be reset (`GoesInTime`). Warm-up: a
  peer that kept its addresses was offered or is still a candidate, but for as many
  as there was no room for (`WarmInv`).
* `Peer_proofs`, calls for providers: what parsing, cutting and merging make of any
  answer (`ReadRight`, `MergedRight`), and that a call in progress has everybody who was
  named, or enough, or an answer that was cut short (`CallInv`).
* `Pubsub_proofs`, topics: the code's counters against the histories of the scans.
  `Evidence`: a streak of misses is no longer than the scans without announcers, hits
  no more than the scans with them. `PassJustified` keeps that until the pass gets to
  the topic, awaits later; `JoinedKnown` has the other direction, that a neglected
  topic is due; `PlaceKept` reserves the place of the topic being joined while libp2p
  is awaited, which is why the cap holds beside `subscribe_pubsub_topic`.
* `Pubsub_proofs`, inbox: a message is in one place (`OnePlace`); a loop is past what
  it holds, and as long as there is one loop the deque is in order and behind it
  (`InSequence`); `Wiring` says who holds a subscription while a call of libp2p or a
  loop is under way, from which a registered topic is read.
* `ConnectionTracker_proofs`, counts: `FinalizeCounts` is the common part: finalizing
  takes the same number from the records and from the counts, and an eviction that
  leaves records behind puts the peer among the inexact. Two strengthenings carry the
  rest. `AddressesExclusive` (of two streams at one address at most one exists)
  makes a record that an event replaces, or closes for another stream, that of a
  stream which is gone, so that no open stream loses its own. `CloseAccounted` (a
  stream reported open that may still be reported closed has a record, or its key
  is remembered, or its peer is inexact) is what makes the branch of
  `closed_stream` that makes up a record harmless to the exact peers.
* `ConnectionTracker_proofs`, reports: of connections, an address is held by one
  connection at most whose objects exist, and an announced one finds its own metadata
  there or has lost it to the capacity (`FiledInv`). Of streams, every handler is
  one application of `Tally`, to sets that `Handled` relates to the records;
  `TallyInv` (counts by direction are the records with that direction, the buckets sum
  to the streams opened with one place for every record without a protocol, and
  what is pending has not been counted by protocol) is kept by any such application.
* `RepoFiles_proofs`: `TmpIsPins` follows the other file of a save: once written it is
  the table in memory, once synced nothing else can be left of it; with it `Replace`
  keeps the file whole. `AckedKnown` relates the histories to the disk: all that a
  power failure may leave is in `recent`, and the one table acknowledged is that on
  file, or the disk has no other. For
  `Refinement`, `Replace` is the only commit, a write-back settles, an end or a start
  of the process is a `Load` of `PinTable`, and the rest stutters. `IdentitySurvives`
  rests on `SettledIsOnFile`: a seed that some start has kept is in the file, which is
  not written again.
* `IpnsPublish_proofs`: `TookIsHeld` (a router that took a record holds that sequence
  or a higher one from then on) gives `AnswersAreHeld`, a valid record being the held
  one or that one reduced; `FloorIsPast` and `Superseded` give `FoundIsSuperseded`, the
  record found with `v2` being the one held by the one DHT, which holds all that
  succeeded; `OneAtATime` and `StoredIsHighest` (as long as publishes
  do not overlap, the datastore has the highest sequence ever signed, and the publish
  under way has read it) give `SequencesIncrease`.
* `Induction` holds what several of these need: induction over the numbers up to n
  and over the subsets of a finite set, stated for sets (`Upwards`, `Elementwise`),
  because the library's induction theorems take an operator, which the provers cannot
  instantiate; that a function defined from each number to the next exists
  (`Iterates`); what `FlattenSeq` does; and sums (`SumOfClasses`: the sizes of the
  classes of a finite set sum to its size).

Only model-checked: liveness, which is out of the prover's reach (`EveryoneGetsIn`,
`GcEnds`, `CancelledCloseEnds`, `EveryCidTried`, `BootstrapReturns`).

## Findings

Where the code falls short of what it, its tests or its documentation say. The
models have all of this behaviour; the properties are stated as far as the code
keeps them, and name the case they leave out.

Locks, collection, life cycle:

1. `RWLock.read_lock` cancelled at the acquire (`peer/ipld.py:259`) breaks the
   exclusion of gc; cancelled in its body (`:263`) it blocks gc for ever.
2. A pin added while gc runs is not honoured by that run (`_content.py:481`).
3. A read error during the walk of a pin turns into deletion of the pinned DAG
   (`_content.py:493`).
4. `close()` waits for the nursery's endless tasks before cancelling them
   (`_lifecycle.py:272`, `:277`); so does a `start()` that fails.
5. `encode_node` turns an `IPLDNode` into a plain string (`peer/ipld.py`), so that the
   link is none for `walk_dag` and gc deletes what it points to.

Pubsub:

6. A topic that is rejoined from the file and no longer announced is never left
   (`_pubsub.py:203`).
7. A topic "must be seen at this many consecutive discovery scans before we join"
   (`config.py:64`, and the docstring `_pubsub.py:177`), to filter what flashes up. The
   code keeps its hits through misses, as long as fewer than `pubsub_leave_misses`
   come in a row: with the defaults of 2 and 4 a topic is joined that was seen once,
   was absent for three scans, and is seen once more (`_pubsub.py:205` to `:216`).
8. Messages are to be delivered exactly once (`api/routers/pubsub.py:82`); a read with
   a count drops what it drained before there were enough, and what is beyond it.
9. Receive loops started while the peer is STARTING end at once: the configured
   topics are registered and never read (`_pubsub.py:324`).
10. Two that subscribe at once, or a subscribe beside an unsubscribe, can leave a
    dead subscription registered (`_pubsub.py:282`).

IPNS and files:

11. "Old records will always be superseded" (`docs/guides/ipns.md:65`) fails without a
    datastore when the lookup finds nothing and the clock has not passed the old
    sequence; overlapping publishes sign the same sequence, and a lower one may be
    stored over a higher (`_naming.py:76`).
12. "Record has not been tampered with" (`docs/guides/ipns.md:285`) holds of a record's
    value and validity. A record without `signatureV2` or `data` is accepted by its
    `signatureV1` (`ipns.py:145`), which covers neither the sequence nor the TTL, so
    what `publish_name` takes for the last sequence may not be the one that was
    signed. A lower one counts only when the datastore and the clock do not have a
    higher; with one of 2^64 - 1 every publish is refused (`ipns.py:28`), after the
    number was stored (`_naming.py:97`), which makes the next ones fail as well.
13. A crash between open and write leaves an empty seed file, and a new random
    identity at every later start (`cli.py:47`).
14. A pin file that cannot be read counts as empty, and the next save overwrites it;
    the directory is not synced after the rename (`pin.py`).

Transfers:

15. The output file of `get_file` is truncated first and left partial on failure
    (`_content.py:297`); `get_file` of a dag-cbor or json node is empty, of a directory
    its first entry; the first chunk is not held against the maximal size.
16. An export passes over a block that cannot be decoded, and over a link that is no
    CID, and a strict import of the same file refuses it for either
    (`dag_utils.py:33`); a cancelled export leaves its temporary file
    (`car.py:128`); a block of length zero ends an import as the end of file does.
17. `/refs` swallows the failure of a child and takes raw bytes for a node.

Upkeep and routing:

18. "Pinging every peer every 15 s ... keeps each connection well within the 30 s QUIC
    idle window" (`_maintenance.py:44`). The time of the last ping is that of its
    completion (`:94`), always after the `now` of the sweep that started it (`:77`), so
    that the next sweep passes the peer over: the interval is two sweeps, which is
    30 s, and the wait for a permit, hence at or past that window. `_last_ping_time` is
    never pruned. The monitor resets only in a sweep that flags a new stream (`:243`).
19. `python-sdk.md:56` says a connection pruner is started; nothing starts it.
    `python-sdk.md:431` and `tutorials/02` name reprovide strategies the code does not
    have. The reprovider allows 30 s, of which `_content.py:114` says that the DHT walk
    needs more.
20. With `use_ipni` the routing is a `TieredRouting` without `_routing`: the warm-up and
    the listing of the routing table do nothing (`_lifecycle.py:202`). A delegated
    answer that repeats a peer uses up `count` before repeats are merged
    (`routing.py:56`). Every caller ignores that `provide()` answers False.

Tracker and metrics:

21. Metadata of live connections older than 600 s is dropped at the capacity, possibly
    one of a connection's two entries (`connection_tracker.py:589`); ages are merged
    when their rounded values are equal (`:659`); `opened_stream` counts into the
    metadata at a reused address without the check of the peer that the other
    handlers make (`:759`). `closed_stream` raises for a stream it never saw opened.
22. Streams that `disconnected` ends before they were looked at again are not in
    the totals by protocol; those whose direction becomes known after their protocol
    are not in the totals by direction.
23. Gauges of labels no longer active keep their value (`metrics.py:320`); the gauge of
    `MetricsBlockStore` drifts with concurrent or failing puts and starts at 0 on a
    store that has blocks (`metrics.py:382`). `list_connected_peers` writes
    `/tmp/zombie_diag.log`.

Seen, and not clearly wrong: the leave pass also leaves topics a user subscribed; an
unsubscribed topic comes back from the file.

## Plan

1. Two owners of a peer's life cycle; a `put_block` that races gc's listing
   (`services/block_service.py:58`), stated as a property of its own.
2. Proofs: the safety part of the liveness properties, that is what goes down with
   every step of a collection and of a cancelled close.

## Not modelled

* Metrics: gauges and counters; no behaviour depends on them. What the tracker's
  snapshots give them is in `TrackerReports`.
* Construction (host factory, setup, configuration, argument parsing): it builds
  libp2p objects and keeps no state of its own once built.
* The HTTP handlers without control of their own, which parse a request and call
  the peer; `PeerSession` and `list_pins`, which only read.
* The connection pruner: nothing starts it.
* Chunking, DAG layouts, varints, CBOR, signatures: conversions of data the
  properties do not tell apart, abstracted as said above.
* The interop, benchmark and example scripts, which drive other programs or call
  the library in sequence.
