# TLA+ models of corsa-bind

corsa-bind drives an external type checker process (Corsa) from Rust, Node,
C, Elixir and other hosts. Its own logic is in the Rust crates under
`src/src/core`: transports, a client that tracks server-side snapshots, an
orchestrator that pools clients and caches results, and an LSP client. Two
parts of the Node bindings decide something of their own as well, the session
of the linter and the merging of checker queries. The models are about that
logic and about the interleavings, failures and limits that unit tests hardly
reach. Paths below are relative to `src/src/core`, unless they begin with
`bindings`, which is `src/src/bindings`.

## 1. Inventory

| component | state | operations | what is hard | what makes it correct | module |
|---|---|---|---|---|---|
| JSON-RPC connection (`corsa_jsonrpc/.../connection.rs`) | `closed`, `next_id`, the sender behind `outbound`, `pending`, reply channels, writer and reader threads, `read_done` | request, notify, respond, subscribe, both loops, fail_transport, close | every lock is taken separately; deadlines; a peer that stalls, lies or dies; concurrent closes | no caller is left waiting, no entry leaks, an answer reaches its own call, close drains the queue | `JsonRpcConnection`, `RpcCalls` |
| Frames and messages (`frame.rs`, `message.rs`) | none | read and write one frame, classify a message | header split over reads, size limits | parse(print(x)) = x, limits enforced | kinds of message only |
| Broadcast, executor, tasks (`corsa_runtime`) | subscriber list; parker bit and condvar | subscribe, send, block_on, wake | wake between poll and park; dropped receivers | no wake-up is lost | inside the waits that use it |
| Child processes (`corsa_core/src/process.rs`) | the child behind a mutex | shutdown, drop | drop while another thread shuts down, errors half way | the child is reaped | `LspShutdown` |
| Snapshot leases and release (`snapshot.rs`, `snapshot_release_drain.rs`) | leases, the bounded release queue, its progress counters and waiters | lease, drop, release, enqueue, worker loop, drain | full queue, dead worker, drop during release, drain racing with both | every lease is released at most once, drain ends when everything submitted is done | `SnapshotRelease` |
| Snapshot lineage (`snapshot.rs`, `client.rs`) | head, project lists, the async gate and its wakers | update, derive, clear, raw release | updates, raw releases and close overlap; answers are deltas | no change is lost, what is leased is on the server, nothing leaks | `SnapshotLineage` |
| Single-flight cells (`client.rs`) | the cell, a channel, a thread and a parker for each waiter | initialize, describe_capabilities | a leader that fails or panics while others wait | one flight at a time, each waiter gets the outcome of its own | `Singleflight` |
| MessagePack worker (`msgpack_worker.rs`) | bounded command queue, child handle, worker thread | request, close, terminate | a timeout of one request kills the child under another | nobody is forgotten, a close reaps the child | `MsgpackWorker` |
| Orchestrator caches (`corsa_orchestrator/.../api.rs`) | three maps and their order lists | cached_snapshot, cached, pinning, invalidation, expiry | map and order are locked separately | the maps stay within their bound, every entry can be evicted | `OrchestratorCaches` |
| Orchestrator fleets (same) | fleets, round robin counter, pins | prewarm, lease, lease_for_project, release_project_affinity, shutdown_profile | the fleet changes or goes away during prewarm and lease | every worker is reachable or closed | `WorkerFleets` |
| Batch execution (same) | work channel, result channel, scoped workers | execute_all | a failing or panicking task, a bounded channel | every input runs once and every output is at its place | `BatchExecutor`, `BatchPromise` |
| LSP overlay and virtual documents (`corsa_lsp/.../overlay.rs`, `virtual_document.rs`) | open documents with version and text | open, change, replace, close; splice by line and UTF-16 column | notification and map update are separate; refused notifications; change lists that fail half way | the server sees a legal document sequence and has what the overlay has | `LspOverlay`, `DocumentSequence`, `VirtualDocument`, `VirtualText` |
| LSP client shutdown (`corsa_lsp/.../client.rs`) | shutdown phase behind a mutex and a condvar | close, graceful_close | concurrent closes, a panic between begin and finish | one shutdown, everybody gets its outcome | `LspShutdown` |
| Session of the linter (`bindings/nodejs/corsa_oxlint/ts/session.ts`) | the worker, the snapshot, what was sent for each file | query, refresh, recover, close | files change and workers die between the requests of a query | a query is answered from its own text | `CheckerSession` |
| Merging checker queries (`bindings/nodejs/corsa_node/ts/orchestrator.ts`, `checker_batch.ts`) | groups and routes of one batch | plan, flush, resolve | items asked for once but wanted by many | each query gets what it would get alone | `CheckerBatch` |
| Span map (`corsa_client/.../content_mapper.rs`) | segments and two indexes | lookups of points and ranges, both ways | originals overlap and repeat; a padded search tree | agrees with a look at all segments | `SpanMap` |
| Other pure code (decoder of source files, symbol identity, handles) | none | conversions | layout of bytes | unit tests | - |
| Native lint rules (`corsa_core/src/lint`) | none | pure predicates over syntax | nothing for a model checker | unit tests | - |
| Wrappers in the language bindings (`bindings`) | handle tables behind a mutex | wrappers of the client | poisoned locks | thin | - |
| Reference manager (`corsa_ref`) | a git checkout and a lock file | sync, verify | external tools | I/O | - |

Interaction: the LSP client and the API client own one JSON-RPC connection
(or one MessagePack worker) and one child process each; the orchestrator owns
clients; updates of the lineage take and drop leases, and leases hand release
requests to the client's release queue, whose worker calls the client again;
the session of the linter sits on one client.

## 2. Plan

Everything planned is written. In this order, the most important behaviour
first:

1. `JsonRpcConnection`, which implements `RpcCalls`; proofs.
2. `SnapshotRelease`; proofs.
3. `LspOverlay`, which implements `DocumentSequence`, `VirtualText` and
   `VirtualDocument` against a UTF-16 reference; proofs.
4. `SnapshotLineage`; proofs.
5. `OrchestratorCaches`, `WorkerFleets`, `BatchExecutor`, which implements
   `BatchPromise`; proofs.
6. `LspShutdown`, `MsgpackWorker`, `Singleflight`; proofs.
7. `CheckerSession`, `CheckerBatch`, `SpanMap`; proofs.

Every invariant, action property and refinement that a passing run checks is
proved; liveness is not (section 9). What would come next: the framing of
messages at the level of bytes; the session's lookups of types and symbols.

Parts that share no state are checked in one run: a variable `subject`, chosen
at the start and never changed, says which part a behaviour exercises, and the
others stay in their initial state. The state spaces add up and do not
multiply, and each property reads as if its part were alone.

## 3. The JSON-RPC connection

`JsonRpcConnection` models `corsa_jsonrpc/src/jsonrpc/connection.rs` at the
grain of its locks and atomics: what the code does under one lock is one
action, and between two of them everything else may happen.

| variable | code |
|---|---|
| `closed`, `nextId`, `pending`, `slot` | `Inner.closed`, `next_id`, `pending`, the one-slot reply channels |
| `outbound`, `queue` | the `Option<SyncSender>` and the bounded channel behind it |
| `writing`, `writeTask`, `readDone` | the message the writer has taken, the join handle, the `read_done` receiver |
| `callId`, `outcome`, `pc` | the local state of every thread |
| `subscribed`, `events`, `replyTo`, `posts` | the broadcast, the requests a subscriber holds, the reply under way |
| `toPeer`, `fromPeer`, `alive`, `asked`, `answered`, `inbound` | the two pipes and the peer process, external |

A request is `CallOpen` / `CallClosed`, `Register`, `SendRequest` or
`RefuseRequest`, then `TakeReply` or `Expire`, and `Withdraw` for the entry of
a call that failed. The writer loop is `WriterTakes`, `WriteFrame`,
`WriteFails`, `WriterStops`; the reader loop has one action per kind of frame
(`RouteResponse`, `AnswerInbound`, `DeliverInbound` with `SendReply`,
`DeliverEvent`, `RejectFrame`, `EndOfStream`). `fail_transport` is three steps
in the order of the code, `MarkClosed`, `DropOutbound`, `FailTransportPending`.
A close is `SwapClosed`, `DrainPending`, `TakeOutbound`, `TakeTask`,
`JoinWriter`, then `ShutdownChild` (when the closer owns the process, as the
LSP and API clients do) and the steps of `join_reader`. The peer may read,
answer in any order, call back, send notifications or frames that do not parse,
stall, and exit, at any moment.

### What the runs show

| run | instance | question |
|---|---|---|
| `jsonrpc_calls` | two callers, a closer, a notification, every queue one message | types; no caller is stranded by a failed transport; no entry leaks; a clean stop loses nothing; `RpcCalls` is implemented |
| `jsonrpc_closers` | two closers, a caller, one request from the peer, no request timeout, fairness | no close passes the writer; a close fails only beside another close; a request of the peer is never answered twice; every call and every close ends |
| `jsonrpc_close_misses_call` | a caller without a timeout, a closer that does not own the process | finding 1 |
| `jsonrpc_stuck_writer` | two notifications, a peer that never reads | finding 2 |

One slot per queue and pipe is where the interesting cases are: the second
message meets a full queue, the third a full pipe. Two calls are enough for an
answer to reach the wrong caller and two closers for every overlap, since the
fields they compete for are taken once. Symmetry is used for safety only.

Fairness (`ThreadFairness`): weak fairness of each call that has begun, of both
loops, of `fail_transport` and of each close that has begun, because these are
threads of this process and each waits on nothing but the conditions in its
guards. Nobody is made to call, to close or to answer. `LivePeerSpec` adds what
`ThreadsReturn` needs of the peer: while it runs it goes on reading its stdin.
It may still exit at any time, or never answer. `ThreadsReturn` says that in the
end no close is under way and that only calls without a deadline, to a peer that
lives on, still wait. Calls and closes are finitely many in the model, so "in
the end" (`<>[]`) says of each that it returns.

### What is proved

`JsonRpcConnectionProofs` proves, for any finite or infinite sets of callers
and closers and any capacities and bounds (`ThreadsAssumption`,
`SizesAssumption`): `TypeCorrect`, `NobodyStranded`, `NoLeakedEntry`,
`Refinement`, `WriterJoined`, `CleanStop`, `OneReply` and `CloseFailure`. The
argument:

* `TypeInv` adds to `TypeOK` what kind of message each thread has in hand,
  without which the types are not inductive.
* `CallInv` is the invariant of the table. `OwnIds` and `FreshIds` say that no
  two calls share an id and that unissued ids are untouched. `WaitersCovered`
  is the heart: a caller that waits on an empty slot has its entry in the
  table. `SenderGone` says that a loop past `DropOutbound` has left no sender,
  so nobody enters the waiting state after the drain; both safety theorems
  follow.
* `PromiseInv` relates the pipes and slots to what the peer has answered, so
  that every step maps to a step of `RpcCalls` or to none. A call in the map
  has returned when its entry is withdrawn.

* `WriterInv` is about the end of the writer: one that stopped by itself found
  the queue empty and no sender left, it holds no message outside a write, and
  a join handle that is gone is in the hands of a closer that joins, or the
  writer is over.

* `ReplyInv` follows each request of the peer through the places it passes,
  from the pipe to the reader or a subscriber, to a message in someone's hand, the queue,
  the writer and the pipe back: it is in one place at most (`Places(j) <= 1`),
  so it is answered once at most.
* `CloseFailure` is an action property: a step that makes a close fail has
  another close under way. It rests on `Removing`: while the reader's result is
  received and its receiver not removed, the closer that received it is about
  to remove it.

`ThreadsReturn` is model-checked only; liveness is out of the reach of the
prover.

### Findings

1. `begin_close` sets `closed` and drains the table before it takes the sender,
   the other way round than `fail_transport`. A request that passed the check
   before can register after the drain and is still accepted; nothing fails it.
   The comment of `close` promises to fail outstanding requests.
2. `begin_close` joins the writer without a deadline, before the shutdown of
   the child starts its own. A server that stops reading while the pipe is full
   makes `close` and `graceful_close` wait for ever, although the comment
   promises the end within `shutdown_timeout`.

### Not modelled

Failure to spawn the two threads; a panic of an observer or of the reader
outside a handler; a connection dropped without close; the durations of
deadlines (a deadline may pass at any moment of its wait).

## 4. Releasing snapshots

`SnapshotRelease` models the leases and `SnapshotReleaseQueue` of
`corsa_client/src/api/snapshot.rs`, `ReleaseProgress` and `ReleaseDrain` of
`snapshot_release_drain.rs`, and `ApiClient::close` up to the driver. Each
handle carries the control point of the thread that works for it (`at`), from
`"held"` through `"counted"` (the counter was raised), `"armed"` (the sender was
cloned), `"queued"`, `"releasing"`, `"answered"` to `"settled"`. The explicit
release takes the branch `"claimed"`, `"released"`. `pending`, `error` and
`waiters` are `ProgressState`; `sender` and `queue` the bounded channel; the
worker's loop, its panic and the message it leaves in `done` are `worker`,
`panicked` and `done`. A drain future is created, polled, woken, expires or is
dropped; a close takes the sender, waits for the worker and closes the driver.

A release request is one step that is confirmed, fails or (when the profiler
panics) unwinds: that a request ends, and how, is the subject of
`JsonRpcConnection`. The waker of a drain and the parker of `block_on` are one
step, `DrainHears`. The set of handles is finite, so submissions come to an
end; `NothingWaitsForever` says nothing of a client that submits for ever.

| run | instance | question |
|---|---|---|
| `releases` | two handles, a drain, two closes, one slot, failures, panics, fairness | a drain that succeeds is right; the counter is exact; every lease is given back once; no wake-up is lost and no lease forgotten |
| `release_failed_close` | the same with one close | finding 3 |

With one slot, two handles have one release in the worker's hand while the
other is queued, and one queued while the other overflows on its own thread.
Two closes compete for the worker's message. Two drains beside each other are
too many for liveness; the safety properties are proved for any number.
Fairness is that of threads that have begun a release, of the worker, of a
woken drain and of a close under way; nobody is made to drop a lease and no
deadline has to pass. `AnyPanic` excepts what finding 3 and the hazard below
it are about.

`SnapshotReleaseProofs` proves `TypeCorrect`, `DrainSound`, `CounterExact` and
`EachReleasedOnce` for any finite set of handles and any sets of drains and
closes. `TypeOK` contains `Buffered` (the channel has the handles sent and not
taken, each once), which the types need to be inductive. `WorkerInv` ties the
worker to the handle it releases; `CoverInv` is the reason why a drain may
trust the counter: while a drain listens, each handle submitted before it is
confirmed, or still unfinished, or an error is recorded, and a waiter that
hears `"ok"` is woken only at zero. The counter is exact until a panic resets
it (`PendingCountsUnfinished`), which needs the theorems about cardinalities of
finite sets. `NothingWaitsForever` is model-checked only.

Finding 3: `ApiClient::close` returns at the `?` after the release queue when
its worker has panicked, and the driver, its connection and its process stay
open. `"abandoned"` marks a release whose own thread panicked: its count never
comes down and every later drain waits for its deadline; no comment promises
otherwise, so it is a hazard and no finding.

A remark short of a finding: `wait_for_worker` releases its lock between
receiving the worker's message and removing the receiver, so that a second
close in that window is told that the queue is closed, and leaves the driver to
the first. The model has the window (`done = "received"`).

## 5. Documents of the LSP client

`LspOverlay` models `corsa_lsp/src/lsp/overlay.rs`. `open` is three steps:
`CheckAbsent` under the read lock, `SendOpen` without a lock, `InsertDocument`
under the write lock; `close` is `RemoveDocument` and `SendClose`; `change`
(which `replace` calls) holds the write lock throughout and is one step. The
connection keeps the order of notifications, so the server is shown as it will
be when it has read what is queued, and each notification is a step of the
server. A notification may be refused at any time (a full queue), and always is
once the connection is closed (`Disconnect`). Two history variables observe:
`complaints`, what the server cannot place, and `apart`, whether a change or a
didClose that did not reach the server has set the two sides of a document
apart. `VirtualText` has the edits: texts are sequences of a plain character, a
character of two UTF-16 units, a newline and a carriage return, positions are a
line and a number of UTF-16 units, and `ByteOffset` walks the text as
`byte_offset` does. `VirtualDocument` is the life of one document, with the
other side's reading of the same changes on UTF-16 units as the reference.

`DocumentSequence` says what a server may be sent, without overlay, locks or
texts: open, change to a higher version, close; a close may get lost, and then
the document may only be opened again.

| run | instance | question |
|---|---|---|
| `documents`, subject `overlay` | two editors, two documents, one owner each, both edit both; any notification refused; a list whose second change fails | `Synchronized`, `ServerBehind`, `ValidSequence`: `DocumentSequence` is implemented |
| `documents`, subject `document` | every text of up to three characters, every range within and past it, pairs of edits | `ReplayAgrees`: a server that replays the edits ends with the same text, and what is refused is what no server could replay |
| `overlay_shared` | two editors open the same document | finding 4 |
| `document_lines` | a document alone | finding 5 |

Texts of up to two characters and versions up to 3 let the two sides differ in
text, in version and in whether a list of changes applies. Three characters
have every neighbourhood of a wide character, a line end and the end of the
text.

`DocumentProofs` proves `TypeCorrect` for any constants, and with `Exclusive`
(each URI is opened and closed by one editor at most, the use the code is safe
for; anybody may change it) `Behind`, `InSync` and `Refinement`. `IInv` says
where a document is while its owner opens or closes it: out of the overlay, and
open on the server exactly between the two notifications. `InStep` adds that
the server has nothing more than the overlay but documents whose didClose was
refused. Nothing is assumed of texts, so these theorems do not rest on how edits
work.

How edits work is `ReplaysAgree`, for any texts and batches of any length whose
positions are natural numbers (`DocumentAssumption`): a server that replays a
batch on UTF-16 units ends with the units of the document's text, and there is
nothing for it to end with exactly when the document refuses. The argument goes
from characters to batches:

* the units of a text are those of its characters one after the other, and the
  units of two texts joined are theirs joined, so a splice of characters is a
  splice of units wherever both ends are where characters start;
* the units at which a position may be read are such places, since none is
  between the halves of a pair, and a position names one at most;
* the scan of `byte_offset` knows after each character the line and the column
  of the place it has reached (`Underway`); it stops at the place that is named, and
  where it refuses there is none;
* so one change acts alike on both sides, and by induction over the batch all of
  them do. What an accepted change leaves is a text again, so the next one finds
  the same units; after a refused one there is nothing left on either side.

`DocumentTypes` has the types, and that no call raises the version twice.

Findings: 4, `open` tests and inserts apart, so two threads that open one URI
both send didOpen, against "valid didOpen / didChange / didClose sequences";
5, `byte_offset` ends lines at LF only, against "standard LSP UTF-16 coordinate
rules". Short of findings: a change that the full queue refuses stays in the
overlay, and a list that fails half way keeps its first edits with the old
version and without an event; `apart` marks both, and `Synchronized` says that
they are the only ways to drift and that a new didOpen or didClose ends them.

Not modelled: overflow of the 32-bit version; two overlays on one client, which
do not see each other; documents built by `from_item` with a version of their
own.

## 6. Updates, single flights, the MessagePack worker and shutdown

Four parts of the clients, in the run `client` (`MCClient`).

`SnapshotLineage` is what an update does (`derive_snapshot` and
`SnapshotLineage` of `snapshot.rs` and `client.rs`). `BeginUpdate` to `Park`
and `Wake` are the poll of the gate in a `block_on` of its own: `ClearNotified`,
`Poll`, `Park` are the parker's steps, `OpenGate` a dropped permit that takes
the wakers and calls them one by one. Then `ReadBase` takes a lease of the head,
`Answer` is the server's (a new snapshot with the change, and a delta against
the base), `Commit` merges the delta as `merge_projects` does and replaces the
head. Strong counts are not kept: whoever stops naming a snapshot last queues
its release (`DropLeases`), and `SnapshotRelease` says what becomes of it.
`RawTest` and `RawSend` are `release_handle` with an id, and `ClearLineage` is
what a close does to the chain.

`Singleflight` is `initialize` and `describe_capabilities`: `Lead`, `Join`,
`Land`, `Send` to the waiters, and for each waiter the thread that hears the
channel and the parker it wakes. A leader may fail or panic.

`MsgpackWorker` has the bounded channel, the thread (`TakeRequest`,
`ReadsAnswer`, `ReadsEnd`, `Stop`, `Exit`), requests that time out and kill the
child, and closes, which send `Shutdown` if there is room, kill the child and
join. The child may answer, hang or exit.

`LspShutdown` is the coordinator: the clone that finds the phase open runs
`Protocol`, `Transport`, `TakeChild`, `WaitChild`, `JoinReader`, `Finish`, each
of which may fail and some of which may panic; the others wait and return its
verdict; `DropClone` and `DropGuard` are the drops of the last owner.

| property | says |
|---|---|
| `SnapshotsAccounted` | a leased snapshot is on the server unless a raw release named it, an update finds its base there, and no snapshot stays that nobody can release |
| `ChangesAccumulate` | the head has every update since the chain began, and the client's list of projects is the server's |
| `FlightsApart` | one request is in the air at a time, and each waiter gets the outcome of the flight it joined |
| `AnswersOwed` | a request that waits is in the channel or in the thread's hands |
| `ClosedMeansReaped` | after any close has returned the thread is gone and the child reaped |
| `OneShutdown` | one clone attempts, it asks the server once, all are told the same |
| `OkMeansReaped` | a close that reports success has reaped the child |
| `CallersReturn` | updates get the gate, joiners hear, requests and closes of the worker end, clones return; the exceptions (a leader or an attempt that panicked, a request without deadline on a worker that nobody closes) are part of the statement |

Bounds: three updaters and two updates begun, so that one holds the gate, one
waits and one releases; two projects, so that a delta can leave one alone; three
joiners, so that one leads, one waits and one comes later, and two flights, so
that a failed one can be confused with the next; two requests, two closes and
one place in the channel, so that a request, a second one and `Shutdown` compete
for it; three clones, one that attempts and two that wait or come later.

Fairness: weak fairness of each thread that has a call under way, and of the
worker thread and the threads of waiters (`LineageFairness`, `FlightFairness`,
`MsgpackFairness`, `ShutdownFairness`). A request of a lineage ends by an
answer or an error, which `JsonRpcConnection` justifies; a leader's request
ends as well, unless it panics. The MessagePack child need not answer
(`ReadsAnswer` is not fair); a request with a deadline ends at it at the latest.
Where every call is made once, returning is stated as
`<>[]`: in the end nobody is waiting.

Proved, for any sets and bounds:

* `ClientProofs`, the lineage: `SnapshotsAccounted` and `ChangesAccumulate`, from
  `LineageInv`. `Gated` says that whoever has read the head holds the gate until
  it has replaced it, which is why no change is lost; `Leased` and `Raw` that
  only a snapshot nobody names is queued and that what is leased is alive or
  was released by name; `Answered` and `Listed` that an answer on its way
  differs from its base by its delta. Assumes `LineageAssumption`.
* `ClientProofs`, the worker: `AnswersOwed` and `ClosedMeansReaped`; `Closing`
  says how far each close has brought thread and child. Assumes
  `MsgpackAssumption`.
* `ClientProofs`, the shutdown: `OneShutdown` and `OkMeansReaped`, from
  `ShutdownInv`: `Attempt` (whoever attempts has set the phase to closing),
  `Verdicts` and `ChildAccounted` (where the child is at each point of the
  attempt).
* `ClientProofs`, the flights: `FlightsApart`, from `FlightInv`. `OneInTheAir`
  says that a flight in the air is the latest, has one leader and the cell open
  for it, and that only a flight that succeeded leaves the cell filled; `Heard`
  that whatever a caller has of its flight, in a channel, a thread or a parker,
  is the outcome of that flight.
* `ClientTypesCorrect`: `TypesOK` of the run, in which each part behaves by its
  own specification, whichever is at work (`PartsBehave`).

`CallersReturn` is model-checked only.

Not modelled: a fork of a lineage, which shares none of this; futures dropped
half way, since `block_on` drops none; the framing of MessagePack tuples and the
callbacks served during a read. Remarks short of findings: answers of the worker
carry no id and are matched by method name, so that a tuple nobody expects can
set requests and answers apart; a request that timed out may have been served; a raw
release on a fork may name a snapshot that its sibling still leases.

## 7. The orchestrator

Three parts in the run `orchestrator` (`MCOrchestrator`).

`OrchestratorCaches` is one of the three bounded maps, chosen by `kind`:
snapshots, results (which expire) or the affinity of projects (which a shutdown
clears). `Insert` touches the map, `Remember` takes the lock of the order list,
`PopOldest` and `Evict` are the rounds of its loop with the map's lock inside,
`Invalidate` and `Unlist` touch the map first and the list afterwards.
`WorkerFleets` is one profile: a call fetches the fleet and keeps it while
others change or unmap it. `Spawn`, `Accept` and `CloseExtra` are the loop of
`prewarm`; `Lease` and `LeasePinned` the two leases; `TakeClients`, `ForgetPins`,
`CloseNext` the shutdown. `BatchExecutor` is `execute_all`: `Feed`, `CloseWork`
and `Collect` of the caller, `LockReceiver` to `Report` of a worker. Its
specification, `BatchPromise`, has neither workers nor channels: a batch
returns every output at the place of its input, or an error of a task that
failed.

| property | says |
|---|---|
| `EveryEntryEvictable` | every entry is listed, once, or someone is about to list or remove it, unless its fill overtook an invalidation of its key |
| `WithinBound` | a map is within its bound whenever no fill is under way |
| `WorkersAccounted` | no fleet exceeds its maximum, no worker that was asked to close can be leased, none is forgotten |
| `FleetServes` | a prewarm delivers and a lease finds a worker, unless a shutdown overlapped the call |
| `AffinityKept` | a project keeps its worker while it is in the fleet and pinned |
| `NoInputLost` | every input is in one place |
| `KeepsPromise` | `BatchPromise` is implemented |
| `CallsReturn` | calls of all three end |

Bounds: two keys, two callers and a bound of one make every fill evict or be
overtaken; two workers, two fleets and three spawns let a second prewarm find
the fleet full, and a second fleet replace one that was shut down; two workers,
three inputs and a queue of one let the caller block, a worker wait for the
receiver and results arrive out of order.

Fairness: of each call under way and of each worker. That of the caches is
strong (`CacheFairness`): a caller that finds the lock of the order taken gets it
in the end if it keeps becoming free, as a mutex of the system gives it.

`WorkerFleets` keeps the round robin counter modulo `Period`. Every size that a
fleet can have divides it (`FleetAssumption`), so each choice is that of the
code's counter; where that one wraps, at 2^64, is not modelled.

Proved, for any callers, keys, workers and bounds:

* `OrchestratorProofs`, the caches: `EveryEntryEvictable` and `WithinBound`
  (`CacheAssumption`). The bound does not follow from the loop: it may run out of
  listed keys while the map is too large, because invalidations drop listings of
  entries put in meanwhile. `BoundInv` counts: while the list is free, all
  entries but those of unfinished fills fit the bound (`FreeFit`), hence at most
  that many can ever lose their listing (`UnlistedFit`), and these are what the
  loop leaves.
* `OrchestratorProofs`, the batch: `NoInputLost` and `NoRerun` (a task runs once
  for each input), for any workers, inputs and capacity (`BatchAssumption`): an
  input moves from channel to worker to results (`Places`, `Busy`, `Once`,
  `Somewhere`, `RanOnce`). `BatchKeepsPromise` is the refinement of
  `BatchPromise`: `Phases` maps the caller's progress to the promise's,
  `ReturnedValue` says what the collected results are worth, and
  `SortedOutputs` that sorting by input gives the outputs in order.
* `WorkerFleetsProofs`: `WorkersAccounted`, `FleetServes` and `AffinityKept`,
  from `FleetInv` (`FleetAssumption`). `OneOwner`: a worker is in one fleet or in
  the hands of one call; `Fresh`: what a prewarm offers is the one worker it
  spawned, and nobody has seen it. It is accepted under the lock that looks for
  room, or closed. `Noticed`: a call whose fleet is no longer the mapped one was
  overlapped by a shutdown, the only excuse for a lease that finds nothing.
  `PinAgrees`: the pin of a project points to the worker it was given while
  that is in the fleet.
* `OrchestratorTypesCorrect`: `TypesOK` of the run.

`CallsReturn` is model-checked only.

## 8. The session of the linter, checker batches and span maps

Three more subjects of the run `documents` (`MCDocuments`).

`CheckerSession` is one session (`session.ts`). A query is `Ask`, then `Spawn`
or `Describe` where there is no client, `Prepare` (the test for staleness of
`refreshIfNeeded`), `Update` (a new snapshot, the text as an overlay where it
differs from the disk, and all that was remembered forgotten), `KnowFile` and
`Answer`. `Refuse` is an error of the server, `Recover` the new worker and the
second attempt after a death, `EditFile` and `WorkerDies` the world. Queries are
synchronous, so there is one at a time. `AnsweredFromOverlay`: whatever dies or
refuses, a query is answered from the text it came with where that is not the
text on disk, what is remembered of a file is what the server has, and the
server keeps one snapshot. The bounds are two files, because forgetting needs
another one, two texts, and one edit of each file.

Finding 6 (`session_stale_overlay`): a test expects the overlay of a file to be
deleted when it is queried with its text on disk. A refresh for another file
forgets that there is an overlay, so it stays, and the query is answered from
it.

`SpanMap` is built segment by segment and looked up at every place and range.
`SpanLookupsAgree`: each lookup finds what a look at all segments would, a
range is exact just when one verbatim segment covers it, and then maps there and
back; nothing is found twice. The tree is modelled as in the code, nodes and
limits included. Virtual texts of four units and originals of two, with up to
three segments, have empty, touching, equal and nested originals and a tree with
a padded leaf. A range one unit past the end of the last segment counts as inside
it, and the reference (`CoversUpTo`) says so. The `*_for_feature` wrappers and
the serialized form are left out.

`CheckerBatch` merges up to three queries: for positions in one file and for
types of symbols, with items that repeat and are shared, and direct ones.
`EachGetsItsOwn`: each gets what it would alone, in its order. An error of a
merged request is shared by all its queries, as in the code.

All three are sequential, and nothing of theirs is about fairness.

`CheckerProofs` proves, for any files, texts, edits and deaths
(`SessionAssumption`), `SessionTypeOK` and `AnsweredFromOverlay`, from
`SessionInv`: what the session remembers of a live worker is what the server
has (`InTouch`), and it remembers nothing of a dead one (`Forgetful`); no
overlay is wanted of a server that takes none (`Wanted`). For any queries and
any length of a batch (`CheckerAssumption`) it proves `EachGetsItsOwn`, from
`BatchInv`: every query has its answer, a request or a group (`Placed`); a
request has all the items of the queries that its routes lead to, in the file
they ask about (`RoutesFit`, `GroupsFit`), and no other request asks for the
same (`FilesApart`, `RequestsApart`), so that a query fails only with its own.
What `Coalesce` builds step by step is shown by induction over the steps
(`Climb`), which rests on least elements of sets of naturals.

`SpanProofs` proves `LookupsCorrect`, that every lookup finds what a look at all
segments would, for any number of segments, any positions, and any segments as
a mapper promises them (`SegmentAssumption`: a part of the virtual text that is
not empty, of the same length as its original if it is verbatim; `NewSpanMap`
lets them share no unit of it). `SpanMap::new` checks none of that, its binary
searches take it for granted. `SpanLookupsCorrect` is the same in the composition.
The parts of the argument:

* `InVirtualOrder` is the invariant: the segments are in the order of the virtual
  text and share no unit of it. So what a binary search lands on is the only
  segment that can cover the position, the fidelity of a range can be read off
  the segments at its two ends, and what is exact maps back to where it came
  from.
* The original index is a permutation of the segments, sorted. Of the leaves
  under a node the left half is the left child's and the right half the right
  child's (`LeafRanges`), and a node says the greatest end of its leaves
  (`MaxEnds`); so what `Skipped` passes over has nothing that is asked for, and
  what is collected are the leaves below the limit that end late enough, in
  order and each once.
* The lookups cut that list where starts become too large, so they find the
  segments around a position, all and each once.

Not modelled of the session: the lookups of types and symbols, and
`getContentMapping`, which without a text deletes the overlay and makes a new
snapshot while handles of the old one are about. The mtime and the text of a
file are read in one step; the code takes the mtime first, which is the safe
order. The lifetime of the cache may have run out at any query. Remarks short of
findings: a file that changed on disk is taken for unchanged when a refresh for
another made the session forget it in between; an error of `describeCapabilities` counts as "no overlays" until the
session starts again; `#fatalTransportError` outlives `close`; an error of a
release or close ends the close of a session early, and that of the Rust
binding (`bindings/nodejs/corsa_node/src/api_client.rs:1654`) returns before the
client is closed.

## 9. What is proved and what is only checked

| module | theorems about properties | only model-checked |
|---|---|---|
| `JsonRpcConnection` | `TypeOK`, `FailedTransportStrandsNobody`, `PendingIsWaitedFor`, `KeepsPromises`, `CloseWaitsForWriter`, `CleanStopLosesNothing`, `AtMostOneReply`, `CloseFailsOnlyInOverlap` | `ThreadsReturn` |
| `SnapshotRelease` | `TypeOK`, `DrainOkMeansReleased`, `PendingCountsUnfinished`, `GivenBackOnce` | `NothingWaitsForever` |
| `LspOverlay` | `TypeOK`, `ServerBehind`, `Synchronized`, `ValidSequence` | - |
| `OrchestratorCaches` | its types, `EveryEntryEvictable`, `WithinBound` | its calls return |
| `WorkerFleets` | its types, `WorkersAccounted`, `FleetServes`, `AffinityKept` | its calls return |
| `BatchExecutor` | its types, `NoInputLost`, `KeepsPromise`, and that no input runs twice | it returns |
| `SnapshotLineage` | its types, `SnapshotsAccounted`, `ChangesAccumulate` | updates return |
| `Singleflight` | its types, `FlightsApart` | joiners hear |
| `MsgpackWorker` | its types, `AnswersOwed`, `ClosedMeansReaped` | requests and closes return |
| `LspShutdown` | its types, `OneShutdown`, `OkMeansReaped` | clones return |
| `CheckerSession` | `SessionTypeOK`, `AnsweredFromOverlay` | - |
| `CheckerBatch` | `EachGetsItsOwn` | - |
| `VirtualDocument` | `DocumentTypeOK`, `ReplayAgrees` | - |
| `SpanMap` | `LookupsAgree`, in the run `SpanLookupsAgree` | - |
| the compositions | `TypesOK` of `MCDocuments`, `MCClient` and `MCOrchestrator` | - |

What stays with TLC is liveness, `ThreadsReturn`, `NothingWaitsForever`,
`CallersReturn` and `CallsReturn`: it rests on fairness, that is on when actions
are enabled, which the prover does not reason about. The properties of the runs
that expect a violation are false and have no theorem.

What the code computes by recursion or in a loop is modelled by recursive
functions, not by `RECURSIVE` operators, which the prover cannot use. That such a function
exists, and has the values its definition says, is itself proved: over lists
from the left (`Recursion`), in the tree from the leaves (`TreeRecursion`) and
from the root (`Descent`). The library's induction theorems take an operator as a
parameter and cannot be used; the inductions are over sets of naturals (`Climb`,
`ClimbTo`, `TreeInduction`), from the least element of such a set. The theorems hold for every
value of the constants that the named assumptions admit, and TLC evaluates
those.

## 10. Not modelled

Most lines of the repository are outside the models, for what they are: lint
rules and type text helpers are pure predicates over syntax; the typed API
methods, the driver and the wrappers of eight languages convert and forward one
request each; the mock server and the benchmarks are test code; the reference
manager is git and files in one thread; a project session has one owner. Within
the modelled parts, besides what the sections say: failure to spawn a thread;
the bytes of frames; the overflow of a document's 32-bit version; the reply to a
request of the peer, which is dropped silently when the outbound queue is full.

## 11. How to check

`tlc -config <cfg> <module>`:

| module | configurations |
|---|---|
| `MCJsonRpcConnection` | `JsonRpcCalls`, `JsonRpcClosers`, `JsonRpcCloseMissesCall`, `JsonRpcStuckWriter` |
| `MCSnapshotRelease` | `SnapshotReleases`, `SnapshotReleaseFailedClose` |
| `MCDocuments` | `Documents`, `LspOverlayShared`, `DocumentLines`, `SessionStaleOverlay` |
| `MCClient` | `Client` |
| `MCOrchestrator` | `Orchestrator` |

Proofs: `tlapm <module>.tla` for `JsonRpcConnectionProofs`,
`SnapshotReleaseProofs`, `DocumentProofs`, `SpanProofs`, `CheckerProofs`,
`ClientProofs`, `WorkerFleetsProofs` and `OrchestratorProofs`. The runs stop where everything has been done, so
deadlock is not an error in them; what must go on is stated as liveness.
