# A TLA+ model of codeg

codeg indexes a source tree into a SQLite graph, keeps the index fresh while
files change, and serves it to MCP clients, usually through one shared daemon
per project. This directory holds TLA+ specifications of the parts where
processes, threads, timers, callbacks and the file system interleave, the TLC
configurations that check them, and proofs that the TLA+ proof system checks.

`PROJECT.json` lists the components, the runs, the map from definitions to
source lines, the hazards and the theorems. Paths below are relative to the
repository.

    tlc -workers 2 -config MCWatcher.cfg MCWatcher     # one run
    tlapm WatcherProofs.tla                            # one proof module

## 1. Inventory

| Component | State | Operations | What is hard | Correct when |
|---|---|---|---|---|
| File watcher, `src/sync/watcher.ts` | watches, pendingFiles with lastSeenMs, needsFullScan, the timer, syncing | start, stop, event handlers, flush, the end of a sync | events that arrive during a sync, failed and refused syncs, vanished directories, restarts | a reported change is remembered until it is indexed, and it is indexed in the end |
| Parse worker pool, `src/extraction/parse-pool.ts`, `parse-worker.ts` | queue, idle stack, in-flight jobs, pending workers, crash count, readiness waiters | prewarm, waitUntilReady, requestParse, recycleAll, destroy, worker events, soft and hard timeouts | crashes, late results, spawning that fails, an exhausted budget | every job is answered once, by the pool or by an error |
| Write lock, `FileLock` in `src/utils.ts` | a lock file with a pid, `held` | acquire, release | stale locks, killed owners, check-then-unlink | one writer of the database at a time |
| Daemon arbitration, `src/mcp/daemon.ts`, `src/mcp/index.ts` | pidfile, socket | take the pidfile, clear a stale one, listen, stop | candidates that race, a daemon that stops while its successor starts | one reachable daemon per project |
| Daemon clients, `src/mcp/daemon.ts` | clients, peer pids, idle timer, lastActivityAt | connect, hello, drop, reap, idle stop, backstop | a client that leaves during its hello, lost close events, dead peers | an unused daemon ends, a used one does not |
| MCP proxy, `src/mcp/proxy.ts` | daemonStatus, pending and in-flight lines, localToolCalls | requests and cancellations, connect, data, loss of the daemon | the daemon is lost, or never comes, with requests under way | every request is answered once, a cancellation finds its call |
| MCP engine, sessions, tools, `src/mcp/engine.ts`, `session.ts`, `tools.ts` | initPromise, default and cached instances, catchUpState | initialise, retry, roots, tools/call, the gate and its budget | overlapping openings, syncs that fail or are shut out, gates that are replaced | an answer is as fresh as it claims, and it comes |
| Sync pipeline, `src/extraction/index.ts`, `macro-context.ts` | file rows, macro manifest and its pending marker, globalMacroManifest | sync, indexAll, indexFile | files that change while they are read, incomplete runs, crashes | the index is that of the disk and of the project's macros |
| Edges and references, `src/extraction/index.ts`, `src/index.ts`, `src/resolution/index.ts` | nodes, edges, unresolved_refs with its pending and failed rows, the resolver's caches | storeExtractionResult, rewireEdges, removal, the passes of sync | what a store deletes belongs to other files; crashes between transactions; stale caches | no reference is dropped silently, no edge is false |
| Full index, `src/index.ts`, `src/extraction/index.ts`, `src/db/index.ts` | bulk windows, phases | indexAll, open | composition of the next three, crashes inside a window | it ends, and leaves the schema and the full-text index whole |
| Store writer, `src/extraction/store-writer.ts`, `store-worker.ts` | window of unacknowledged bundles, first error | send, waitBelow, drain, close | a worker that dies while the indexer waits | what was sent is stored or reported |
| WAL valve, `src/db/wal-valve.ts` | size baseline, pass in flight, pause | check, backpressure, drain, foldNow | a writer that appends during a checkpoint | the log stays bounded and the writer is not blocked for good |
| Resolver pool, `src/resolution/resolver-pool.ts` | workers, waiters, failed | resolveBatch, destroy, worker events, timeouts | dead and stuck workers, results in any order | a batch is resolved in row order or falls back whole |
| Graph, `src/graph`, and context, `src/context/index.ts` | none | searches, impact, cycles, the subgraph of a context | cycles, self-loops, depths and caps that interact | exact within the depth, closed under the caps |
| Creation and migration, `src/db/index.ts`, `migrations.ts` | schema, recorded versions | init, open | processes that create and migrate at once, deaths between statements | the recorded version is that of the schema |
| Queries, extraction, name matching, search, tools' formatting, CLI, installer | rows, syntax trees, configuration | queries and transformations | data, not order | outside this development, see section 6 |

The parts meet as follows. The watcher calls `CodeGraph.sync`, which takes the
write lock, runs the sync pipeline, resolves references and releases the lock;
a taken lock reaches the watcher as `LockUnavailableError`. The pipeline parses
through the worker pool and stores directly, or, for a fresh index, through the
store writer, while the WAL valve holds it back; resolution runs on the main
thread or on the resolver pool. The daemon owns an engine, the engine a CodeGraph
with its watcher; proxies reach the daemon through its socket and serve by
themselves without it.

## 2. Modules

| Module | Role |
|---|---|
| `Watcher` | the watcher, the tree it watches, the syncs it starts and those of others |
| `ParseService` | what the parse pool promises: a request is answered once; abstract |
| `ParsePool` | the pool and its threads; implements `ParseService` |
| `FileLock` | acquire and release, one system call a step |
| `DaemonLock` | the life of a daemon process around pidfile and socket, one system call a step |
| `DaemonClients` | the clients of a daemon, its timers and its end |
| `HostService` | what a host is promised: a request is answered once, in the end; abstract |
| `Proxy` | the local-handshake proxy, its socket and the session behind it; implements `HostService` |
| `Engine` | the shared engine, its sessions, the catch-up gate and the notices of answers |
| `SyncPipeline` | sync and indexAll of C-family files, with the macro manifest |
| `EdgeSync` | edges and references over syncs of several processes |
| `StoreWriter`, `WalValve`, `ResolverPool` | three components of a full index, as actions without a specification of their own |
| `IndexRun` | indexAll, which composes those three with the bulk windows, a crash and the open that follows |
| `Graph` | the edges table, its queries, and what is near a node: the definitions that searches are compared with |
| `Search` | the searches of the code graph, as actions over their local variables |
| `FileCycles` | the search for circular dependencies between files, likewise |
| `ContextSubgraph` | the subgraph of a context, which calls the searches of `Search` |
| `Traversal` | the specification of those three, over a graph that changes between searches |
| `DatabaseOpen` | creation of a database and its migration by several processes, one statement or transaction a step |
| `WatcherProofs`, `DaemonProofs`, `ProjectFilesProofs`, `ExtractionProofs`, `ProxyProofs`, `EdgeSyncProofs`, `IndexRunProofs`, `TraversalProofs` | theorems of the module of that name; `DaemonProofs` of `DaemonLock`, `DaemonClients` and `Engine`; `ProjectFilesProofs` of `FileLock` and `DatabaseOpen`; `ExtractionProofs` of `SyncPipeline` and `ParsePool` |
| `MC...` | an instance for TLC |

**Watcher.** `Write`, `Delete`, `RemoveDir` and `MakeDir` are the tree; they
queue the events that an OS watch would deliver. `HandleFile`,
`HandleMissingDir`, `HandleDirRecursive` and `HandleDirPerDirectory` are the
event handlers with all they call; `TimerFires` is the timer's callback up to
the call of the sync function, `SyncSucceeds`, `SyncIncomplete` and
`SyncLockUnavailable` the code behind its `await`, including the `finally` block
(`Reschedule`). The content of a file is the number of the change that wrote it.
`pending[f]` is the comparison of lastSeenMs with syncStartedMs, the only use
of both: an event during a sync is "new", or "old" if it shares the millisecond of
the sync's start. `listed` are the files that the sync found to exist when it began.
Two history variables name what the watcher lets go of although it was reported:
`skipped`, the files that a sync passed over since it could not stat or read them
(`SyncFileSkipped`), and `tied`, those whose last event came in the millisecond in
which the sync started. A later event of the file, or a sync that has it as pending,
takes it off both. `OtherSync` is a sync of another process.

**ParsePool.** JavaScript handlers run to completion: one action per method
that a caller reaches and per event, with everything it calls (`Drain`,
`SpawnOne`, `Settle`) as operators on a record of the pool's fields. They give
the set of records they may leave, since `createWorker` may throw. The threads
run on their own, and the pool hears of them by events delivered later, those
of workers it gave up included. `Service` maps the pool to `ParseService`.

**FileLock.** The variables are the lock file (`owner`, `written`, `aged`) and
per process the next system call, the pid it read and `held`. `Finish` is the
last database write of an operation; for `indexFiles` release comes before it.
`broken` records that an acquire removed the lock of a live process.

**DaemonLock.** From `Spawn` through `Link`, `ReadExisting`, `Judge`,
`ClearRead`, `ClearUnlink` and `Retry` to `UnlinkSocket` and `Listen`, then
`Stop`, `Closed`, `CleanupRead`, `CleanupUnlink`, `UnlinkSocketAgain`; a
process can crash at each of them. `races` records the two check-then-unlink
races, on the pidfile and on the socket.

**DaemonClients.** Takes over where `Listen` of `DaemonLock` ends, up to the
exit. `opening` are the connections whose hello is awaited, `clients` the set of
that name, `open` the sockets not destroyed. `Register` is the code behind the
await of the hello, which runs whatever became of the socket; `Drop` is
`dropClient` with the timer it arms. A close event may be lost (`deaf`), as on a
Windows pipe, which is what the sweep (`ReapDeadClients`) and the backstop are
for. `silent` stands for `lastActivityAt` being old.

**Proxy.** `HostInitializes`, `HostLists`, `HostRequests`, `HostCancels` are
lines from the host; `RouteToDaemon` and `HandleLocally` are operators. Ids stand
for lines. `buffered` and `serving` are the loop of a failed start, which awaits
each line (`ServeBuffered`), while the loss of a daemon serves what is in flight
at once (`OnDaemonLost`). The session of the daemon takes lines in order and
answers calls in any order; when the daemon dies, its last answers may or may not
arrive. `HostService` is the abstract specification: a host asks, each request
is answered once, in the end, unless the host leaves.

**Engine.** Instances of CodeGraph are numbered as they are opened, and so are
their gates. `Opened` is what both `doInitialize` and `retryInitializeSync` do
with a project: default instance, watcher, catch-up sync, gate. The watcher is tried
once and may be unwanted, disabled or refused. The sync holds
the lock or is shut out of it; it ends well (`CatchUpDone`), perhaps passing over
a file that it cannot read, fails, returns zeros
(`CatchUpSkipped`), or never returns. `behind` says which edits the index misses:
those of which there is no record ("untold"), those whose event has not arrived
("unheard", and it may never arrive) and those the watcher has pending ("heard").
A call passes the gate (`RunTool`), runs while files are edited, reported and synced,
which `missed` follows, and is answered (`Answer`): the answer names some of the files
it may miss edits of, and those of them that are still pending get the notice.

**SyncPipeline.** There is one macro. The content of a file, again the number
of a change, stands for its bytes and for its size and mtime. A row records the
content it was parsed from, the stat stored with it, and what the macro meant.
`Begin` to `NothingToDo` are the reconcile and the macro context, `ReadFile`,
`Stat` and `Store` the batch, `Publish` and `Unmark` the two metadata writes in
their order. `Reconcile` may pass over a file that differs, since a file that cannot
be statted or read is no error (`skipped`); the scan that begins a sync may not find a
file, since neither is a directory that cannot be read; a scan of the manifest may miss
any headers, for the same reasons (`Scans`). `BeginIndexFile`, `EnsureMacros` and
`StoreIndexed`, with `Stat` and `ReadFile`, are `indexFile`, for `indexFiles` and for the
fallback of `sync`: it takes the macros in memory, or those of a scan, stores one row
and leaves marker and manifest alone. `Throw` is an exception anywhere, which leaves
`globalMacroManifest` (`mem`) as it is; `Crash` loses it, and may hit
`storeExtractionResult` between deletion and insertion. `causes` names what the
code does not cope with: an edit between two reads of a file ("edit"), a
candidate in memory that was not published ("memory"), a header without a row
("rowless"), a header reverted after a run that was cut short ("reverted"),
indexAll over an existing index ("indexAll"), a header that a scan could not read, or a
user of the macro that it did not find ("unread"), and a row that `indexFile` writes unmarked though the stored manifest does not
describe it ("unmarked").

**EdgeSync.** A reference is a pair of a file and a name; it is pending, parked as
failed, or an edge. `Resurrect` and `Delete` are the removal of a file,
`StoreFile`, `InsertNodes`, `InsertRefs`, `Rewire` and `RecordFile` the transactions
of `storeExtractionResult`, `Cascade` what SQLite deletes with a node. The passes
`ResolveChanged`, `ResolveResurrected`, `RetryFailed`, `Fallback`,
`ResolveFallback` and `Sweep` are those of `CodeGraph.sync`, in its order; `Persist`
is `resolveAndPersist` with the caches that the process of the sync has. Which of
several nodes of a name is taken is left open, and so is, for the references in
`Doubtful`, whether any of them suits; `refused` is what such a reference was offered.
`StoreUnchanged` is the early return for a file that is again what is stored, which
counts as changed all the same. The history variables name
what the code does not cope with: `forgiven` (edges that only memory held in a
crash, and files the fallback could not read), `forgotten` (files that the
fallback itself recorded), `overlooked` (files to be stored again that count as changed
and were not stored), `missed` and `dropped` (stale caches after the fallback); and what
it leaves out on purpose: `unnamed` (edges without a refName, of which no reference
can be made) and `popular` (names with more failed rows than the retry takes).
`SyncPipeline` says which files are stored, `EdgeSync` what storing them does.

**IndexRun.** `pc` is the await, or the statement, that the main thread has
reached. `OpenWindow` opens the bulk windows, one statement after the other, each of
which may throw (`OpenThrows`); `BeginLoad` to `SecondPass` are the store phase, with back-pressure
(`Park`, `MayStore`), the window of the writer (`HasRoom`), files that fail, the
retry pass, an abort and exceptions; `EndParseLoad`, `EndNodeLoad`, `Fold` the end
of the bulk windows; `BeginResolution` to `EndResolutionLoad` the batched loop of
the resolver with its `finally`. The three component modules supply the actions
between the steps of the main thread (`WriterRuns`, `WriterEvents`,
`ValveEvents`, `PoolEvents`); their variables are those of `IndexRun`. Frames stand
for bytes of the log. `Crash` kills the process with its threads, `Heal` is
`DatabaseConnection.open`, `GuestOpens` the same by another process in the middle
of a run. A first index that has no valve keeps its journal in memory: a crash
inside one of its transactions may leave it `torn`.

**Traversal.** Searches are synchronous, so that at most one runs; its local
variables are the state of `Search`. `TakeStep` takes a node off the queue of
`traverseBFS` or `findPath`, `QueueNeighbour` looks at one edge of the node that is
being expanded; `Look` does so for the innermost call of a recursive function,
enters the call for the other end unless `Refused`, and `Leave` returns from it, so
that `stack` is the call stack. `CalleesNext` and `DescendantsNext` begin the second
half of `getCallGraph` and of `getTypeHierarchy`. Queries promise no order, so the next
edge is any that is left, for the BFS any of the least `Rank`: the kinds are sorted,
the rest is not. A member is as deep as its container.

`FileCycles` has the same form: `NextFile` is a round of the outer loop, `Follow` the
call of `dfs` for a dependency, `ReturnFromDfs` its end. `ContextSubgraph` asks for
the hierarchies and traversals of `findRelevantContext` one after the other
(`AskHierarchy`, `AskTraversal`), adds what they found, then trims, caps and filters;
where the code keeps the first nodes of a map, any may be kept. `Insert` adds an
edge while nothing runs, so that every graph up to the bound is searched.

**DatabaseOpen.** A part of the schema is the number of the migration that adds it
to an older database. `CheckAbsent`, `CreateFile`, `ExecSchema` and
`RecordCurrent` are `init`: the look for a database, the file, the statements of
schema.sql that matter, one by one, and the row of the version. `CheckPresent`,
`ReadVersion`, `Migrate` and `Refuse` are `open`: the version is read once, and
each migration is a transaction with its row; `Applies` says when its statements
succeed. `Leave` is a death, a close, or another error. `created` tells a database
of this release from one of an older release, which may have been made and last
opened by any two releases (`Init`). What `open` heals afterwards is `IndexRun`'s.

## 3. Runs

| Run | Shows |
|---|---|
| `MCWatcher` | NoReportedChangeForgotten, WorkIsScheduled, IndexingIsHonest, and EventuallyIndexed under fairness |
| `MCParsePool` | JobsAccounted, NoneStranded, and the implementation of `ParseService`, its liveness included |
| `MCFileLock` | ExclusiveUnlessBroken, LockNotLeaked, DeadLockIsCleared |
| `MCDaemonLock` | OneDaemonUnlessRaced, StartFindsNoDaemon, ReachableUnlessRaced, StalePidfileIsCleared |
| `MCDaemonClients` | IdleTimerIsRight, LivePeerIsKept, UnusedDaemonLeaves |
| `MCProxy` | AnsweredOnce, NoRequestLost, CancelIsHeard, and the implementation of `HostService`, its liveness included |
| `MCEngine` | StaleAnswersAreMarked, EveryCallAnswered |
| `MCSyncPipeline` | UnmarkedManifestIsTrue, FullSyncRepairs |
| `MCEdgeSync` | NothingIsLost, EdgesAreTrue, ParkedWasOffered, PassesSeeTheDatabase |
| `MCIndexRun` | StoredBeforeResolving, FullTextIsTrue, RowsAdmittedInOrder, GrowthIsBounded, NothingLeftBehind, IndexRunEnds |
| `MCTraversal` | SearchesAreExact (the search for circular dependencies included), DependentsAreFound, ContextIsClosed |
| `MCDatabaseOpen` | SchemaIsAsRecorded, RefusalMeansProgress |

Every property of a passing run has a mutant: a definition in the module itself
that alters an action the way a bug would, and breaks the property. The type
invariants are theorems (section 5) or, where there is none, definitions that any
run may add (`TypeOK`).

**Bounds.** `MCWatcher`: a file in the root and one in a directory, three
changes, at most one file in a scoped sync (so that both kinds of sync occur),
a cap of two watches, the root's and the directory's (that the cap refuses a
watch is covered by the theorems only, which hold for every cap). Three changes
suffice for an edit before, during and after a sync.
`MCParsePool`: two jobs, pools of two, three worker identities (so that one can
be replaced while the events of the old one are still under way), a crash
budget of two, a recycle interval of one. `MCFileLock` and `MCDaemonLock`: three
processes, one to own, one to clear and one to slip in between; two attempts.
`MCDaemonClients`: three connections, one a client, one in its hello and one that
leaves. `MCProxy`: an initialize, a list, a ping and two calls, each of them
cancelled or not, so that one call can be under way at either end while the other
is buffered. `MCEngine`: two sessions, one of them with two calls; a daemon, where the
other session's initialisation is what overlaps, and direct mode, where a session may ask for roots. `MCSyncPipeline`: two headers, one of which uses the macro as well;
two changes, which define it otherwise, as before or, by a deletion, not at all; two of the
following: calls of indexAll, calls of indexFile, syncs that do not find every file. It
explores no further than the first cause, since its properties excuse what
follows. One batch is enough, as batches do not share state.
`MCEdgeSync`: three files, two names of which one may be ambiguous, moved,
removed or defined elsewhere; two processes, three changes, one crash: a change
before, during and after a sync of another process. A name is popular from its second
failed row on (500 in the code); one reference is doubtful, the edge of one has no refName. `MCIndexRun`: three files in a
window of two, three references in batches of two and chunks of one, on two
workers, a soft cap of one frame, two passes of a pause, one crash, in five
settings (fresh, with a valve, an old database with a log, a large one, one with a
guest); the phases hand over no state but the outcome, so that not every
combination of settings is needed. `MCTraversal`: every set of up to four of the
rows of `MCRows` over four nodes: cycles, self-loops, diamonds, members and subtypes;
depths of 0, 1, 2 and 4, where 4 cannot bind, limits of 2 and 5, where 5 cannot;
in the context one or two entry points, three nodes, one of each file and one of
tests. `MCDatabaseOpen`: three
processes, one to die, one to be overtaken and one to overtake; every pair of older
releases.
`CHECK_DEADLOCK` is off everywhere but in `MCDatabaseOpen`, where somebody can
always open: changes are bounded, processes end, and an idle watcher, pool or
daemon really stops.

**Fairness.** The watcher: delivered events are handled, armed timers fire
and syncs take their steps (weak fairness: the event loop runs); the lock is free
at some of infinitely many attempts and a file can be read at some of them (strong
fairness: other writers end and errors pass). Nothing makes the tree change.
The pool: worker events, timers and the loading of grammars progress, as long as
one of them is due; nothing is assumed of a parse, which may hang, since the
timeouts are there for that. The lock and the daemon: a process that is not killed
executes its synchronous code; nothing makes a daemon start, stop or crash. The
clients of a daemon: timers fire, a hello ends within its timeout, a close event that
is not lost arrives; nothing is assumed of signals or of clients. The proxy: the
connection attempt is bounded, both event loops run, and a tool call ends, here or
with its daemon; nothing makes a daemon die or a host leave. The engine: opening
ends, the client answers roots/list or its timeout passes, the budget expires,
settled promises resume and a tool returns; a catch-up sync need never return and an event never arrive. The full index: the
event loop runs and timers fire; a resolver worker may hang, which the chunk's timer is
there for. The store worker and the checkpoints are assumed to end what they do, or to
die: neither `drain()` (`store-writer.ts:144`) nor `checkpointWalPassive`
(`db/index.ts:443`) has a timeout, so that a run waits for one that hangs as long as it
does. The sync pipeline, the edges,
the searches and the migrations have safety properties only and assume no fairness.

## 4. Known disagreements

What a comment, a doc or a name of the code promises and the code does not do, as
TLC found it. Each is stated as a property in its module and is found violated
when it takes the place of the properties in the configuration named. A
`CONSTRAINT` of that configuration, which excludes what follows a known cause, is
left out for this:

| Property | Configuration | What happens |
|---|---|---|
| HierarchyHasDescendants | `MCTraversalHierarchy` | `getTypeDescendants` starts with the visited set of `getTypeAncestors`, which has the node itself: no descendant is ever found (`traversal.ts:375`, against 374 and `context/index.ts:942`) |
| SkippedFileIsKept | `MCWatcher` | a file that the reconcile cannot stat or read is passed over without an error; the sync counts as complete and the watcher drops the entry of the file, which nothing will index (`extraction/index.ts:2368`, against `watcher.ts:619-620` and 648) |
| MidSyncEventIsKept | `MCWatcher` | an event in the millisecond in which the sync started is taken for older and its entry dropped, whenever the sync read the file (`watcher.ts:656`, against 622-624 and 649-654) |
| RemovedDirAccountedFor | `MCWatcher` | a directory removed while a full scan runs: its timer fires during the scan and is dropped, the end of the scan clears needsFullScan (`watcher.ts:646`, against 628) |
| NewDirIsWatched | `MCWatcherNewDir` | a directory removed and created again before its event is handled keeps its key in dirWatchers and gets no new watch (`watcher.ts:336`, against 20) |
| WritesUnderLock | `MCFileLock` | indexFiles returns a promise from inside try/finally without await: the lock is released before the writes (`src/index.ts:620`, against `utils.ts:299`) |
| ServingIsReachable | `MCDaemonLock` | a stopping daemon unlinks the socket of its successor after it gave up the pidfile (`daemon.ts:248`, against 117) |
| ClientsAreConnected | `MCDaemonClients` | a connection that closes while its hello is read becomes a client that no close event will drop; only the backstop ends the daemon (`daemon.ts:268`, against the comment there and `transport.ts:332`) |
| NeverDoubleOpen | `MCEngine` | a session's retryInitializeSync opens the project while doInitialize awaits its open; the first instance is not closed, and the watcher stays on it (`engine.ts:119`, against 41-43) |
| SilenceIsHarmless | `MCEngine` | a pending file that the answer does not name gets no notice, though its edit may be what the answer lacks, such as a new caller (`tools.ts:1635-1643`, against 1583-1584, "they do not affect this result") |
| NoticeCoversTheRead | `MCEngine` | the pending files are looked up after the awaited handler: a file that the answer shows as it was before a sync has by then been synced, and gets no notice (`tools.ts:1776`, against 1579-1582) |
| StatVouchesForContent | `MCSyncPipelineStat` | sync reads a file and its stat together: a write in between is stored as old content with the new mtime (`extraction/index.ts:2619`, against 2355) |
| RetryNeverTrustsNewerContext | `MCSyncPipelineRetry` | the retry of an incomplete sync compares the candidate in memory with itself, re-parses nothing and clears the marker (`extraction/index.ts:2432`, against 2449) |
| IndexNeverTrustsNewerContext | `MCSyncPipelineIndexAll` | indexAll over an existing index skips unchanged users of a macro and publishes the new manifest (`extraction/index.ts:1788`, against 1786) |
| OnlyStatIsBlind | `MCSyncPipeline` | a full sync skips a file that it cannot stat or read, without an error, and leaves its old row (`extraction/index.ts:2368` and 2379, against 2356-2358) |
| ScanReadsCurrentBytes | `MCSyncPipeline` | the scan of a recovery leaves out the macros of a header that it cannot read, and the manifest is published, without the marker, over users parsed without them (`extraction/index.ts:970`, against 2450) |
| IndexFileIsMarked | `MCSyncPipeline` | indexFile stores a row with new contributions, or with other macros in memory than the stored manifest has, and sets no marker (`extraction/index.ts:1976`, against 2448-2450) |
| RecordedFilesAreStoredAgain | `MCEdgeSync` | what the stores of the co-importer fallback record for the fallback is not read again (`src/index.ts:748-783`, against `extraction/index.ts:2096`) |
| UnwiredAreStoredAgain | `MCEdgeSync` | a file that is back at what is stored when its turn comes is not stored but counts as changed, and the fallback leaves it out: the references that it lost in this sync come back with its next change only (`extraction/index.ts:2719` after 2044, against `src/index.ts:739-741`) |
| CrashLosesNothing | `MCEdgeSync` | the incoming edges of a file that is stored exist only in memory between its deletion and their rewiring (`extraction/index.ts:2051`) |
| CachesAreFresh | `MCEdgeSync` | the fallback replaces nodes that the caches of the passes before it hold; an edge to such a node is left out, its reference deleted (`resolution/index.ts:1057`) |
| GuestIsHarmless | `MCIndexRun` | a process that opens the database inside another's bulk window rebuilds the full-text index and restores the triggers; when the run then dies before its own rebuild, the next open finds the triggers and trusts the index (`db/index.ts:134`, against 107) |
| WindowsAreClosed | `MCIndexRun` | a DROP that throws halfway through opening a bulk window leaves what was dropped before it: the flag for the finally block is set after begin has returned (`src/index.ts:435` and 439, against `db/index.ts:119-120`; the resolver sets its own before, `resolution/index.ts:1221-1223`) |
| FoldBackfillsAll | `MCIndexRun` | foldNow returns at once when the size has not grown over the baseline, whatever is not backfilled (`wal-valve.ts:159`, against 150) |
| BaselineIsFolded | `MCIndexRun` | the baseline is the size after the checkpoint resolved, frames appended meanwhile included (`wal-valve.ts:195`, against 190-194) |
| CrashIsRepaired | `MCIndexRun` | a first index without a valve is written with its rollback journal in memory and unsynced: after a death inside a transaction nothing can repair it, and every open takes it for an index (`src/index.ts:395`, against `db/index.ts:107`) |
| OlderRecordIsTolerated | `MCDatabaseOpen` | `initialize` dies after schema.sql and before it records the version: version 1 stands over the current schema, migration 2 adds columns that exist, and every open throws (`db/migrations.ts:40-42`, against 112-114, which guards migration 8 only) |
| ImpactIsComplete | `MCTraversal` | with a depth, a node reached first on a longer way is not expanded again from the shorter one (`traversal.ts:534`, against 460) |
| LimitIsKept | `MCTraversal` | the limit of a BFS is looked at between steps only: one step adds all neighbours (`traversal.ts:65`, against `types.ts:420`) |

## 5. Proofs

The theorems hold for every value of the constants that the `ASSUME` of the
module admits.

* `WatcherProofs`: `TypeCorrect`, `AlwaysScheduled`, `NothingForgotten` and
  `IndexingHonest`. The inductive invariant adds `BeforeStart`: a watcher that does
  not run has been told nothing, and one that never ran owes no full scan. The two
  file properties need each other: that an entry may be dropped at the end of a sync
  follows from what `IndexingIsHonest` says of the entries older than the sync. That a
  sync may delete the row of a file that has come back since it began is right because
  the return was noticed after that (`LateIsNoticed`). Both excuse exactly the files in
  `skipped` and `tied`: the code does lose those (section 4).
* `ProjectFilesProofs`, on the files that processes share. The lock (`FileLock`):
  `LockTypeCorrect`, `NotLeaked` and `Exclusive`, for any number of processes. The
  invariant adds that `held` is set exactly while an operation
  runs, that a held lock has its pid written, and that until a live lock was
  removed the lock file is the holder's (`LockOfHolder`).
  The database (`DatabaseOpen`): `SchemaCorrect` and `AttemptsProgress`, for any
  number of processes. The invariant treats a database of an older release
  (`OldDatabase`: its parts are those up to the greatest recorded version, and whoever
  migrates it comes at most one after that version) and one of this release
  (`NewDatabase`: what its creators have executed is there, only versions 1 and 8 are
  recorded, and migration 2, with which every migration would begin, can never apply).
* `DaemonProofs`, on the three modules of the daemon, whose specifications have names of
  their own so that one module can extend them all. Arbitration (`DaemonLock`):
  `TypeCorrect`, `OneDaemon`, `StartIsSafe`, `Reachable` and `NoPidfileLeft`, for any
  number of processes. The invariant ties the pidfile to its owner, the socket to a
  daemon that serves, and says what each step of a start finds there. Clients
  (`DaemonClients`): `ClientsTypeCorrect`, `TimerIsRight` and the action property
  `PeerIsKept`, for any number of connections and any choice of timers. Besides the
  types and the timer itself the invariant needs that a client without a socket has left
  and that a socket without a live process has too (`ClientsAccounted`): it is why reaping
  a dead peer drops nobody who is there. Engine (`Engine`): `EngineTypeCorrect` and
  `StalenessIsMarked`, for any sessions and calls. The invariant counts openings: a second
  one needs an initialisation that was under way before the first ended and none begins
  after it, so there are two at most, the watched instance, if there is one, is the first
  and the default one the last (`OpenedTwiceAtMost`); an edit that a running watcher heard of is
  pending until the index has it (`EditsArePending`); once the gate is lifted no edit
  without a record is missing, short of the named causes
  (`GateMeansCaughtUp`); and both hold of what a running tool has read (`Reads`).
* `ExtractionProofs`, for a run over the files and the pool that parses them; `SyncPipeline`
  and `ParsePool` share no name, so that one module can extend both. Run (`SyncPipeline`):
  `TypeCorrect`, `ManifestIsTrue` and `Repairs`, for any files, headers and edits. That an unmarked manifest is true says nothing of a run in its
  middle, so the invariant follows the run: what its locals hold in each phase
  (`Phased`), the stored manifest until the candidate replaces it (`Baselined`), the
  candidate against the rows (`Installed`), what each file yet to be stored will
  repair (`Storing`), and both metadata writes (`Published`). `Full` and `UpToDate` carry
  an undisturbed sync that skips nothing to its end and past the runs and the calls of
  `indexFile` that follow it. Skipped files are no cause: what a sync has skipped stays
  outside the rows that a later one trusts, so that `ManifestIsTrue` covers it. Two facts make the
  comparisons meaningful: contents are numbered upwards, so that none comes back, and the
  stat of a row is that of the content it was parsed from.
  Pool (`ParsePool`): `PoolTypeCorrect`, `NoJobIsLost`, `NobodyIsStranded` and
  `ParsesAsPromised`, for any jobs and workers, pool size, recycle interval and crash
  budget. The handlers are compositions of helpers (`Settle`, `Drain`, `Removed`,
  `Recycle`), and the invariant is stated of the record of fields that they pass on, so
  that each helper has its lemma and an action is the sum of those it calls. Each worker
  is in one place, loading, idle or with a job, and its thread and its message are what
  that place allows (`Kept`): a thread that is gone has no worker, and a result that comes
  late belongs to none. A job that is not settled is in the queue once, with one
  worker, or in the hands of the handler that has just taken it from a worker that died
  (`Accounted`). No job is queued while a worker is idle or when none is left
  (`Unstranded`), which `Drain` restores and each handler that breaks it calls. The
  lemmas on sequences without repetition say what appending, cutting and removing do
  to the elements. `ParsesAsPromised` maps each step to one of `ParseService` or to a
  stutter.
* `ProxyProofs`: `TypeCorrect`, `NeverAnsweredTwice`, `CancelHeard`, `NothingLost` and
  `ServesAsPromised`, for any requests. Every line of a queue is there once and behind
  the call that it cancels; every request that is not answered is at exactly one
  place, which is why an answer is the only one. These need each other: a request may be
  counted only while no queue has it twice. `ServesAsPromised` maps each step to one of
  `HostService` or to a stutter.
* `EdgeSyncProofs`: `TypeCorrect`, `NothingLost`, `TrueEdges`, `ParkedOffered`, and the
  action property `PassesSee`, for any files, names and processes. The properties speak of
  the time between two syncs; the invariant says what holds at each transaction of one:
  which references are in no table and through what they will come back (`Accounted`),
  which parked ones have still to be offered a new symbol (`Parked`), what the
  file that is being stored has left and already has (`FileInHand`), and
  that the caches of the process are those of the database during the passes
  (`Caches`).
* `IndexRunProofs`: `TypeCorrect`, `StoredFirst`, `FullText`, `RowsInOrder`, `LogBounded`
  and `NothingLeft`, for any number of files, rows and workers and any window, batch,
  chunk and cap. `Storing` places each bundle: as long as nothing has failed the queue of
  the worker holds, in order, exactly what was sent and is not stored, the drain comes last
  and its answer after all others. `Restored` says which part of the schema is there in
  which phase; a run whose windows were not opened in full has something left in `drops`,
  and is excused. `Rows` follows a batch from the chunks in flight, each of which is the
  part of the batch that its id says, over results that arrive in any order, to parts that
  adjoin one another and the rows admitted before; it rests on a lemma on the division
  of rows into chunks (`Chunks`). `Bounded` reserves room in the log before it is
  used: each queued bundle finds its place below the bound (`Reserved`), because the
  counter of outstanding bundles covers the queue and the answers (`Counted`), is below the
  window when the main thread goes on (`Roomy`), and a pause that ends well leaves the
  log empty (`Paused`). The bound has a third part that the instance hides, since its log
  is empty or its cap larger: a log that is longer than all of this when the valve
  is made.
* `TraversalProofs`: `TypesAreRight`, `SearchesFindExactly`, `DependentsFound` and
  `ContextsAreClosed`, for any nodes, rows, files, depths, limits and caps, and any
  order of the edges. What a search should find is defined by the number of steps
  (`Iterate`, a function of that number) or as a least closed set, so the lemmas on
  it need induction. The library's induction theorems take an operator, which no
  prover here can instantiate; `Induction` says the same of a set of numbers, from a least
  element of its complement. From it follow what one more step leads to and that more
  steps lead to no less, for `Within` and for `Dependents`.

  The invariant `Inv` has six parts. `SearchShape` ties what runs to what was called and
  each frame of the stack to the edges of its node; `ContextShape` and `CycleShape` do
  so for the other two. Breadth first (`BreadthInv`): the queue is sorted and spans two
  depths at most, a node is first taken off it at its distance, and whatever a step
  leads to from a visited node is visited, queued or an edge still to look at. That is
  why the first path found is a shortest and why a node needs no second look. Depth
  first (`DepthInv`): nothing is found beyond the depth asked for (`DepthSound`); and in
  a search that neither depth nor limit cuts short (`Tracked`), what a visited node
  leads to is reached or the end of an edge that a call under way has yet to look at
  (`DepthComplete`). In such a search no call is refused for its depth, since each is at
  most as deep as the stack below it is high, and the calls under way are for different
  nodes (`DepthStack`). Where the depth can bind, the theorems say no more than the code
  gives: nothing too far away, and everything for callers and callees of depth one (see
  ImpactIsComplete above). Circles (`CyclesKept`): as long as none was found, the
  dependencies of finished files are finished, and any set of finished files has one
  that depends on no other of them (`NoKnot`); each recorded circle is a piece of the
  recursion stack, which is a path, with a dependency back to where the piece begins.

Each inductive invariant was first checked by TLC, as an invariant of the run of its
component. Each proof has one step per action and combines them by propositional temporal
logic; no theorem assumes anything but the named assumptions on the constants.

What stays with TLC: liveness (EventuallyIndexed, DeadLockIsCleared,
StalePidfileIsCleared, UnusedDaemonLeaves, EveryCallAnswered, IndexRunEnds, the fairness
half of the two implementations), since the prover does not treat fairness and ENABLED.
Every safety property that a run checks is proved. That a search ends is not stated:
it is a loop over finite data, whose steps the bounds of TLC exhaust.

## 6. Not modelled

Delays and backoff lengths (they decide when a timer fires, never whether), pid
reuse, the loss of events by the operating system, SQLite itself (transactions
are atomic), a store worker or a checkpoint that hangs without ending (no code copes
with either), `MCPEngine.stop` during an
initialisation (the process exits in the step that calls it), the content of parse results, framework detection, the recovery of
declaration macros.

The greater part of the lines of this repository are extractors, name
matchers, framework resolvers, query and formatting functions: sequential
transformations of text and rows without state of their own, whose
correctness is a matter of twenty languages' grammars and of relevance. A model of
them would restate them. The map therefore covers the code that keeps state
over time and the graph algorithms, a small share of all lines. The components
without a module are named, with reasons, in `PROJECT.json`.

## 7. Plan

Everything of the original plan that has state is modelled, and every safety property of
a run is proved. What could follow:

* The remaining hazards without a property, listed in `PROJECT.json` with the reason.
* The composition of `SyncPipeline` with `ParsePool`, for the workers that a failing
  start of the pool leaves behind (extraction/index.ts:2599).
