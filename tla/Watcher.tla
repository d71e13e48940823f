------------------------------- MODULE Watcher -------------------------------
(***************************************************************************)
(* FileWatcher (src/sync/watcher.ts) between the file system, whose change *)
(* events it receives, and the sync function it is given                   *)
(* (CodeGraph.watch in src/index.ts), which brings the index up to date.   *)
(*                                                                         *)
(* The content of a file is a number: 0 when the file is absent, else the  *)
(* number of the change that wrote it, so the index has a file right       *)
(* exactly when both numbers agree.  Timer delays and the retry backoff    *)
(* only decide how soon an armed timer fires and are left out.  A sync is  *)
(* three kinds of step: it starts (or finds the write lock taken), it      *)
(* treats its files one after the other, it ends; how one file is read     *)
(* and stored is a single step here.                                       *)
(***************************************************************************)
EXTENDS Naturals, FiniteSets

CONSTANTS
    Files,        \* the source files the ignore rules let through
    Dirs,         \* the watched directories below the root
    Root,         \* the project root
    DirOf,        \* the directory of each file
    ScopedMax,    \* SCOPED_SYNC_MAX_PENDING
    WatchCap,     \* CODEGRAPH_MAX_DIR_WATCHES
    MaxChanges    \* bound: changes the environment makes to the tree

ASSUME WatcherAssumption ==
    /\ IsFiniteSet(Files) /\ IsFiniteSet(Dirs)
    /\ Root \notin Dirs /\ Files \cap Dirs = {}
    /\ DirOf \in [Files -> Dirs \cup {Root}]
    /\ ScopedMax \in Nat /\ WatchCap \in Nat /\ MaxChanges \in Nat

VARIABLES
    \* the file system and the events it has not delivered yet
    recursive,     \* one recursive watch (macOS, Windows) or one per directory
    changes,       \* how many changes were made
    disk,          \* content of every file
    dirs,          \* the directories that exist
    attached,      \* directories whose present inode carries a live watch
    events,        \* paths with an undelivered event
    report,        \* how the last change of a file was reported to a running
                   \* watcher: "file", "dir" (its directory only) or "none"
    \* FileWatcher
    ready,         \* between start() and stop()
    stopped,
    dirWatchers,   \* the keys of dirWatchers, but for the root
    pending,       \* pendingFiles: "old" when lastSeenMs <= syncStartedMs
    needsFullScan,
    timer,         \* debounceTimer is armed
    \* the sync in flight and the index it writes
    phase,         \* "idle": ~syncing; "waiting" for the locks; "running"
    fullScan,      \* it was given no paths
    todo,          \* files it was given, or has yet to treat
    listed,        \* currentFiles: files that it found to exist when it began
    incomplete,    \* a file failed: SyncResult.complete is false
    index,
    \* history: what may let go of the last reported change of a file
    skipped,       \* files that a sync passed over without an error
    tied           \* files whose last event came after the start of a sync,
                   \* but in the same millisecond

fsVars      == <<recursive, changes, disk, dirs, attached, events, report>>
watcherVars == <<ready, stopped, dirWatchers, pending, needsFullScan, timer>>
syncVars    == <<phase, fullScan, todo, listed, incomplete, index>>
history     == <<skipped, tied>>
vars        == <<fsVars, watcherVars, syncVars, history>>

Pending == {f \in Files : pending[f] # "none"}
In(d)   == {f \in Files : DirOf[f] = d}
Stale   == {f \in Files : index[f] # disk[f]}

TypeOK ==
    /\ recursive \in BOOLEAN
    /\ changes \in 0..MaxChanges
    /\ disk \in [Files -> 0..MaxChanges + 1]
    /\ dirs \subseteq Dirs /\ attached \subseteq Dirs
    /\ events \subseteq Files \cup Dirs
    /\ report \in [Files -> {"file", "dir", "none"}]
    /\ ready \in BOOLEAN /\ stopped \in BOOLEAN
    /\ dirWatchers \subseteq Dirs
    /\ pending \in [Files -> {"none", "old", "new"}]
    /\ needsFullScan \in BOOLEAN /\ timer \in BOOLEAN
    /\ phase \in {"idle", "waiting", "running"}
    /\ fullScan \in BOOLEAN
    /\ todo \subseteq Files /\ listed \subseteq Files
    /\ incomplete \in BOOLEAN
    /\ index \in [Files -> 0..MaxChanges + 1]
    /\ skipped \subseteq Files /\ tied \subseteq Files

Init ==
    /\ recursive \in BOOLEAN
    /\ changes = 0
    /\ disk = [f \in Files |-> 1]
    /\ dirs = Dirs
    /\ attached = {} /\ events = {}
    /\ report = [f \in Files |-> "none"]
    /\ ready = FALSE /\ stopped = FALSE
    /\ dirWatchers = {}
    /\ pending = [f \in Files |-> "none"]
    /\ needsFullScan = FALSE /\ timer = FALSE
    /\ phase = "idle" /\ fullScan = FALSE /\ todo = {} /\ listed = {}
    /\ incomplete = FALSE
    /\ skipped = {} /\ tied = {}
    /\ index \in {[f \in Files |-> 1], [f \in Files |-> 0]}

-----------------------------------------------------------------------------
(* The file system: what users, editors and git do to the tree.            *)

\* A watch of the running watcher reports the entries of d.
Watched(d) == ready /\ (recursive \/ d = Root \/ d \in attached)

\* History: files with a change, or an entry, that no sync has met yet.
Afresh(files) == skipped' = skipped \ files /\ tied' = tied \ files

\* Create or rewrite a file.
Write(f) ==
    /\ changes < MaxChanges
    /\ DirOf[f] \in dirs \cup {Root}
    /\ changes' = changes + 1
    /\ disk' = [disk EXCEPT ![f] = changes + 2]
    /\ IF Watched(DirOf[f])
       THEN /\ events' = events \cup {f}
            /\ report' = [report EXCEPT ![f] = "file"]
       ELSE /\ report' = [report EXCEPT ![f] = "none"]
            /\ UNCHANGED events
    /\ Afresh({f})
    /\ UNCHANGED <<recursive, dirs, attached, watcherVars, syncVars>>

\* Delete a file.
Delete(f) ==
    /\ changes < MaxChanges
    /\ disk[f] # 0
    /\ changes' = changes + 1
    /\ disk' = [disk EXCEPT ![f] = 0]
    /\ IF Watched(DirOf[f])
       THEN /\ events' = events \cup {f}
            /\ report' = [report EXCEPT ![f] = "file"]
       ELSE /\ report' = [report EXCEPT ![f] = "none"]
            /\ UNCHANGED events
    /\ Afresh({f})
    /\ UNCHANGED <<recursive, dirs, attached, watcherVars, syncVars>>

\* Remove a directory with its files (rm -rf, or a rename out of the tree).
\* Its parent reports it; its files may be reported as well (children) or not.
\* The watch of a per-directory watcher goes with the inode.
RemoveDir(d) ==
    \E children \in BOOLEAN :
        LET gone  == {f \in In(d) : disk[f] # 0}
            kinds == IF ~ready THEN "none"
                     ELSE IF children /\ Watched(d) THEN "file" ELSE "dir"
        IN  /\ changes < MaxChanges
            /\ d \in dirs
            /\ changes' = changes + 1
            /\ disk' = [f \in Files |-> IF f \in gone THEN 0 ELSE disk[f]]
            /\ dirs' = dirs \ {d}
            /\ attached' = attached \ {d}
            /\ report' = [f \in Files |-> IF f \in gone THEN kinds ELSE report[f]]
            /\ events' = events \cup (IF ready THEN {d} ELSE {})
                                \cup (IF kinds = "file" THEN gone ELSE {})
            /\ Afresh(gone)
            /\ UNCHANGED <<recursive, watcherVars, syncVars>>

\* Create an empty directory.
MakeDir(d) ==
    /\ changes < MaxChanges
    /\ d \notin dirs
    /\ changes' = changes + 1
    /\ dirs' = dirs \cup {d}
    /\ events' = events \cup (IF ready THEN {d} ELSE {})
    /\ UNCHANGED <<recursive, disk, attached, report, watcherVars, syncVars, history>>

-----------------------------------------------------------------------------
(* Event handlers.                                                          *)

\* The relation of a new event's lastSeenMs to syncStartedMs.  A flush to come
\* makes every entry "old", so it only matters while a sync is in flight; the
\* comparison is <=, and the event may come in the millisecond of the start.
SeenNow == IF phase # "idle" THEN {"old", "new"} ELSE {"new"}

\* Mutant: an entry keeps the time of its first event.
MarkFirst(files, seen) ==
    /\ pending' = [f \in Files |-> IF f \in files \ Pending THEN seen ELSE pending[f]]
    /\ skipped' = skipped \ files
    /\ tied' = IF seen = "old" THEN tied \cup (files \ Pending) ELSE tied \ (files \ Pending)

\* pendingFiles.set: the time of the last event is that of the entry.
Mark(files, seen) ==
    /\ pending' = [f \in Files |-> IF f \in files THEN seen ELSE pending[f]]
    /\ skipped' = skipped \ files
    /\ tied' = IF seen = "old" THEN tied \cup files ELSE tied \ files

\* handleChange of a source file: recorded and scheduled.
HandleFile(f) ==
    /\ ready
    /\ f \in events
    /\ events' = events \ {f}
    /\ \E seen \in SeenNow : Mark({f}, seen)
    /\ timer' = TRUE
    /\ UNCHANGED <<recursive, changes, disk, dirs, attached, report,
                   ready, stopped, dirWatchers, needsFullScan, syncVars>>

\* maybeScheduleForRemovedDir: the path of a directory that is not there now.
HandleMissingDir(d) ==
    /\ ready
    /\ d \in events \ dirs
    /\ events' = events \ {d}
    /\ needsFullScan' = TRUE
    /\ timer' = TRUE
    /\ UNCHANGED <<recursive, changes, disk, dirs, attached, report,
                   ready, stopped, dirWatchers, pending, syncVars, history>>

\* An existing directory of the recursive watch is not a source file: ignored.
HandleDirRecursive(d) ==
    /\ ready /\ recursive
    /\ d \in events \cap dirs
    /\ events' = events \ {d}
    /\ UNCHANGED <<recursive, changes, disk, dirs, attached, report,
                   watcherVars, syncVars, history>>

\* watchTree(d, markExisting): no-op when the path has an entry or at the cap.
CanWatch(d) == d \notin dirWatchers /\ 1 + Cardinality(dirWatchers) < WatchCap

\* handleDirEvent of an existing directory on the per-directory path.
HandleDirPerDirectory(d) ==
    LET marked == IF CanWatch(d) THEN {f \in In(d) : disk[f] # 0} ELSE {}
    IN  /\ ready /\ ~recursive
        /\ d \in events \cap dirs
        /\ events' = events \ {d}
        /\ dirWatchers' = IF CanWatch(d) THEN dirWatchers \cup {d} ELSE dirWatchers
        /\ attached' = IF CanWatch(d) THEN attached \cup {d} ELSE attached
        /\ \E seen \in SeenNow : Mark(marked, seen)
        /\ timer' = (timer \/ marked # {})
        /\ report' = [f \in Files |-> IF f \in marked THEN "file" ELSE report[f]]
        /\ UNCHANGED <<recursive, changes, disk, dirs, ready, stopped,
                       needsFullScan, syncVars>>

-----------------------------------------------------------------------------
(* start, stop and flush.                                                   *)

\* start(): the initial walk watches the directories that exist, up to the cap.
\* CodeGraph.watch makes a new FileWatcher each time, so it starts once.
Start ==
    /\ ~ready /\ ~stopped
    /\ ready' = TRUE
    /\ pending' = [f \in Files |-> "none"]
    /\ \E ds \in SUBSET dirs :
        /\ IF recursive THEN ds = {}
           ELSE \/ ds = dirs
                \/ 1 + Cardinality(ds) = WatchCap
        /\ 1 + Cardinality(ds) <= WatchCap
        /\ dirWatchers' = ds
        /\ attached' = ds
    /\ UNCHANGED <<recursive, changes, disk, dirs, events, report, stopped,
                   needsFullScan, timer, syncVars, history>>

\* stop(): forgets every pending file; needsFullScan and a sync in flight stay.
\* Whatever the index still misses is from now on unreported.
Stop ==
    /\ ready
    /\ ready' = FALSE /\ stopped' = TRUE
    /\ timer' = FALSE
    /\ dirWatchers' = {} /\ attached' = {} /\ events' = {}
    /\ pending' = [f \in Files |-> "none"]
    /\ report' = [f \in Files |-> "none"]
    /\ Afresh(Files)
    /\ UNCHANGED <<recursive, changes, disk, dirs, needsFullScan, syncVars>>

\* The debounce timer fires: flush() returns at once while a sync is in flight,
\* else starts one, scoped to the pending files when they describe the work.
ScopeDescribesWork ==
    ~needsFullScan /\ Pending # {} /\ Cardinality(Pending) <= ScopedMax

TimerFires ==
    /\ timer
    /\ timer' = FALSE
    /\ IF phase # "idle"
       THEN UNCHANGED <<pending, phase, fullScan, todo, incomplete, history>>
       ELSE /\ pending' = [f \in Files |-> IF f \in Pending THEN "old" ELSE "none"]
            /\ phase' = "waiting"
            /\ fullScan' = ~ScopeDescribesWork
            /\ todo' = IF ScopeDescribesWork THEN Pending ELSE {}
            /\ incomplete' = FALSE
            /\ Afresh(Pending)
    /\ UNCHANGED <<fsVars, ready, stopped, dirWatchers, needsFullScan, listed, index>>

\* Mutant: only pending files ask for another pass.
RescheduleForFiles(left, full) == timer' = (timer \/ (ready /\ left # {}))

\* flush()'s finally: another pass when something is left.
Reschedule(left, full) ==
    timer' = (timer \/ (ready /\ (left # {} \/ full)))

-----------------------------------------------------------------------------
(* The sync function: CodeGraph.sync under its mutex and file lock.         *)

\* The locks are ours; a full scan treats what exists or is tracked now.
SyncBegins ==
    /\ phase = "waiting"
    /\ phase' = "running"
    /\ todo' = IF fullScan
               THEN {f \in Files : disk[f] # 0 \/ index[f] # 0} ELSE todo
    /\ listed' = {f \in todo' : disk[f] # 0}
    /\ UNCHANGED <<fsVars, watcherVars, fullScan, incomplete, index, history>>

\* Its promise settles; what is local to it is gone.
SyncEnds ==
    /\ phase' = "idle"
    /\ fullScan' = FALSE /\ todo' = {} /\ listed' = {} /\ incomplete' = FALSE

\* Mutant: the empty result of a sync without the lock passes for a success.
LockUnavailableSucceeds ==
    /\ phase = "waiting"
    /\ SyncEnds
    /\ needsFullScan' = (needsFullScan /\ ~fullScan)
    /\ pending' = [f \in Files |-> IF pending[f] = "old" THEN "none" ELSE pending[f]]
    /\ Reschedule({f \in Files : pending[f] = "new"}, needsFullScan /\ ~fullScan)
    /\ UNCHANGED <<fsVars, ready, stopped, dirWatchers, index, history>>

\* Another process holds the file lock: LockUnavailableError.
SyncLockUnavailable ==
    /\ phase = "waiting"
    /\ SyncEnds
    /\ Reschedule(Pending, needsFullScan)
    /\ UNCHANGED <<fsVars, ready, stopped, dirWatchers, pending, needsFullScan,
                   index, history>>

\* A file that was there is compared with its row, and read, parsed and stored
\* if it differs; the row of one that was not is deleted.
SyncReads(f) ==
    /\ phase = "running" /\ f \in todo
    /\ todo' = todo \ {f} /\ listed' = listed \ {f}
    /\ index' = [index EXCEPT ![f] = IF f \in listed THEN disk[f] ELSE 0]
    /\ UNCHANGED <<fsVars, watcherVars, phase, fullScan, incomplete, history>>

\* Reading (it may be gone since it was compared) or parsing a file fails: it
\* keeps its old row and the sync is incomplete.
SyncFileFails(f) ==
    /\ phase = "running" /\ f \in todo \cap listed
    /\ todo' = todo \ {f} /\ listed' = listed \ {f}
    /\ incomplete' = TRUE
    /\ UNCHANGED <<fsVars, watcherVars, phase, fullScan, index, history>>

\* The reconcile pass cannot stat or read a file that was there, for it has
\* vanished or may not be read: it is passed over without an error.  One in a
\* directory that may not be searched does not exist for existsSync, and
\* loses its row.
SyncFileSkipped(f) ==
    /\ phase = "running" /\ f \in todo \cap listed
    /\ todo' = todo \ {f} /\ listed' = listed \ {f}
    /\ skipped' = skipped \cup {f}
    /\ index' \in {index, [index EXCEPT ![f] = 0]}
    /\ UNCHANGED <<fsVars, watcherVars, phase, fullScan, incomplete, tied>>

\* Mutant: a successful sync clears every pending file.
SyncSucceedsClearsAll ==
    /\ phase = "running" /\ todo = {} /\ ~incomplete
    /\ SyncEnds
    /\ needsFullScan' = (needsFullScan /\ ~fullScan)
    /\ pending' = [f \in Files |-> "none"]
    /\ Reschedule({}, needsFullScan /\ ~fullScan)
    /\ UNCHANGED <<fsVars, ready, stopped, dirWatchers, index, history>>

\* Success: files whose last event predates the sync are no longer pending.
SyncSucceeds ==
    /\ phase = "running" /\ todo = {} /\ ~incomplete
    /\ SyncEnds
    /\ needsFullScan' = (needsFullScan /\ ~fullScan)
    /\ pending' = [f \in Files |-> IF pending[f] = "old" THEN "none" ELSE pending[f]]
    /\ Reschedule({f \in Files : pending[f] = "new"}, needsFullScan /\ ~fullScan)
    /\ UNCHANGED <<fsVars, ready, stopped, dirWatchers, index, history>>

\* SyncIncompleteError: everything stays pending.
SyncIncomplete ==
    /\ phase = "running" /\ todo = {} /\ incomplete
    /\ SyncEnds
    /\ Reschedule(Pending, needsFullScan)
    /\ UNCHANGED <<fsVars, ready, stopped, dirWatchers, pending, needsFullScan,
                   index, history>>

\* A sync of somebody else (catch-up, the CLI, another process) treats a file.
OtherSync(f) ==
    /\ phase # "running"
    /\ f \in Stale
    /\ index' = [index EXCEPT ![f] = disk[f]]
    /\ Afresh({f})
    /\ UNCHANGED <<fsVars, watcherVars, phase, fullScan, todo, listed, incomplete>>

-----------------------------------------------------------------------------
Environment ==
    \/ \E f \in Files : Write(f) \/ Delete(f) \/ OtherSync(f)
    \/ \E d \in Dirs : RemoveDir(d) \/ MakeDir(d)
    \/ Start \/ Stop

Handlers ==
    \/ \E f \in Files : HandleFile(f)
    \/ \E d \in Dirs : \/ HandleMissingDir(d)
                       \/ HandleDirRecursive(d)
                       \/ HandleDirPerDirectory(d)
    \/ TimerFires

Sync ==
    \/ SyncBegins \/ SyncLockUnavailable
    \/ \E f \in Files : SyncReads(f) \/ SyncFileFails(f) \/ SyncFileSkipped(f)
    \/ SyncSucceeds \/ SyncIncomplete

Next == Environment \/ Handlers \/ Sync

\* Events are delivered, armed timers fire and a sync takes its steps.  The
\* write lock is free at some of our attempts, and a file fails at some only.
Fairness ==
    /\ \A f \in Files : WF_vars(HandleFile(f))
    /\ \A d \in Dirs : WF_vars(HandleMissingDir(d))
    /\ WF_vars(TimerFires)
    /\ SF_vars(SyncBegins)
    /\ \A f \in Files : SF_vars(SyncReads(f))
    /\ WF_vars(SyncSucceeds) /\ WF_vars(SyncIncomplete)

Spec == Init /\ [][Next]_vars /\ Fairness

-----------------------------------------------------------------------------
(* Properties.                                                              *)

\* The sync in flight will still treat f.
WillTreat(f) ==
    phase # "idle" /\ (f \in todo \/ (fullScan /\ phase = "waiting"))

\* What the code lets go of although it was reported: a file that the sync
\* passed over, and one whose event shares the millisecond of its start.
LetGo == skipped \cup tied

\* A file whose change was reported to the running watcher and that the index
\* has wrong is accounted for at every moment: its event is on the way, or it
\* is in pendingFiles, where the staleness banner finds it.  This is the
\* promise of flush() to prefer "shown stale, actually fresh" over "shown
\* fresh, actually stale": no interleaving of edits with a sync and no failed
\* or partial sync may lose a file, but for the two that LetGo names.
NoReportedChangeForgotten ==
    \A f \in Stale \ LetGo :
        ready /\ report[f] = "file" => f \in events \/ f \in Pending

\* While anything is pending or a full scan is owed, a timer is armed or a sync
\* is in flight whose end arms one: the early return of flush() while syncing
\* leaves nothing behind that no later flush would pick up.
WorkIsScheduled ==
    ready /\ (Pending # {} \/ needsFullScan) =>
        \/ timer
        \/ phase # "idle"

\* PendingFile.indexing is honest: of a file shown as being indexed the sync in
\* flight either will still treat it, has brought it up to date with the last
\* change delivered, or has failed on it, or passed over it, or its last event
\* came in the millisecond in which the sync started.
IndexingIsHonest ==
    \A f \in Files \ LetGo :
        phase # "idle" /\ ready /\ pending[f] = "old" /\ report[f] = "file" =>
            \/ WillTreat(f) \/ f \notin Stale \/ f \in events \/ incomplete

\* A change reported to the watcher reaches the index in the end, whatever
\* fails on the way and however the events interleave with syncs, unless it is
\* one that LetGo names.
EventuallyIndexed ==
    \A f \in Files :
        []<>(f \notin Stale \/ report[f] # "file" \/ ~ready \/ f \in LetGo)

\* flush() says that the entries a successful sync removes are in the database
\* by then.  A file that was passed over is not: nothing but a later change, or
\* a full scan, brings it there.
SkippedFileIsKept ==
    \A f \in Stale \ tied :
        ready /\ report[f] = "file" => f \in events \/ f \in Pending

\* And that an event which lands during a sync persists into the next one,
\* which the comparison in milliseconds does not ensure.
MidSyncEventIsKept ==
    \A f \in Stale \ skipped :
        ready /\ report[f] = "file" => f \in events \/ f \in Pending

\* The same promise for a vanished directory whose removal was reported by a
\* single event for the directory: until a full scan treats its files, that
\* event is on the way, a full scan is owed or in flight, or at least a timer
\* is armed.
RemovedDirAccountedFor ==
    \A f \in Stale \ LetGo :
        ready /\ report[f] = "dir" /\ DirOf[f] \notin dirs =>
            \/ DirOf[f] \in events \/ needsFullScan \/ timer
            \/ f \in Pending \/ f \in events \/ (fullScan /\ WillTreat(f))

\* New directories are picked up dynamically: once its event is delivered, a
\* directory that exists carries a watch, unless the cap is reached.
NewDirIsWatched ==
    ready /\ ~recursive =>
        \A d \in dirs : \/ d \in attached \/ d \in events
                        \/ 1 + Cardinality(dirWatchers) >= WatchCap

=============================================================================
