------------------------------- MODULE FileLock -------------------------------
(***************************************************************************)
(* The cross-process write lock of the index (class FileLock,              *)
(* src/utils.ts) and the operations of CodeGraph that take it (sync,       *)
(* indexAll and indexFiles, src/index.ts).                                 *)
(*                                                                         *)
(* A process is one CodeGraph instance; its mutex lets it run one          *)
(* operation at a time, so it is a single thread here.  acquire and        *)
(* release are sequences of system calls on one path and any process may   *)
(* move between two of them: each system call is an action.  A process id  *)
(* is never reused, and a dead process stays dead.                         *)
(***************************************************************************)
EXTENDS Naturals, FiniteSets

CONSTANTS
    Procs,      \* the processes that share the project
    NoFile,     \* the lock file does not exist
    NoPid       \* what parseInt makes of an empty lock file

ASSUME FileLockAssumption == NoFile \notin Procs /\ NoPid \notin Procs

VARIABLES
    owner,      \* who created the lock file at the path, or NoFile
    written,    \* its creator's pid is in the file already
    aged,       \* its mtime is past STALE_TIMEOUT_MS; nobody touches it again
    sysCall,    \* the next system call of every process
    op,         \* the operation it runs: "sync" stands for indexAll as well
    seen,       \* the pid it read from the lock file
    held,       \* FileLock.held
    writing,    \* its operation is writing to the database
    broken      \* history: acquire removed the lock of a live process

fileVars == <<owner, written, aged>>
lockVars == <<fileVars, sysCall, op, seen, held, writing, broken>>

Calls == {"idle", "read", "judge", "unlink", "unlinkQuietly", "create", "write",
          "working", "readBack", "unlinkOwn", "dead"}

LockTypeOK ==
    /\ owner \in Procs \cup {NoFile}
    /\ written \in BOOLEAN /\ aged \in BOOLEAN
    /\ sysCall \in [Procs -> Calls]
    /\ op \in [Procs -> {"sync", "indexFiles"}]
    /\ seen \in [Procs -> Procs \cup {NoPid}]
    /\ held \in [Procs -> BOOLEAN]
    /\ writing \in [Procs -> BOOLEAN]
    /\ broken \in BOOLEAN

LockInit ==
    /\ owner = NoFile /\ written = FALSE /\ aged = FALSE
    /\ sysCall = [p \in Procs |-> "idle"]
    /\ op = [p \in Procs |-> "sync"]
    /\ seen = [p \in Procs |-> NoPid]
    /\ held = [p \in Procs |-> FALSE]
    /\ writing = [p \in Procs |-> FALSE]
    /\ broken = FALSE

Alive(p) == sysCall[p] # "dead"
NextCall(p, c) == sysCall' = [sysCall EXCEPT ![p] = c]
NoLockFile == owner' = NoFile /\ written' = FALSE /\ aged' = FALSE

-----------------------------------------------------------------------------
(* acquire()                                                                *)

\* An operation starts: existsSync.
Begin(p) ==
    /\ sysCall[p] = "idle"
    /\ \E o \in {"sync", "indexFiles"} : op' = [op EXCEPT ![p] = o]
    /\ NextCall(p, IF owner = NoFile THEN "create" ELSE "read")
    /\ UNCHANGED <<fileVars, seen, held, writing, broken>>

\* readFileSync and parseInt; the file may be gone, or still empty.
Read(p) ==
    /\ sysCall[p] = "read"
    /\ IF owner = NoFile
       THEN NextCall(p, "unlinkQuietly") /\ UNCHANGED seen
       ELSE /\ NextCall(p, "judge")
            /\ seen' = [seen EXCEPT ![p] = IF written THEN owner ELSE NoPid]
    /\ UNCHANGED <<fileVars, op, held, writing, broken>>

\* Mutant: an unreadable pid counts as a process that is alive.
JudgeTrustsEmptyFile(p) ==
    /\ sysCall[p] = "judge"
    /\ NextCall(p, IF owner = NoFile THEN "unlinkQuietly"
               ELSE IF ~aged /\ (seen[p] \in Procs => Alive(seen[p]))
                    THEN "idle" ELSE "unlink")
    /\ seen' = [seen EXCEPT ![p] = NoPid]
    /\ UNCHANGED <<fileVars, op, held, writing, broken>>

\* statSync (of whatever file is there now) and isProcessAlive of the pid read:
\* the lock of a live process that is young enough refuses us.
Judge(p) ==
    /\ sysCall[p] = "judge"
    /\ NextCall(p, IF owner = NoFile THEN "unlinkQuietly"
               ELSE IF ~aged /\ seen[p] \in Procs /\ Alive(seen[p])
                    THEN "idle" ELSE "unlink")
    /\ seen' = [seen EXCEPT ![p] = NoPid]
    /\ UNCHANGED <<fileVars, op, held, writing, broken>>

\* unlinkSync removes whatever file is at the path by now.
RemovesLock ==
    /\ NoLockFile
    /\ broken' = (broken \/ (owner \in Procs /\ Alive(owner)))

\* unlinkSync of the lock judged stale; ENOENT falls into the catch block.
Unlink(p) ==
    /\ sysCall[p] = "unlink"
    /\ RemovesLock
    /\ NextCall(p, IF owner = NoFile THEN "unlinkQuietly" ELSE "create")
    /\ UNCHANGED <<op, seen, held, writing>>

\* The catch block: unlinkSync, its errors ignored.
UnlinkQuietly(p) ==
    /\ sysCall[p] = "unlinkQuietly"
    /\ RemovesLock
    /\ NextCall(p, "create")
    /\ UNCHANGED <<op, seen, held, writing>>

\* Mutant: the lock file is created without the exclusive flag.
CreateOverwrites(p) ==
    /\ sysCall[p] = "create"
    /\ owner' = p /\ written' = FALSE /\ aged' = FALSE
    /\ NextCall(p, "write")
    /\ UNCHANGED <<op, seen, held, writing, broken>>

\* writeFileSync with flag wx, the open: EEXIST refuses us.
Create(p) ==
    /\ sysCall[p] = "create"
    /\ IF owner = NoFile
       THEN /\ owner' = p /\ written' = FALSE /\ aged' = FALSE
            /\ NextCall(p, "write")
       ELSE NextCall(p, "idle") /\ UNCHANGED fileVars
    /\ UNCHANGED <<op, seen, held, writing, broken>>

\* Mutant: acquire does not note that we hold the lock.
WriteForgetsHeld(p) ==
    /\ sysCall[p] = "write"
    /\ written' = (written \/ owner = p)
    /\ writing' = [writing EXCEPT ![p] = TRUE]
    /\ NextCall(p, IF op[p] = "indexFiles" THEN "readBack" ELSE "working")
    /\ UNCHANGED <<owner, aged, op, seen, held, broken>>

\* writeFileSync, the write, into our own inode even if it is unlinked by now.
\* We hold the lock and the operation runs.  indexFiles returns the promise of
\* the orchestrator without awaiting it inside try: its finally is next.
Write(p) ==
    /\ sysCall[p] = "write"
    /\ written' = (written \/ owner = p)
    /\ held' = [held EXCEPT ![p] = TRUE]
    /\ writing' = [writing EXCEPT ![p] = TRUE]
    /\ NextCall(p, IF op[p] = "indexFiles" THEN "readBack" ELSE "working")
    /\ UNCHANGED <<owner, aged, op, seen, broken>>

-----------------------------------------------------------------------------
(* The operation ends, release()                                            *)

\* The operation has made its last write.
Finish(p) ==
    /\ sysCall[p] = "working"
    /\ writing' = [writing EXCEPT ![p] = FALSE]
    /\ NextCall(p, IF op[p] = "sync" THEN "readBack" ELSE "idle")
    /\ UNCHANGED <<fileVars, op, seen, held, broken>>

AfterRelease(p) == IF op[p] = "sync" THEN "idle" ELSE "working"

\* release, unless held is false, reads the file and goes on only if it still
\* has our pid.
ReadBack(p) ==
    /\ sysCall[p] = "readBack"
    /\ IF held[p] /\ owner = p /\ written
       THEN NextCall(p, "unlinkOwn") /\ UNCHANGED held
       ELSE /\ NextCall(p, AfterRelease(p))
            /\ held' = [held EXCEPT ![p] = FALSE]
    /\ UNCHANGED <<fileVars, op, seen, writing, broken>>

\* release removes whatever file is at the path by now.
UnlinkOwn(p) ==
    /\ sysCall[p] = "unlinkOwn"
    /\ NoLockFile
    /\ NextCall(p, AfterRelease(p))
    /\ held' = [held EXCEPT ![p] = FALSE]
    /\ UNCHANGED <<op, seen, writing, broken>>

-----------------------------------------------------------------------------
(* The environment                                                          *)

\* The process is killed: what it held stays on disk.
Crash(p) ==
    /\ Alive(p)
    /\ NextCall(p, "dead")
    /\ held' = [held EXCEPT ![p] = FALSE]
    /\ writing' = [writing EXCEPT ![p] = FALSE]
    /\ seen' = [seen EXCEPT ![p] = NoPid]
    /\ op' = [op EXCEPT ![p] = "sync"]
    /\ UNCHANGED <<fileVars, broken>>

\* STALE_TIMEOUT_MS pass since the lock file was written.
Age ==
    /\ owner # NoFile /\ ~aged
    /\ aged' = TRUE
    /\ UNCHANGED <<owner, written, sysCall, op, seen, held, writing, broken>>

Acquire(p) == \/ Read(p) \/ Judge(p) \/ Unlink(p) \/ UnlinkQuietly(p)
              \/ Create(p) \/ Write(p)
Release(p) == ReadBack(p) \/ UnlinkOwn(p)

LockNext ==
    \/ \E p \in Procs :
          Begin(p) \/ Acquire(p) \/ Finish(p) \/ Release(p) \/ Crash(p)
    \/ Age

\* acquire and release are synchronous; a process that runs them finishes them.
LockFairness == \A p \in Procs : WF_lockVars(Acquire(p)) /\ WF_lockVars(Release(p))

LockSpec == LockInit /\ [][LockNext]_lockVars /\ LockFairness

-----------------------------------------------------------------------------
(* Properties                                                               *)

\* p created the lock and has not released it.
Holds(p) == held[p] \/ sysCall[p] = "write"

\* Two processes hold the lock at once only after an acquire removed the lock
\* of a live process.  However crashes, retries and the system calls of several
\* acquires and releases interleave, removing the lock of a dead process, the
\* exclusive create and the check of the pid in release never let two in.
ExclusiveUnlessBroken ==
    broken \/ \A p, q \in Procs : Holds(p) /\ Holds(q) => p = q

\* The lock file of a live process is the lock of an operation it has not
\* released: no refused, finished or early released operation leaves a file
\* that would lock everybody out, itself included, for STALE_TIMEOUT_MS.
LockNotLeaked == \A p \in Procs : owner = p /\ Alive(p) => Holds(p)

\* The lock of a process that died is no obstacle: one attempt to acquire that
\* finds it removes it, wherever in its operation (even between creating and
\* writing the file) the owner died, and however old the lock is.
DeadLockIsCleared ==
    \A p, q \in Procs :
        (owner = p /\ ~Alive(p) /\ sysCall[q] = "read") ~> (owner # p \/ ~Alive(q))

\* "Prevents multiple processes from writing to the same database
\* simultaneously": a process writes to the database only while it holds the
\* lock.
WritesUnderLock == \A p \in Procs : writing[p] => held[p]

=============================================================================
