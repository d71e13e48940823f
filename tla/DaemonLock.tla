------------------------------ MODULE DaemonLock ------------------------------
(***************************************************************************)
(* How detached daemon processes of one project arbitrate which of them    *)
(* serves (startDaemonProcess in src/mcp/index.ts; tryAcquireDaemonLock,   *)
(* clearStaleDaemonLock, Daemon.start and Daemon.stop in                   *)
(* src/mcp/daemon.ts), on POSIX: a pidfile created by link(), with its     *)
(* full record in it, and a socket file.                                   *)
(*                                                                         *)
(* Each system call on one of the two paths is an action.  Closing the     *)
(* server unlinks the socket path: Node and libuv do it.  A process id is  *)
(* never reused.  What a daemon does for its clients is not modelled here. *)
(***************************************************************************)
EXTENDS Naturals, FiniteSets

CONSTANTS
    Procs,       \* the daemon processes launchers spawn, each once
    Nobody,      \* no file, no pid
    MaxRetries   \* TAKEOVER_MAX_RETRIES

ASSUME DaemonLockAssumption == Nobody \notin Procs /\ MaxRetries \in Nat \ {0}

VARIABLES
    pidfile,     \* whose record the pidfile holds, or Nobody
    socket,      \* who bound the socket file at the path, or Nobody
    pc,          \* the next system call of every process
    existing,    \* the pid it found in the pidfile: existing.pid
    attempt,     \* its attempts to acquire that failed
    races        \* history: "pidfile", "socket" of a live daemon removed

vars == <<pidfile, socket, pc, existing, attempt, races>>

Candidate == {"link", "readExisting", "judge", "clearRead", "clearUnlink", "sleep"}
Starting  == {"unlinkSocket", "listen"}
Stopping  == {"closing", "cleanupRead", "cleanupUnlink"}
Gone      == {"exited", "crashed"}
Calls     == {"absent"} \cup Candidate \cup Starting \cup {"serving"}
             \cup Stopping \cup {"unlinkSocketAgain"} \cup Gone

TypeOK ==
    /\ pidfile \in Procs \cup {Nobody}
    /\ socket \in Procs \cup {Nobody}
    /\ pc \in [Procs -> Calls]
    /\ existing \in [Procs -> Procs \cup {Nobody}]
    /\ attempt \in [Procs -> 0..MaxRetries - 1]
    /\ races \subseteq {"pidfile", "socket"}

Init ==
    /\ pidfile = Nobody /\ socket = Nobody
    /\ pc = [p \in Procs |-> "absent"]
    /\ existing = [p \in Procs |-> Nobody]
    /\ attempt = [p \in Procs |-> 0]
    /\ races = {}

Alive(p)   == pc[p] \notin Gone \cup {"absent"}
Goto(p, c) == pc' = [pc EXCEPT ![p] = c]

\* The daemon p owns the pidfile until it removes it itself.
Owns(p) == pc[p] \in Starting \cup {"serving"} \cup Stopping

-----------------------------------------------------------------------------
(* startDaemonProcess: arbitration                                          *)

\* A launcher that could not connect spawns a daemon process.
Spawn(p) ==
    /\ pc[p] = "absent"
    /\ Goto(p, "link")
    /\ UNCHANGED <<pidfile, socket, existing, attempt, races>>

\* Mutant: the record is written over whatever is there.
LinkOverwrites(p) ==
    /\ pc[p] = "link"
    /\ pidfile' = p /\ Goto(p, "unlinkSocket")
    /\ UNCHANGED <<socket, existing, attempt, races>>

\* Mutant: the stale socket is cleared before the lock is taken.
LinkClearsSocket(p) ==
    /\ pc[p] = "link"
    /\ socket' = Nobody
    /\ IF pidfile = Nobody
       THEN pidfile' = p /\ Goto(p, "unlinkSocket")
       ELSE Goto(p, "readExisting") /\ UNCHANGED pidfile
    /\ UNCHANGED <<existing, attempt, races>>

\* tryAcquireDaemonLock: linkSync is atomic and exclusive.
Link(p) ==
    /\ pc[p] = "link"
    /\ IF pidfile = Nobody
       THEN pidfile' = p /\ Goto(p, "unlinkSocket")
       ELSE Goto(p, "readExisting") /\ UNCHANGED pidfile
    /\ UNCHANGED <<socket, existing, attempt, races>>

\* Taken: who holds it?  An unreadable pidfile gives null.
ReadExisting(p) ==
    /\ pc[p] = "readExisting"
    /\ existing' = [existing EXCEPT ![p] = pidfile]
    /\ Goto(p, "judge")
    /\ UNCHANGED <<pidfile, socket, attempt, races>>

\* The holder is alive: we are redundant and exit.
Judge(p) ==
    /\ pc[p] = "judge"
    /\ IF existing[p] # Nobody /\ Alive(existing[p])
       THEN Goto(p, "exited") ELSE Goto(p, "clearRead")
    /\ UNCHANGED <<pidfile, socket, existing, attempt, races>>

\* Mutant: the comparison with the expected pid is inverted.
ClearReadInverted(p) ==
    /\ pc[p] = "clearRead"
    /\ IF \/ pidfile = Nobody
          \/ existing[p] # Nobody /\ pidfile = existing[p]
          \/ Alive(pidfile)
       THEN Goto(p, "sleep") ELSE Goto(p, "clearUnlink")
    /\ UNCHANGED <<pidfile, socket, existing, attempt, races>>

\* clearStaleDaemonLock reads the pidfile again: it is left alone if it is gone,
\* names another process than expected, or a live one.
ClearRead(p) ==
    /\ pc[p] = "clearRead"
    /\ IF \/ pidfile = Nobody
          \/ existing[p] # Nobody /\ pidfile # existing[p]
          \/ Alive(pidfile)
       THEN Goto(p, "sleep") ELSE Goto(p, "clearUnlink")
    /\ UNCHANGED <<pidfile, socket, existing, attempt, races>>

\* clearStaleDaemonLock unlinks whatever is at the path by now.
ClearUnlink(p) ==
    /\ pc[p] = "clearUnlink"
    /\ pidfile' = Nobody
    /\ races' = IF pidfile # Nobody /\ Alive(pidfile)
                THEN races \cup {"pidfile"} ELSE races
    /\ Goto(p, "sleep")
    /\ UNCHANGED <<socket, existing, attempt>>

\* The next attempt after TAKEOVER_RETRY_DELAY_MS, or the last one failed.
Retry(p) ==
    /\ pc[p] = "sleep"
    /\ existing' = [existing EXCEPT ![p] = Nobody]
    /\ IF attempt[p] + 1 < MaxRetries
       THEN /\ attempt' = [attempt EXCEPT ![p] = @ + 1]
            /\ Goto(p, "link")
       ELSE Goto(p, "exited") /\ UNCHANGED attempt
    /\ UNCHANGED <<pidfile, socket, races>>

-----------------------------------------------------------------------------
(* Daemon.start and Daemon.stop                                             *)

\* Mutant: the socket file of a killed daemon stays.
KeepSocket(p) ==
    /\ pc[p] = "unlinkSocket"
    /\ Goto(p, "listen")
    /\ UNCHANGED <<pidfile, socket, existing, attempt, races>>

\* start() clears the socket file of a daemon that was killed.
UnlinkSocket(p) ==
    /\ pc[p] = "unlinkSocket"
    /\ socket' = Nobody
    /\ Goto(p, "listen")
    /\ UNCHANGED <<pidfile, existing, attempt, races>>

\* listen(): EADDRINUSE rejects start() and the process exits with its pidfile.
Listen(p) ==
    /\ pc[p] = "listen"
    /\ IF socket = Nobody
       THEN socket' = p /\ Goto(p, "serving")
       ELSE Goto(p, "crashed") /\ UNCHANGED socket
    /\ UNCHANGED <<pidfile, existing, attempt, races>>

\* Idle timeout, inactivity backstop or a signal: stop() closes the sessions
\* and the server, which unlinks the socket path at once.
Stop(p) ==
    /\ pc[p] = "serving"
    /\ socket' = Nobody
    /\ races' = IF socket \notin {p, Nobody} /\ Alive(socket)
                THEN races \cup {"socket"} ELSE races
    /\ Goto(p, "closing")
    /\ UNCHANGED <<pidfile, existing, attempt>>

\* The last connection has ended: engine.stop().
Closed(p) ==
    /\ pc[p] = "closing"
    /\ Goto(p, "cleanupRead")
    /\ UNCHANGED <<pidfile, socket, existing, attempt, races>>

\* cleanupLockfile reads the pidfile: is it still ours?
CleanupRead(p) ==
    /\ pc[p] = "cleanupRead"
    /\ Goto(p, IF pidfile = p THEN "cleanupUnlink" ELSE "unlinkSocketAgain")
    /\ UNCHANGED <<pidfile, socket, existing, attempt, races>>

\* cleanupLockfile removes whatever is at the path by now.
CleanupUnlink(p) ==
    /\ pc[p] = "cleanupUnlink"
    /\ pidfile' = Nobody
    /\ races' = IF pidfile \notin {p, Nobody} /\ Alive(pidfile)
                THEN races \cup {"pidfile"} ELSE races
    /\ Goto(p, "unlinkSocketAgain")
    /\ UNCHANGED <<socket, existing, attempt>>

\* The last statement of stop() before exit: whoever's socket it is by now.
UnlinkSocketAgain(p) ==
    /\ pc[p] = "unlinkSocketAgain"
    /\ socket' = Nobody
    /\ races' = IF socket \notin {p, Nobody} /\ Alive(socket)
                THEN races \cup {"socket"} ELSE races
    /\ Goto(p, "exited")
    /\ UNCHANGED <<pidfile, existing, attempt>>

\* The process is killed; its files stay.
Crash(p) ==
    /\ Alive(p)
    /\ Goto(p, "crashed")
    /\ existing' = [existing EXCEPT ![p] = Nobody]
    /\ UNCHANGED <<pidfile, socket, attempt, races>>

-----------------------------------------------------------------------------
Arbitrate(p) ==
    \/ Link(p) \/ ReadExisting(p) \/ Judge(p)
    \/ ClearRead(p) \/ ClearUnlink(p) \/ Retry(p)

Start(p) == UnlinkSocket(p) \/ Listen(p)

CleanUp(p) == \/ Closed(p) \/ CleanupRead(p) \/ CleanupUnlink(p)
              \/ UnlinkSocketAgain(p)

Next == \E p \in Procs : \/ Spawn(p) \/ Arbitrate(p) \/ Start(p)
                         \/ Stop(p) \/ CleanUp(p) \/ Crash(p)

\* A process that is not killed executes its code; nothing makes a launcher
\* spawn one or a daemon stop.
Fairness == \A p \in Procs : WF_vars(Arbitrate(p)) /\ WF_vars(Start(p))

Spec == Init /\ [][Next]_vars /\ Fairness

-----------------------------------------------------------------------------
(* Properties                                                               *)

\* There is one shared daemon per project: two processes are past the lock at
\* once only after a pidfile was removed while its owner was alive.  Crashes at
\* any point, the clearing of stale locks by several candidates, retries and a
\* daemon that stops while others start do not do it by themselves.
OneDaemonUnlessRaced ==
    \/ "pidfile" \in races
    \/ \A p, q \in Procs : Owns(p) /\ Owns(q) => p = q

\* "We arrived here holding the lockfile, which means there's no live daemon, so
\* it's safe to clear": the socket that a starting daemon unlinks is not in use,
\* and when it listens nothing is in the way.
StartFindsNoDaemon ==
    \/ "pidfile" \in races
    \/ \A p \in Procs :
        /\ pc[p] = "unlinkSocket" => (socket # Nobody => ~Alive(socket))
        /\ pc[p] = "listen" => socket = Nobody

\* A daemon that has shut down left no pidfile that names it.
GracefulExitLeavesNoPidfile ==
    \A p \in Procs : pc[p] = "exited" => pidfile # p

\* The pidfile of a dead daemon does not keep the project without one: a
\* candidate that reaches it removes it, or somebody else does, before the
\* candidate gives up.
StalePidfileIsCleared ==
    \A p, q \in Procs :
        (pidfile = p /\ pc[p] \in Gone /\ pc[q] = "link")
            ~> (pidfile # p \/ pc[q] = "crashed")

\* A serving daemon is reachable at its socket, unless one of two races took the
\* path away: its pidfile was cleared under it, or a predecessor was still in
\* stop().  Candidates that come and go never disturb it.
ReachableUnlessRaced ==
    races # {} \/ \A p \in Procs : pc[p] = "serving" => socket = p

\* "The Daemon owns the socket, the engine, and the lockfile until stop() is
\* called or it exits": what serves is reachable at its socket.
ServingIsReachable == \A p \in Procs : pc[p] = "serving" => socket = p

=============================================================================
