------------------------------ MODULE ParsePool ------------------------------
(***************************************************************************)
(* ParseWorkerPool (src/extraction/parse-pool.ts) and its worker threads.  *)
(*                                                                         *)
(* JavaScript runs a handler to completion, so each action is one handler  *)
(* with everything it calls.  The helpers it calls take the fields they    *)
(* may change as a record and give the set of records they can leave,      *)
(* since createWorker may throw.  A worker's thread runs on its own and    *)
(* reaches the pool through events delivered later: a message, "error",    *)
(* "exit".  Events of a thread the pool has given up still arrive.         *)
(***************************************************************************)
EXTENDS Naturals, FiniteSets, SequencesExt

CONSTANTS
    Jobs,                \* the calls of requestParse
    NoJob,
    Workers,             \* identities of worker objects
    MaxSize,             \* maxSize
    RecycleInterval,     \* recycleInterval
    CrashBudget,         \* CRASH_BUDGET
    MaxConcurrentSpawn,  \* MAX_CONCURRENT_SPAWN
    MaxRecycles          \* bound: calls of recycleAll

ASSUME PoolAssumption ==
    /\ IsFiniteSet(Jobs) /\ Jobs \cap {NoJob, "none", "loaded"} = {}
    /\ IsFiniteSet(Workers) /\ Workers \subseteq Nat
    /\ MaxSize \in Nat \ {0} /\ CrashBudget \in Nat \ {0}
    /\ MaxConcurrentSpawn \in Nat \ {0}
    /\ RecycleInterval \in Nat /\ MaxRecycles \in Nat

VARIABLES
    \* the fields of the pool
    queue, idle,   \* waiting jobs, first come first served; a stack of workers
    inflight,      \* the job each worker has, or NoJob
    workers, pending,
    parseCounts, crashCount, destroyed,
    expired,       \* jobs whose soft timer fired: the hard-kill timer runs
    waiting,       \* a promise of waitUntilReady is unsettled
    answer,        \* the promise of each job: "none", "waiting", "result", "error"
    \* outside it
    thread,        \* "gone", "loading", "free", "busy", "dying" (its error
                   \* event is due), "exiting" (its exit event is due)
    mail,          \* its undelivered message: "none", "loaded" or a job's result
    recycles       \* how often recycleAll was called

poolVars == <<queue, idle, inflight, workers, pending, parseCounts, crashCount,
              destroyed, expired, waiting, answer, thread, mail, recycles>>

Busy == {w \in Workers : inflight[w] # NoJob}

PoolTypeOK ==
    /\ queue \in Seq(Jobs) /\ idle \in Seq(Workers)
    /\ inflight \in [Workers -> Jobs \cup {NoJob}]
    /\ workers \subseteq Workers /\ pending \subseteq Workers
    /\ parseCounts \in [Workers -> Nat] /\ crashCount \in Nat
    /\ destroyed \in BOOLEAN
    /\ expired \subseteq Jobs
    /\ waiting \in BOOLEAN
    /\ answer \in [Jobs -> {"none", "waiting", "result", "error"}]
    /\ thread \in [Workers -> {"gone", "loading", "free", "busy", "dying", "exiting"}]
    /\ mail \in [Workers -> {"none", "loaded"} \cup Jobs]
    /\ recycles \in 0..MaxRecycles
    /\ Cardinality(workers) <= MaxSize

-----------------------------------------------------------------------------
(* The helpers, on a record of the fields they may change.                 *)

Fields == [queue |-> queue, idle |-> idle, inflight |-> inflight,
           workers |-> workers, pending |-> pending, counts |-> parseCounts,
           crashes |-> crashCount, answer |-> answer, thread |-> thread]

\* The handler ends with the fields as in p.
Becomes(p) ==
    /\ queue' = p.queue /\ idle' = p.idle /\ inflight' = p.inflight
    /\ workers' = p.workers /\ pending' = p.pending
    /\ parseCounts' = p.counts /\ crashCount' = p.crashes
    /\ answer' = p.answer /\ thread' = p.thread
    /\ expired' = expired \cap {p.inflight[w] : w \in Workers}

Healthy(p) == ~destroyed /\ p.crashes < CrashBudget

\* settle(): a promise that is settled stays so.
Settle(p, js, how) ==
    [p EXCEPT !.answer =
        [j \in Jobs |-> IF j \in js /\ p.answer[j] = "waiting" THEN how ELSE p.answer[j]]]

\* Identities for n new worker objects: of no thread or message still around.
Fresh(p)    == {w \in Workers : p.thread[w] = "gone" /\ mail[w] = "none"}
Lowest(p,n) == {w \in Fresh(p) : Cardinality({v \in Fresh(p) : v < w}) < n}

\* n calls of createWorker return and t throw.
Spawned(p, n, t) ==
    LET new == Lowest(p, n)
    IN  [p EXCEPT !.workers = @ \cup new,
                  !.pending = @ \cup new,
                  !.counts  = [w \in Workers |-> IF w \in new THEN 0 ELSE @[w]],
                  !.thread  = [w \in Workers |-> IF w \in new THEN "loading" ELSE @[w]],
                  !.crashes = @ + t]

\* spawnOne(), which does nothing when unhealthy or full.
SpawnOne(p) ==
    IF ~Healthy(p) \/ Cardinality(p.workers) >= MaxSize THEN {p}
    ELSE {Spawned(p, 1, 0), Spawned(p, 0, 1)}

\* terminate(): the thread ends, and says so by an exit event.
Terminated(p, ws) ==
    [p EXCEPT !.thread = [w \in Workers |->
        IF w \in ws /\ @[w] # "gone" THEN "exiting" ELSE @[w]]]

\* filter(), of a list that holds w once at most.
Without(s, w) ==
    IF w \notin ToSet(s) THEN s ELSE RemoveAt(s, CHOOSE i \in DOMAIN s : s[i] = w)

\* removeWorker(), terminating the thread as every caller does.
Removed(p, w) ==
    [Terminated(p, {w}) EXCEPT
        !.workers = @ \ {w}, !.pending = @ \ {w},
        !.counts[w] = 0, !.inflight[w] = NoJob,
        !.idle = Without(@, w)]

\* drain(), its three parts: spawn for the jobs that have no worker coming,
\* some calls of createWorker returning and some throwing, ...
WantsWorker(p) ==
    /\ Len(p.queue) > Len(p.idle) + Cardinality(p.pending)
    /\ Cardinality(p.workers) < MaxSize
    /\ Cardinality(p.pending) < MaxConcurrentSpawn
    /\ Healthy(p)

SpawnForJobs(p) ==
    IF ~WantsWorker(p) THEN {p}
    ELSE {q \in {Spawned(p, n, t) : n \in 0..MaxSize - Cardinality(p.workers),
                                    t \in 0..CrashBudget - p.crashes} :
             LET n == Cardinality(q.workers) - Cardinality(p.workers)
                 t == q.crashes - p.crashes
             IN  /\ ~WantsWorker(q)
                 /\ \/ n > 0 /\ WantsWorker(Spawned(p, n - 1, t))
                    \/ t > 0 /\ WantsWorker(Spawned(p, n, t - 1))}

\* ... hand the first jobs to the idle workers, last one first, ...
Dispatched(p) ==
    LET ni == Len(p.idle)
        n  == IF Len(p.queue) < ni THEN Len(p.queue) ELSE ni
        At(w) == {i \in 1..n : p.idle[ni + 1 - i] = w}
        given == {w \in Workers : At(w) # {}}
        Job(w) == p.queue[CHOOSE i \in At(w) : TRUE]
    IN  [p EXCEPT
            !.queue = SubSeq(@, n + 1, Len(@)),
            !.idle = SubSeq(@, 1, ni - n),
            !.inflight = [w \in Workers |-> IF w \in given THEN Job(w) ELSE @[w]],
            !.counts = [w \in Workers |-> IF w \in given THEN @[w] + 1 ELSE @[w]],
            !.thread = [w \in Workers |->
                IF w \in given /\ @[w] = "free" THEN "busy" ELSE @[w]]]

\* Mutant: the queue keeps what no worker is left to take.
KeepsQueue(p) == p

\* ... and refuse what is left when no worker is left to take it.
Exhausted(p) ==
    IF p.queue # <<>> /\ p.idle = <<>> /\ p.pending = {} /\ p.workers = {}
    THEN [Settle(p, ToSet(p.queue), "error") EXCEPT !.queue = <<>>]
    ELSE p

Drain(p) == {Exhausted(Dispatched(q)) : q \in SpawnForJobs(p)}

\* recycle(): a worker is given up for a new one.
Recycle(p, w) == SpawnOne(Removed(p, w))

\* settleReadyWaiters(): nobody waits once no worker is loading.
ReadyWaiters(p) == waiting' = (waiting /\ p.pending # {})

-----------------------------------------------------------------------------
(* Calls of the pool's user, in the order of sync() and indexAll(): the    *)
(* pool is prewarmed and waited for before the first job, and its workers  *)
(* are recycled when no job is waiting.                                    *)

\* The constructor starts one worker.
PoolInit ==
    /\ queue = <<>> /\ idle = <<>> /\ inflight = [w \in Workers |-> NoJob]
    /\ destroyed = FALSE /\ expired = {} /\ waiting = FALSE
    /\ mail = [w \in Workers |-> "none"] /\ recycles = 0
    /\ answer = [j \in Jobs |-> "none"]
    /\ parseCounts = [w \in Workers |-> 0]
    /\ \E ws \in SUBSET Workers :
        /\ Cardinality(ws) <= 1
        /\ workers = ws /\ pending = ws
        /\ crashCount = 1 - Cardinality(ws)
        /\ thread = [w \in Workers |-> IF w \in ws THEN "loading" ELSE "gone"]

NoneAsked   == \A j \in Jobs : answer[j] = "none"
NoneWaiting == \A j \in Jobs : answer[j] # "waiting"

\* prewarm(): fills the pool, giving up when createWorker throws.
Prewarm ==
    \E n \in 0..MaxSize, t \in 0..1 :
        LET p == Spawned(Fields, n, t)
            full == Cardinality(p.workers) >= MaxSize
        IN  /\ ~destroyed /\ NoneAsked /\ ~waiting
            /\ Cardinality(p.workers) = Cardinality(workers) + n
            /\ Cardinality(p.workers) <= MaxSize
            /\ n > 0 => Healthy(Fields)
            /\ t = 1 => Healthy(Fields) /\ ~full
            /\ full \/ ~Healthy(Fields) \/ t = 1
            /\ Becomes(p)
            /\ UNCHANGED <<destroyed, waiting, mail, recycles>>

\* waitUntilReady(): settled at once unless a worker is loading.
WaitUntilReady ==
    /\ NoneAsked /\ ~destroyed
    /\ pending # {}
    /\ waiting' = TRUE
    /\ UNCHANGED <<queue, idle, inflight, workers, pending, parseCounts, crashCount,
                   destroyed, expired, answer, thread, mail, recycles>>

RequestParse(j) ==
    /\ answer[j] = "none"
    /\ IF destroyed
       THEN Becomes([Fields EXCEPT !.answer[j] = "error"])
       ELSE \E p \in Drain([Fields EXCEPT !.answer[j] = "waiting",
                                          !.queue = Append(@, j)]) : Becomes(p)
    /\ UNCHANGED <<destroyed, waiting, mail, recycles>>

\* recycleAll(): every idle worker, one after the other.  At most MaxSize.
RecycleAll ==
    /\ recycles < MaxRecycles /\ NoneWaiting /\ idle # <<>>
    /\ recycles' = recycles + 1
    /\ LET gone == [Terminated(Fields, ToSet(idle)) EXCEPT
                       !.workers = @ \ ToSet(idle), !.idle = <<>>,
                       !.counts = [w \in Workers |-> IF w \in ToSet(idle) THEN 0 ELSE @[w]]]
       IN  \E n, t \in 0..Len(idle) :
               LET p == Spawned(gone, n, t)
               IN  /\ Cardinality(p.workers) = Cardinality(gone.workers) + n
                   /\ n + t <= Len(idle)
                   /\ n + t > 0 => Healthy(Fields)
                   /\ t > 0 => crashCount + t <= CrashBudget
                   /\ n + t < Len(idle) => ~Healthy(p)
                   /\ Becomes(p)
    /\ UNCHANGED <<destroyed, waiting, mail>>

\* Mutant: destroy() rejects the queue, not the jobs in flight.
DestroyRejectsQueue ==
    /\ ~destroyed
    /\ destroyed' = TRUE
    /\ waiting' = FALSE
    /\ Becomes([Settle(Fields, ToSet(queue), "error") EXCEPT
           !.queue = <<>>, !.idle = <<>>, !.workers = {}, !.pending = {},
           !.inflight = [w \in Workers |-> NoJob],
           !.counts = [w \in Workers |-> 0],
           !.thread = [w \in Workers |-> "gone"]])
    /\ mail' = [w \in Workers |-> "none"]
    /\ UNCHANGED recycles

\* destroy(): whatever is unsettled is rejected, every thread terminated.  The
\* pool knows no worker any more, so their last events are left out.
Destroy ==
    /\ ~destroyed
    /\ destroyed' = TRUE
    /\ waiting' = FALSE
    /\ LET p == Settle(Fields, ToSet(queue) \cup {inflight[w] : w \in Busy}, "error")
       IN  Becomes([p EXCEPT
               !.queue = <<>>, !.idle = <<>>, !.workers = {}, !.pending = {},
               !.inflight = [w \in Workers |-> NoJob],
               !.counts = [w \in Workers |-> 0],
               !.thread = [w \in Workers |-> "gone"]])
    /\ mail' = [w \in Workers |-> "none"]
    /\ UNCHANGED recycles

-----------------------------------------------------------------------------
(* Event handlers.                                                          *)

\* onMessage: the grammars are loaded, so the worker is idle.
GrammarsLoaded(w) ==
    /\ mail[w] = "loaded"
    /\ mail' = [mail EXCEPT ![w] = "none"]
    /\ IF w \in workers
       THEN LET p == [Fields EXCEPT !.pending = @ \ {w}, !.idle = Append(@, w)]
            IN  ReadyWaiters(p) /\ \E q \in Drain(p) : Becomes(q)
       ELSE Becomes(Fields) /\ UNCHANGED waiting
    /\ UNCHANGED <<destroyed, recycles>>

\* onMessage: a result, of a worker whose job is still in flight.
ParseResult(w) ==
    /\ mail[w] \in Jobs
    /\ mail' = [mail EXCEPT ![w] = "none"]
    /\ IF inflight[w] = mail[w]
       THEN LET done == [Fields EXCEPT !.inflight[w] = NoJob]
                back == IF parseCounts[w] >= RecycleInterval THEN Recycle(done, w)
                        ELSE {[done EXCEPT !.idle = Append(@, w)]}
            IN  \E p \in back :
                    \E q \in Drain(Settle(p, {mail[w]}, "result")) : Becomes(q)
       ELSE Becomes(Fields)
    /\ UNCHANGED <<destroyed, waiting, recycles>>

\* Mutant: the job of a worker that is gone is forgotten.
WorkerGoneLosesJob(p, w) ==
    IF w \notin workers THEN Becomes(p) /\ UNCHANGED waiting
    ELSE \E q \in SpawnOne([Removed(p, w) EXCEPT !.crashes = @ + 1]) :
             ReadyWaiters(q) /\ \E r \in Drain(q) : Becomes(r)

\* onWorkerGone: its job fails, a new worker takes its place while healthy.
WorkerGone(p, w) ==
    IF w \notin workers THEN Becomes(p) /\ UNCHANGED waiting
    ELSE LET lost == Settle([Removed(p, w) EXCEPT !.crashes = @ + 1],
                            {inflight[w]}, "error")
         IN  \E q \in SpawnOne(lost) :
                 ReadyWaiters(q) /\ \E r \in Drain(q) : Becomes(r)

\* The events of a thread follow its message.
ErrorEvent(w) ==
    /\ thread[w] = "dying" /\ mail[w] = "none"
    /\ WorkerGone([Fields EXCEPT !.thread[w] = "exiting"], w)
    /\ UNCHANGED <<destroyed, mail, recycles>>

ExitEvent(w) ==
    /\ thread[w] = "exiting" /\ mail[w] = "none"
    /\ WorkerGone([Fields EXCEPT !.thread[w] = "gone"], w)
    /\ UNCHANGED <<destroyed, mail, recycles>>

\* onTimeout: past its budget a job is given a grace period.
SoftTimeout(w) ==
    /\ w \in Busy /\ inflight[w] \notin expired
    /\ expired' = expired \cup {inflight[w]}
    /\ UNCHANGED <<queue, idle, inflight, workers, pending, parseCounts, crashCount,
                   destroyed, waiting, answer, thread, mail, recycles>>

\* onHardTimeout: the thread is killed, which does not count as a crash.
HardTimeout(w) ==
    /\ w \in Busy /\ inflight[w] \in expired
    /\ \E p \in SpawnOne(Settle(Removed(Fields, w), {inflight[w]}, "error")) :
           \E q \in Drain(p) : Becomes(q)
    /\ UNCHANGED <<destroyed, waiting, mail, recycles>>

-----------------------------------------------------------------------------
(* The threads.                                                            *)

ThreadVars == <<queue, idle, inflight, workers, pending, parseCounts, crashCount,
                destroyed, expired, waiting, answer, recycles>>

ThreadLoads(w) ==
    /\ thread[w] = "loading"
    /\ thread' = [thread EXCEPT ![w] = "free"]
    /\ mail' = [mail EXCEPT ![w] = "loaded"]
    /\ UNCHANGED ThreadVars

ThreadParses(w) ==
    /\ thread[w] = "busy"
    /\ thread' = [thread EXCEPT ![w] = "free"]
    /\ mail' = [mail EXCEPT ![w] = inflight[w]]
    /\ UNCHANGED ThreadVars

\* A thread fails: an error event, then an exit event.  (One that exits without
\* an error event is found out by its exit event, in the same way.)
ThreadDies(w) ==
    /\ thread[w] \in {"loading", "free", "busy"}
    /\ thread' = [thread EXCEPT ![w] = "dying"]
    /\ UNCHANGED <<ThreadVars, mail>>

-----------------------------------------------------------------------------
User == \/ Prewarm \/ WaitUntilReady \/ RecycleAll \/ Destroy
        \/ \E j \in Jobs : RequestParse(j)

Event(w) == \/ GrammarsLoaded(w) \/ ParseResult(w) \/ ErrorEvent(w) \/ ExitEvent(w)
            \/ SoftTimeout(w) \/ HardTimeout(w)

Thread(w) == ThreadLoads(w) \/ ThreadParses(w) \/ ThreadDies(w)

PoolNext == User \/ \E w \in Workers : Event(w) \/ Thread(w)

\* Events are delivered, timers fire, and loading the grammars comes to an end
\* (the pool sets no timer for it): as long as one of these is due, one happens.
\* Nothing is assumed of a parse, which may hang for good.
Progress == \E w \in Workers : Event(w) \/ ThreadLoads(w)

PoolSpec == PoolInit /\ [][PoolNext]_poolVars /\ WF_poolVars(Progress)

-----------------------------------------------------------------------------
(* Properties.                                                              *)

\* A worker of the pool is loading, idle or on a job, and only one of these;
\* nothing outside the pool is.
WorkersPartitioned ==
    /\ workers = pending \cup ToSet(idle) \cup Busy
    /\ pending \cap ToSet(idle) = {} /\ pending \cap Busy = {}
    /\ ToSet(idle) \cap Busy = {}
    /\ Cardinality(ToSet(idle)) = Len(idle)

\* Every unanswered call is in the queue or in flight on one worker, once, and
\* nothing else is: no crash, recycling or timeout loses or doubles a job.
JobsAccounted ==
    /\ {j \in Jobs : answer[j] = "waiting"} = ToSet(queue) \cup {inflight[w] : w \in Busy}
    /\ Cardinality(ToSet(queue)) = Len(queue)
    /\ \A v, w \in Busy : inflight[v] = inflight[w] => v = w
    /\ \A w \in Busy : inflight[w] \notin ToSet(queue)

\* Between two handlers no job waits beside an idle worker, and none waits when
\* there is no worker left whose next event would serve it.
NoJobStranded == queue # <<>> => idle = <<>> /\ workers # {}

\* A call of waitUntilReady waits only while some worker is loading.
WaiterHasReason == waiting => pending # {}

\* Whoever waits for the pool, for a parse or for its readiness, waits for a
\* worker that some event will hear of, however many crashed, were recycled or
\* could not be created: neither wait has a timeout of its own.
NoneStranded == NoJobStranded /\ WaiterHasReason

\* The pool keeps the promise of ParseService: each call is answered exactly
\* once, every call in the end, and none is left open by destroy().
Service == INSTANCE ParseService WITH closed <- destroyed

ServiceSpec == Service!Spec

=============================================================================
