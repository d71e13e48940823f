---------------------------- MODULE ResolverPool ----------------------------
(***************************************************************************)
(* The pool of read-only workers that resolves a batch of references in    *)
(* chunks (src/resolution/resolver-pool.ts, resolver-worker.ts).           *)
(*                                                                         *)
(* A chunk is <<first, last>> of the rows it holds; chunks are posted to   *)
(* the worker with the fewest of them, which handles its own in order.     *)
(***************************************************************************)
EXTENDS Naturals, Sequences, FiniteSets

CONSTANTS
    Resolvers,             \* the workers of the pool
    ChunkSize              \* RESOLUTION_CHUNK_SIZE

ASSUME ResolverPoolAssumption ==
    /\ Resolvers # {} /\ IsFiniteSet(Resolvers) /\ ChunkSize \in Nat \ {0}

VARIABLES
    resolver,     \* each worker: "none", "opening", "up", "stuck", "dead"
    alarm,        \* workers whose 'error' or failing exit is under way
    ready,        \* each worker's promise: "none", "sent", "resolved", "rejected"
    posted,       \* <<id, worker, chunk>> not handled by the worker
    finished,     \* <<id, worker, chunk>> whose result is under way
    busy,
    waiting,      \* waiters: the ids of the running resolveBatch
    results,      \* <<id, chunk>> of it that arrived, in the order they did
    nextId,
    poolFailed,   \* failed
    destroyed     \* destroying, and every worker is terminated

poolVars == <<resolver, alarm, ready, posted, finished, busy, waiting,
              results, nextId, poolFailed, destroyed>>

PoolInit ==
    /\ resolver = [w \in Resolvers |-> "none"]
    /\ alarm = {} /\ ready = [w \in Resolvers |-> "none"]
    /\ posted = {} /\ finished = {}
    /\ busy = [w \in Resolvers |-> 0]
    /\ waiting = {} /\ results = <<>> /\ nextId = 1
    /\ poolFailed = FALSE /\ destroyed = FALSE

\* The chunks of rows first..last, in order.
ChunkCount(first, last) == (last - first + ChunkSize) \div ChunkSize
Chunk(first, last, i) ==
    LET from == first + (i - 1) * ChunkSize
        to == from + ChunkSize - 1
    IN  <<from, IF to < last THEN to ELSE last>>

-----------------------------------------------------------------------------
(* The pool.                                                                *)

\* new ResolverPool(...)
Create ==
    /\ resolver' = [w \in Resolvers |-> "opening"]
    /\ UNCHANGED <<alarm, ready, posted, finished, busy, waiting, results,
                   nextId, poolFailed, destroyed>>

\* resolveBatch(rows first..last).  The shares are those of reduce, up to the
\* order of the workers: no worker gets a chunk while another has fewer.
LeastBusy(shares, load) ==
    \A w, v \in Resolvers : shares[w] > 0 => load[w] + shares[w] <= load[v] + shares[v] + 1

ResolveBatch(first, last) ==
    LET n == ChunkCount(first, last)
        ids == nextId .. nextId + n - 1
    IN  /\ ~poolFailed
        /\ \E to \in [ids -> Resolvers] :
             LET shares == [w \in Resolvers |-> Cardinality({i \in ids : to[i] = w})]
             IN  /\ LeastBusy(shares, busy)
                 /\ busy' = [w \in Resolvers |-> busy[w] + shares[w]]
                 /\ posted' = posted \cup
                      {<<i, to[i], Chunk(first, last, i - nextId + 1)>> : i \in ids}
        /\ waiting' = ids /\ results' = <<>> /\ nextId' = nextId + n
        /\ UNCHANGED <<resolver, alarm, ready, finished, poolFailed, destroyed>>

Fail == poolFailed' = TRUE /\ waiting' = {}

OnReady(w) ==
    /\ ready[w] = "sent" /\ ~destroyed
    /\ ready' = [ready EXCEPT ![w] = "resolved"]
    /\ UNCHANGED <<resolver, alarm, posted, finished, busy, waiting, results,
                   nextId, poolFailed, destroyed>>

\* A result of a chunk that nobody waits for only makes its worker free.
OnResult(t) ==
    /\ t \in finished /\ ~destroyed
    /\ finished' = finished \ {t}
    /\ busy' = [busy EXCEPT ![t[2]] = @ - 1]
    /\ IF t[1] \in waiting
       THEN waiting' = waiting \ {t[1]} /\ results' = Append(results, <<t[1], t[3]>>)
       ELSE UNCHANGED <<waiting, results>>
    /\ UNCHANGED <<resolver, alarm, ready, posted, nextId, poolFailed, destroyed>>

OnFailure(w) ==
    /\ w \in alarm /\ ~destroyed
    /\ alarm' = alarm \ {w}
    /\ ready' = [ready EXCEPT ![w] = IF @ = "resolved" THEN @ ELSE "rejected"]
    /\ Fail
    /\ UNCHANGED <<resolver, posted, finished, busy, results, nextId, destroyed>>

\* resolverTaskTimeoutMs() have passed since the chunk was posted.
OnTimeout ==
    /\ waiting # {} /\ ~destroyed
    /\ Fail
    /\ UNCHANGED <<resolver, alarm, ready, posted, finished, busy, results,
                   nextId, destroyed>>

AllReady == \A w \in Resolvers : ready[w] = "resolved"
NeverReady == \E w \in Resolvers : ready[w] = "rejected"

\* destroy(): the workers are terminated and their events are of no use.
Destroy ==
    /\ destroyed' = TRUE /\ poolFailed' = TRUE
    /\ resolver' = [w \in Resolvers |-> "dead"]
    /\ alarm' = {} /\ posted' = {} /\ finished' = {} /\ waiting' = {} /\ results' = <<>>
    /\ busy' = [w \in Resolvers |-> 0]
    /\ UNCHANGED <<ready, nextId>>

-----------------------------------------------------------------------------
(* A worker.                                                                *)

Opens(w) ==
    /\ resolver[w] = "opening"
    /\ resolver' = [resolver EXCEPT ![w] = "up"]
    /\ ready' = [ready EXCEPT ![w] = "sent"]
    /\ UNCHANGED <<alarm, posted, finished, busy, waiting, results,
                   nextId, poolFailed, destroyed>>

Resolves(t) ==
    /\ t \in posted /\ resolver[t[2]] = "up"
    /\ \A u \in posted : u[2] = t[2] => t[1] <= u[1]
    /\ posted' = posted \ {t} /\ finished' = finished \cup {t}
    /\ UNCHANGED <<resolver, alarm, ready, busy, waiting, results, nextId,
                   poolFailed, destroyed>>

\* Opening or resolving throws, the thread dies, or it never answers again.
Breaks(w, how) ==
    /\ resolver[w] \in {"opening", "up"} /\ ~destroyed
    /\ resolver' = [resolver EXCEPT ![w] = how]
    /\ alarm' = IF how = "dead" THEN alarm \cup {w} ELSE alarm
    /\ UNCHANGED <<ready, posted, finished, busy, waiting, results, nextId,
                   poolFailed, destroyed>>

=============================================================================
