------------------------------- MODULE IndexRun -------------------------------
(***************************************************************************)
(* One run of indexAll (src/index.ts, with ExtractionOrchestrator.indexAll *)
(* of src/extraction/index.ts and resolveAndPersistBatched of              *)
(* src/resolution/index.ts) over its store writer, its WAL valve and its   *)
(* resolver pool, and what a process that opens the database repairs when  *)
(* the run died on the way (src/db/index.ts).                              *)
(*                                                                         *)
(* The variable pc is the await, or the statement, that the main thread    *)
(* has reached.  The process may be killed between any two steps; what the *)
(* kernel was given survives.  A second process may open the database in   *)
(* the middle of the run.  The parse of a file is the workers' business    *)
(* (ParsePool): here it only has an outcome.                               *)
(***************************************************************************)
EXTENDS StoreWriter, WalValve, ResolverPool

CONSTANTS
    NFiles,       \* files that the run stores
    NRefs,        \* references that wait for resolution, by row number
    BatchSize,    \* rows of a batch
    MinParallel,  \* MIN_PARALLEL_BATCH
    Settings,     \* the settings that are checked
    MaxCrashes    \* bound: how often the process is killed

ASSUME IndexRunAssumption ==
    /\ {NFiles, NRefs, MaxCrashes} \subseteq Nat
    /\ BatchSize \in Nat \ {0} /\ MinParallel \in Nat
    /\ Settings \subseteq SUBSET {"fresh", "worker", "valve", "large", "guest"}
    /\ \A s \in Settings : "worker" \in s => "fresh" \in s

ResolutionIndexes == {"edge", "unresolved"}      \* BULK_RESOLUTION_*_INDEX_NAMES
Indexes == ResolutionIndexes \cup {"node"}       \* BULK_PARSE_INDEX_NAMES
Triggers == {"nodes_ai", "nodes_ad"}    \* FTS_TRIGGER_NAMES; nodes_au is as nodes_ad
Files == 1..NFiles

VARIABLES
    setting,      \* the database was empty, its writer is a worker, its log has
                  \* a valve, its references are enough for the pool, and
                  \* another process may open it meanwhile
    pc,
    todo,         \* files of the pass that are left
    again,        \* files whose parse is to be retried
    retrying,     \* the second pass
    sent,         \* files given to the database, in order
    outcome,      \* "ok", "aborted" or "threw"
    \* database
    indexes,      \* the indexes that exist
    triggers,     \* those that exist of the triggers that keep the full-text index
    fts,          \* files whose nodes it has
    broken,       \* a statement that restores an index or a trigger failed
    drops,        \* what the two bulk windows have still to drop, in order
    \* resolution
    pool,         \* the pool: "none", "starting", "ready"
    cursor,       \* afterRowId
    batch,        \* resolved parts of the batch, in the order they are admitted
    edges,        \* admitted parts: <<first, last>> rows
    pending,      \* rows of unresolved_refs
    \* environment
    guest,        \* another process that opens the database: "out", "rebuilt", "synced", "done"
    crashes

runVars == <<setting, todo, again, retrying, sent>>
dbVars == <<indexes, triggers, fts, broken, drops>>
resolutionVars == <<pool, cursor, batch, edges, pending>>
vars == <<runVars, pc, outcome, dbVars, resolutionVars, guest, crashes,
          writerVars, valveVars, poolVars>>

Init ==
    /\ setting \in Settings
    /\ pc = "begin"
    /\ todo = [i \in Files |-> i] /\ again = <<>> /\ retrying = FALSE /\ sent = <<>>
    /\ outcome = "ok"
    /\ indexes = Indexes /\ triggers = Triggers /\ fts = {} /\ broken = FALSE
    /\ drops = <<"nodes_ai", "nodes_ad">>
               \o (IF "fresh" \in setting THEN <<"edge", "unresolved", "node">> ELSE <<>>)
    /\ pool = "none" /\ cursor = 0 /\ batch = <<>> /\ edges = <<>> /\ pending = 1..NRefs
    /\ guest = "out" /\ crashes = 0
    /\ WriterInit /\ ValveInit /\ PoolInit

-----------------------------------------------------------------------------
(* The database.                                                            *)

ToSet(s) == {s[i] : i \in DOMAIN s}

\* A transaction; without a valve the log is not this module's concern.
Write == IF "valve" \in setting THEN Commit ELSE UNCHANGED valveVars

\* The triggers index the nodes that a transaction inserts.
Synchronise == fts' = IF "nodes_ai" \in triggers THEN ToSet(stored') ELSE fts

NextIndex == CHOOSE i \in Indexes \ indexes : TRUE

\* They are created in the order of the schema.
NextTrigger == IF "nodes_ai" \in triggers THEN "nodes_ad" ELSE "nodes_ai"

Rebuild == fts' = ToSet(stored)

-----------------------------------------------------------------------------
(* Parsing and storing.                                                     *)

\* beginBulkNodeLoad, then beginBulkParseLoad: one statement after the other
OpenWindow ==
    /\ pc = "begin" /\ drops # <<>>
    /\ drops' = Tail(drops)
    /\ triggers' = triggers \ {Head(drops)} /\ indexes' = indexes \ {Head(drops)}
    /\ UNCHANGED <<runVars, pc, outcome, fts, broken, resolutionVars, guest, crashes,
                   writerVars, valveVars, poolVars>>

\* A statement throws.  Only a window that was opened in full is closed: the
\* triggers come back when an index could not be dropped, nothing else does.
OpenThrows ==
    /\ pc = "begin" /\ drops # <<>>
    /\ outcome' = "threw"
    /\ pc' = IF Head(drops) \in Triggers THEN "settle" ELSE "endNodes"
    /\ timer' = ("valve" \in setting)
    /\ UNCHANGED <<runVars, dbVars, resolutionVars, guest, crashes, writerVars,
                   logVars, baseline, passVars, pauseVars, poolVars>>

\* The valve was started before the windows; the writer is now.
BeginLoad ==
    /\ pc = "begin" /\ drops = <<>> /\ pc' = "load"
    /\ timer' = ("valve" \in setting)
    /\ IF "worker" \in setting THEN Start ELSE UNCHANGED writerVars
    /\ UNCHANGED <<runVars, outcome, dbVars, resolutionVars, guest, crashes,
                   logVars, baseline, passVars, pauseVars, poolVars>>

\* The pass of the store worker ends; the writer is closed before retries.
UsesWriter == "worker" \in setting /\ ~retrying

\* The file cannot be read or parsed; some parse errors are retried.
Skip ==
    /\ pc = "load" /\ todo # <<>>
    /\ todo' = Tail(todo)
    /\ \/ again' = again
       \/ ~retrying /\ again' = Append(again, Head(todo))
    /\ UNCHANGED <<pc, setting, retrying, sent, outcome, dbVars, resolutionVars,
                   guest, crashes, writerVars, valveVars, poolVars>>

\* The file is parsed, and walBackpressure() makes its store wait.
Park ==
    /\ pc = "load" /\ todo # <<>>
    /\ "valve" \in setting /\ Growth > Hard
    /\ pc' = "parked" /\ Pause
    /\ UNCHANGED <<runVars, outcome, dbVars, resolutionVars, guest, crashes,
                   writerVars, poolVars>>

\* Mutant: the pause is started and not awaited.
MayStoreUnawaited == todo # <<>> /\ pc \in {"load", "parked"}

\* It does not, or no longer.
MayStore ==
    /\ todo # <<>>
    /\ \/ pc = "load" /\ ("valve" \in setting => Growth <= Hard)
       \/ pc = "parked" /\ ~pause

\* The bundle is sent to the worker.
Post ==
    /\ MayStore /\ UsesWriter
    /\ Send(Head(todo))
    /\ sent' = Append(sent, Head(todo)) /\ todo' = Tail(todo)
    /\ pc' = IF below' THEN "below" ELSE "load"
    /\ UNCHANGED <<setting, again, retrying, outcome, dbVars, resolutionVars,
                   guest, crashes, valveVars, poolVars>>

HasRoom ==
    /\ pc = "below" /\ ~below
    /\ pc' = "load"
    /\ UNCHANGED <<runVars, outcome, dbVars, resolutionVars, guest, crashes,
                   writerVars, valveVars, poolVars>>

\* The main connection stores the file.
Store ==
    /\ MayStore /\ ~UsesWriter
    /\ stored' = Append(stored, Head(todo))
    /\ sent' = Append(sent, Head(todo)) /\ todo' = Tail(todo)
    /\ Synchronise /\ Write
    /\ pc' = "load"
    /\ UNCHANGED <<setting, again, retrying, outcome, indexes, triggers, broken, drops,
                   resolutionVars, guest, crashes, thread, errored, connected, inbox,
                   answers, firstError, outstanding, below, drained, closing, poolVars>>

\* close(), if there is a writer: after the drain, on an abort, or in the
\* finally block of the call
CloseWriter ==
    /\ pc' = "closing"
    /\ IF thread = "none" THEN UNCHANGED writerVars ELSE AskClose

\* send() throws what the worker reported, or the transaction fails.
StoreThrows ==
    /\ MayStore
    /\ UsesWriter => Refused
    /\ outcome' = "threw" /\ CloseWriter
    /\ UNCHANGED <<runVars, dbVars, resolutionVars, guest, crashes, valveVars, poolVars>>

\* The signal is seen before a file; in the second pass it only ends the pass.
Abort ==
    /\ pc = "load" /\ todo # <<>>
    /\ todo' = <<>>
    /\ IF retrying THEN UNCHANGED <<pc, outcome, writerVars>>
                   ELSE outcome' = "aborted" /\ CloseWriter
    /\ UNCHANGED <<setting, again, retrying, sent, dbVars, resolutionVars, guest,
                   crashes, valveVars, poolVars>>

Finish ==
    /\ pc = "load" /\ todo = <<>> /\ UsesWriter
    /\ AskDrain
    /\ pc' = "drain"
    /\ UNCHANGED <<runVars, outcome, dbVars, resolutionVars, guest, crashes,
                   valveVars, poolVars>>

Drained ==
    /\ pc = "drain" /\ drained \in {"resolved", "rejected"}
    /\ outcome' = IF drained = "resolved" THEN outcome ELSE "threw"
    /\ CloseWriter
    /\ UNCHANGED <<runVars, dbVars, resolutionVars, guest, crashes, valveVars, poolVars>>

Closed ==
    /\ pc = "closing" /\ thread \in {"none", "exited"}
    /\ IF outcome = "ok" /\ ~retrying
       THEN pc' = "load" /\ todo' = again /\ again' = <<>> /\ retrying' = TRUE
       ELSE pc' = "endIndexes" /\ UNCHANGED <<todo, again, retrying>>
    /\ UNCHANGED <<setting, sent, outcome, dbVars, resolutionVars, guest, crashes,
                   writerVars, valveVars, poolVars>>

\* Without a worker the second pass follows the first one at once.
SecondPass ==
    /\ pc = "load" /\ todo = <<>> /\ ~UsesWriter
    /\ IF retrying THEN pc' = "endIndexes" /\ UNCHANGED <<todo, again, retrying>>
                   ELSE todo' = again /\ again' = <<>> /\ retrying' = TRUE /\ UNCHANGED pc
    /\ UNCHANGED <<setting, sent, outcome, dbVars, resolutionVars, guest, crashes,
                   writerVars, valveVars, poolVars>>

Load == \/ OpenWindow \/ OpenThrows
        \/ BeginLoad \/ Skip \/ Park \/ Post \/ HasRoom \/ Store \/ StoreThrows
        \/ Abort \/ Finish \/ Drained \/ Closed \/ SecondPass

-----------------------------------------------------------------------------
(* The end of the bulk window, and the fold.                                *)

\* endBulkParseLoad, one index at a time, awaiting between them
EndParseLoad ==
    /\ pc = "endIndexes"
    /\ \/ /\ indexes = Indexes \/ ~"fresh" \in setting
          /\ pc' = "endNodes"
          /\ UNCHANGED <<indexes, outcome, broken>>
       \/ /\ "fresh" \in setting
          /\ indexes # Indexes /\ indexes' = indexes \cup {NextIndex}
          /\ UNCHANGED <<pc, outcome, broken>>
       \/ /\ "fresh" \in setting /\ indexes # Indexes
          /\ broken' = TRUE /\ outcome' = "threw" /\ pc' = "endNodes"
          /\ UNCHANGED indexes
    /\ UNCHANGED <<runVars, triggers, fts, drops, resolutionVars, guest, crashes,
                   writerVars, valveVars, poolVars>>

\* Mutant: the triggers come first.
EndNodeLoadTriggersFirst ==
    /\ \/ /\ pc = "endNodes" /\ pc' = "endTriggers"
          /\ triggers' = Triggers
          /\ UNCHANGED <<fts, outcome, broken>>
       \/ /\ pc = "endTriggers"
          /\ Rebuild
          /\ pc' = IF outcome = "threw" THEN "settle" ELSE "fold"
          /\ UNCHANGED <<triggers, outcome, broken>>
       \/ /\ pc \in {"endNodes", "endTriggers"}
          /\ broken' = TRUE /\ outcome' = "threw" /\ pc' = "settle"
          /\ UNCHANGED <<fts, triggers>>
    /\ UNCHANGED <<runVars, indexes, drops, resolutionVars, guest, crashes, writerVars,
                   valveVars, poolVars>>

\* endBulkNodeLoad: the rebuild, then one trigger after the other
EndNodeLoad ==
    /\ \/ /\ pc = "endNodes" /\ pc' = "endTriggers"
          /\ Rebuild
          /\ UNCHANGED <<triggers, outcome, broken>>
       \/ /\ pc = "endTriggers" /\ triggers # Triggers
          /\ triggers' = triggers \cup {NextTrigger}
          /\ UNCHANGED <<pc, fts, outcome, broken>>
       \/ /\ pc = "endTriggers" /\ triggers = Triggers
          /\ pc' = IF outcome = "threw" THEN "settle" ELSE "fold"
          /\ UNCHANGED <<triggers, fts, outcome, broken>>
       \/ /\ pc \in {"endNodes", "endTriggers"}
          /\ broken' = TRUE /\ outcome' = "threw" /\ pc' = "settle"
          /\ UNCHANGED <<fts, triggers>>
    /\ UNCHANGED <<runVars, indexes, drops, resolutionVars, guest, crashes, writerVars,
                   valveVars, poolVars>>

AfterFold == IF outcome = "ok" /\ sent # <<>> THEN "resolve" ELSE "settle"

\* foldNow()
Fold ==
    /\ pc = "fold" /\ Idle
    /\ IF "valve" \in setting /\ Growth > 0
       THEN pc' = "folding" /\ Pause
       ELSE pc' = AfterFold /\ UNCHANGED valveVars
    /\ UNCHANGED <<runVars, outcome, dbVars, resolutionVars, guest, crashes,
                   writerVars, poolVars>>

Folded ==
    /\ pc = "folding" /\ ~pause
    /\ pc' = AfterFold
    /\ UNCHANGED <<runVars, outcome, dbVars, resolutionVars, guest, crashes,
                   writerVars, valveVars, poolVars>>

EndLoad == EndParseLoad \/ EndNodeLoad \/ Fold \/ Folded

-----------------------------------------------------------------------------
(* Resolution.                                                              *)

\* tryCreate() may find no reason for a pool; the bulk windows open, as far as
\* their statements succeed.
BeginResolution ==
    /\ pc = "resolve" /\ pc' = "batch"
    /\ \/ "large" \in setting /\ pool' = "starting" /\ Create
       \/ UNCHANGED <<pool, poolVars>>
    /\ \E dropped \in SUBSET ResolutionIndexes :
           indexes' = IF "large" \in setting THEN indexes \ dropped ELSE indexes
    /\ UNCHANGED <<runVars, outcome, triggers, fts, broken, drops, cursor, batch, edges,
                   pending, guest, crashes, writerVars, valveVars>>

\* ready() is settled.
PoolReady ==
    /\ pool = "starting"
    /\ \/ AllReady /\ pool' = "ready" /\ UNCHANGED poolVars
       \/ NeverReady /\ pool' = "none" /\ Destroy
    /\ UNCHANGED <<runVars, pc, outcome, dbVars, cursor, batch, edges, pending,
                   guest, crashes, writerVars, valveVars>>

\* Rows that getUnresolvedReferencesBatchAfter returns: first..last
FirstRow == cursor + 1
LastRow == IF cursor + BatchSize < NRefs THEN cursor + BatchSize ELSE NRefs

Parallel == pool = "ready" /\ LastRow - cursor >= MinParallel

\* Resolve the batch on the workers, here, or learn that nothing is left.
NextBatch ==
    /\ pc = "batch"
    /\ \/ /\ cursor = NRefs
          /\ pc' = "unwind"
          /\ UNCHANGED <<pool, batch, poolVars>>
       \/ /\ cursor < NRefs /\ Parallel /\ ~poolFailed
          /\ ResolveBatch(FirstRow, LastRow)
          /\ pc' = "await"
          /\ UNCHANGED <<pool, batch>>
       \/ /\ cursor < NRefs /\ Parallel /\ poolFailed
          /\ pool' = "none" /\ Destroy
          /\ batch' = <<<<FirstRow, LastRow>>>> /\ pc' = "admit"
       \/ /\ cursor < NRefs /\ ~Parallel
          /\ batch' = <<<<FirstRow, LastRow>>>> /\ pc' = "admit"
          /\ UNCHANGED <<pool, poolVars>>
    /\ UNCHANGED <<runVars, outcome, dbVars, cursor, edges, pending, guest, crashes,
                   writerVars, valveVars>>

\* Mutant: the parts are put together as they arrive.
CombinedAsArrived == [i \in 1..Len(results) |-> results[i][2]]

\* Promise.all keeps the order of the chunks, whatever order they came in: the
\* ids of a batch are the last ones given.
Combined ==
    LET n == Len(results)
        Answer(i) == CHOOSE r \in ToSet(results) : r[1] = nextId - n + i - 1
    IN  [i \in 1..n |-> Answer(i)[2]]

BatchAnswered ==
    /\ pc = "await"
    /\ \/ /\ Len(results) = ChunkCount(FirstRow, LastRow)
          /\ batch' = Combined
          /\ UNCHANGED <<pool, poolVars>>
       \/ /\ Len(results) < ChunkCount(FirstRow, LastRow) /\ poolFailed
          /\ pool' = "none" /\ Destroy
          /\ batch' = <<<<FirstRow, LastRow>>>>
    /\ pc' = "admit"
    /\ UNCHANGED <<runVars, outcome, dbVars, cursor, edges, pending, guest, crashes,
                   writerVars, valveVars>>

\* insertEdges, then the rows of the batch leave unresolved_refs.
AdmitEdges ==
    /\ pc = "admit" /\ pc' = "remove"
    /\ edges' = edges \o batch /\ batch' = <<>>
    /\ Write
    /\ UNCHANGED <<runVars, outcome, dbVars, pool, cursor, pending, guest, crashes,
                   writerVars, poolVars>>

RemoveRows ==
    /\ pc = "remove" /\ pc' = "batch"
    /\ pending' = pending \ (FirstRow..LastRow)
    /\ cursor' = LastRow
    /\ Write
    /\ UNCHANGED <<runVars, outcome, dbVars, pool, batch, edges, guest, crashes,
                   writerVars, poolVars>>

\* Resolving here, or a statement of the batch, throws.
BatchThrows ==
    /\ pc \in {"admit", "remove"}
    /\ outcome' = "threw" /\ pc' = "unwind" /\ batch' = <<>>
    /\ UNCHANGED <<runVars, dbVars, pool, cursor, edges, pending, guest, crashes,
                   writerVars, valveVars, poolVars>>

\* Mutant: a pool that is still starting is forgotten.
UnwindForgets ==
    /\ pc = "unwind" /\ pc' = "restore"
    /\ pool' = "none"
    /\ IF pool = "ready" THEN Destroy ELSE UNCHANGED poolVars
    /\ UNCHANGED <<runVars, outcome, dbVars, cursor, batch, edges, pending, guest,
                   crashes, writerVars, valveVars>>

\* The finally block: the pool, then the two windows.
Unwind ==
    /\ pc = "unwind" /\ pc' = "restore"
    /\ pool' = "none"
    /\ IF pool = "none" THEN UNCHANGED poolVars ELSE Destroy
    /\ UNCHANGED <<runVars, outcome, dbVars, cursor, batch, edges, pending, guest,
                   crashes, writerVars, valveVars>>

EndResolutionLoad ==
    /\ pc = "restore"
    /\ \/ /\ indexes = Indexes
          /\ pc' = "settle"
          /\ UNCHANGED <<indexes, outcome, broken>>
       \/ /\ indexes # Indexes /\ indexes' = indexes \cup {NextIndex}
          /\ UNCHANGED <<pc, outcome, broken>>
       \/ /\ indexes # Indexes
          /\ broken' = TRUE /\ outcome' = "threw" /\ pc' = "settle"
          /\ UNCHANGED indexes
    /\ UNCHANGED <<runVars, triggers, fts, drops, resolutionVars, guest, crashes,
                   writerVars, valveVars, poolVars>>

Resolution == \/ BeginResolution \/ NextBatch \/ BatchAnswered \/ AdmitEdges
              \/ RemoveRows \/ BatchThrows \/ Unwind \/ EndResolutionLoad

\* stop() and drain(), at the end or in the finally block
Settle ==
    /\ pc = "settle"
    /\ \/ timer /\ timer' = FALSE /\ UNCHANGED pc
       \/ ~timer /\ Idle /\ pc' = "returned" /\ UNCHANGED timer
    /\ UNCHANGED <<runVars, outcome, dbVars, resolutionVars, guest, crashes, writerVars,
                   logVars, baseline, passVars, pauseVars, poolVars>>

-----------------------------------------------------------------------------
(* A crash, and DatabaseConnection.open afterwards.                         *)

\* The statements of this run may be inside a transaction.
InTransaction ==
    \/ pc \in {"begin", "endIndexes", "endNodes", "endTriggers", "admit", "remove", "restore"}
    \/ MayStore /\ ~UsesWriter
    \/ thread = "running" /\ inbox # <<>>

\* An empty database is filled with its rollback journal in memory, unless it
\* has a valve: it cannot be rolled back, and may be malformed.
MayTear == "fresh" \in setting /\ "valve" \notin setting /\ InTransaction

\* The process is killed with all of its threads, or ends after its run; tables
\* and schema stay, and the next open takes the log over.
Crash ==
    /\ pc \notin {"opened", "torn"} /\ crashes < MaxCrashes
    /\ crashes' = crashes + 1
    /\ pc' = "crashed" \/ (MayTear /\ pc' = "torn")
    /\ thread' = "none" /\ errored' = FALSE /\ connected' = FALSE
    /\ inbox' = <<>> /\ answers' = <<>>
    /\ firstError' = FALSE /\ outstanding' = 0
    /\ below' = FALSE /\ drained' = "none" /\ closing' = FALSE
    /\ frames' = 0 /\ copied' = 0 /\ size' = 0 /\ baseline' = 0 /\ timer' = FALSE
    /\ inflight' = "none" /\ snapshot' = 0 /\ row' = "none"
    /\ pause' = FALSE /\ passes' = 0 /\ gaveUp' = FALSE
    /\ IF pool = "none" THEN UNCHANGED poolVars ELSE Destroy
    /\ pool' = "none" /\ batch' = <<>> /\ cursor' = 0
    /\ todo' = <<>> /\ again' = <<>> /\ retrying' = FALSE /\ sent' = <<>>
    /\ outcome' = "ok" /\ broken' = FALSE /\ drops' = <<>>
    /\ UNCHANGED <<setting, indexes, triggers, fts, edges, pending, guest, stored>>

Healing == UNCHANGED <<runVars, outcome, resolutionVars, crashes, writerVars, valveVars,
                       poolVars>>

\* healBulkNodeLoad: the triggers tell whether the index can be trusted.
HealNodes ==
    /\ \/ /\ pc = "crashed"
          /\ IF triggers = Triggers THEN pc' = "healIndexes" /\ UNCHANGED fts
                                     ELSE pc' = "healTriggers" /\ Rebuild
          /\ UNCHANGED triggers
       \/ /\ pc = "healTriggers" /\ triggers # Triggers
          /\ triggers' = triggers \cup {NextTrigger} /\ UNCHANGED <<pc, fts>>
       \/ /\ pc = "healTriggers" /\ triggers = Triggers
          /\ pc' = "healIndexes" /\ UNCHANGED <<triggers, fts>>
    /\ UNCHANGED <<indexes, broken, drops, guest>> /\ Healing

\* healBulkParseIndexes
HealIndexes ==
    /\ pc = "healIndexes"
    /\ IF indexes = Indexes THEN pc' = "opened" /\ UNCHANGED indexes
       ELSE UNCHANGED pc /\ indexes' = indexes \cup {NextIndex}
    /\ UNCHANGED <<triggers, fts, broken, drops, guest>> /\ Healing

Heal == HealNodes \/ HealIndexes

\* Another process opens the database while the run goes on.
GuestOpens ==
    /\ \/ /\ "guest" \in setting /\ guest = "out"
          /\ pc \notin {"crashed", "healTriggers", "healIndexes", "opened", "returned",
                     "torn"}
          /\ IF triggers = Triggers THEN guest' = "synced" /\ UNCHANGED fts
                                    ELSE guest' = "rebuilt" /\ Rebuild
          /\ UNCHANGED <<indexes, triggers>>
       \/ /\ guest = "rebuilt" /\ guest' = "synced" /\ triggers' = Triggers
          /\ UNCHANGED <<fts, indexes>>
       \/ /\ guest = "synced" /\ guest' = "done" /\ indexes' = Indexes
          /\ UNCHANGED <<fts, triggers>>
    /\ UNCHANGED <<pc, broken, drops>> /\ Healing

-----------------------------------------------------------------------------
(* The components, between the steps of the main thread.                    *)

Elsewhere == UNCHANGED <<runVars, pc, outcome, resolutionVars, guest, crashes>>

WriterRuns ==
    /\ \E ok \in BOOLEAN : WorkerStep(ok)
    /\ Synchronise
    /\ IF stored' = stored THEN UNCHANGED valveVars ELSE Write
    /\ UNCHANGED <<indexes, triggers, broken, drops, poolVars>> /\ Elsewhere

WriterEvents ==
    /\ ClientStep \/ Terminate
    /\ UNCHANGED <<dbVars, valveVars, poolVars>> /\ Elsewhere

WriterDies ==
    /\ WorkerDies
    /\ UNCHANGED <<dbVars, valveVars, poolVars>> /\ Elsewhere

\* foldNow() goes on in the tick in which drain() finds the valve idle, before
\* the timer.
ValveEvents ==
    /\ \/ pc # "fold" /\ Check
       \/ Fired \/ NextPass \/ PassAnswered
       \/ \E r \in {"full", "part", "null"} : CheckpointEnds(r)
    /\ UNCHANGED <<dbVars, writerVars, poolVars>> /\ Elsewhere

PoolTimer ==
    /\ OnTimeout
    /\ UNCHANGED <<dbVars, writerVars, valveVars>> /\ Elsewhere

PoolEvents ==
    /\ \/ \E t \in finished : OnResult(t)
       \/ \E t \in posted : Resolves(t)
       \/ \E w \in Resolvers : \/ OnReady(w) \/ OnFailure(w) \/ Opens(w)
                               \/ \E how \in {"stuck", "dead"} : Breaks(w, how)
    /\ UNCHANGED <<dbVars, writerVars, valveVars>> /\ Elsewhere

Main == Load \/ EndLoad \/ Resolution \/ PoolReady \/ Settle \/ Heal

Next == \/ Main \/ WriterRuns \/ WriterEvents \/ WriterDies \/ ValveEvents
        \/ PoolTimer \/ PoolEvents \/ Crash \/ GuestOpens

(***************************************************************************)
(* The event loop takes up whatever is ready; the writer handles its       *)
(* queue, a checkpoint ends, and timers fire.  A resolver worker may hang, *)
(* which its chunk's timer is there for.  Nothing makes a process die.     *)
(***************************************************************************)
Fairness ==
    /\ WF_vars(Main)
    /\ WF_vars(WriterRuns)
    /\ WF_vars(WriterEvents)
    /\ WF_vars(ValveEvents)
    /\ WF_vars(PoolTimer)

Spec == Init /\ [][Next]_vars /\ Fairness

-----------------------------------------------------------------------------
(* Properties.                                                              *)

\* What later phases read is what was sent: when the store phase has ended
\* well, every bundle is in the database, in the order of the files, whoever
\* wrote it and whatever its worker went through (store-writer.ts:4-6).
StoredBeforeResolving ==
    pc \in {"fold", "folding", "resolve", "batch", "await"} /\ outcome = "ok"
        => stored = sent

\* After a run that could restore its triggers, and after an open that
\* follows a crash, the full-text index has the nodes of the stored files
\* (db/index.ts:107-110).  The open of another process in the middle of a run
\* that then dies is left out; see GuestIsHarmless.
FullTextIsTrue ==
    \/ pc = "returned" /\ ~broken
    \/ pc = "opened" /\ guest = "out"
    => fts = ToSet(stored)

\* Every row is admitted once, in row order, with no chunk of a batch lost,
\* duplicated or swapped, whoever resolved it; and a row that has left
\* unresolved_refs has its edges, also for the process that opens the
\* database after a crash (resolver-pool.ts:4-7).
RowsAdmittedInOrder ==
    LET admitted == IF edges = <<>> THEN 0 ELSE edges[Len(edges)][2]
    IN  /\ \A i \in DOMAIN edges :
             edges[i][1] = IF i = 1 THEN 1 ELSE edges[i - 1][2] + 1
        /\ \A r \in 1..NRefs : r \in pending \/ r <= admitted

\* While files are stored, the log outgrows the baseline by no more than the
\* hard cap and the window of the writer, or one file if there is none, unless
\* it was larger at first or a pause could not fold it (wal-valve.ts:123-128).
GrowthIsBounded ==
    pc \in {"load", "parked", "below"} /\ ~gaveUp
        => Growth <= Larger(OldFrames, Hard + (IF "worker" \in setting THEN Window ELSE 1))

\* indexAll returns with no thread or timer left behind, and with the indexes
\* and triggers it dropped, unless a statement that opens its windows, or one
\* that restores them, has thrown.  The next open of another process, after
\* such a run or a crash at any statement, restores them in any case.
NothingLeftBehind ==
    /\ pc = "returned" =>
         /\ thread \in {"none", "exited"} /\ Idle /\ ~timer
         /\ \A w \in Resolvers : resolver[w] \in {"none", "dead"}
    /\ (pc = "returned" /\ ~broken /\ drops = <<>>) \/ pc = "opened" =>
         triggers = Triggers /\ indexes = Indexes

\* Whatever store worker, checkpoint, chunk or statement fails, and whatever
\* resolver worker hangs, indexAll returns, as long as the store worker and the
\* checkpoint end what they do: neither drain() nor a checkpoint has a timeout.
\* And a database that a crash left half built opens, unless it is torn.
IndexRunEnds == <>(pc \in {"returned", "opened", "torn"})

-----------------------------------------------------------------------------
(* What the comments say and the code does not do.                          *)

\* "Repair a process that died inside either fresh-index bulk window"
\* (db/index.ts:107).
GuestIsHarmless == pc = "opened" => fts = ToSet(stored)

\* "The caller must pair this with endBulkNodeLoad() in a finally block"
\* (db/index.ts:118-121), which is not reached when a later statement of the
\* window throws: the flag is set after begin has returned.  The resolver sets
\* its own before (resolution/index.ts:1221-1223).
WindowsAreClosed ==
    pc = "returned" /\ ~broken => triggers = Triggers /\ indexes = Indexes

\* "Repair a process that died inside either fresh-index bulk window": that of
\* an empty database, whose journal is in memory.
CrashIsRepaired == pc # "torn"

\* "Phase-boundary fold: backfill the ENTIRE WAL now" (wal-valve.ts:150).
FoldBackfillsAll ==
    []["valve" \in setting /\ pc \in {"fold", "folding"} /\ pc' = "resolve" /\ ~gaveUp
       => Backlog = 0]_vars

\* "A partial pass (writer appended during it ...) leaves the baseline alone"
\* (wal-valve.ts:190-194).
BaselineIsFolded == [][baseline' # baseline => Backlog = 0]_vars

=============================================================================
