------------------------------- MODULE EdgeSync -------------------------------
(***************************************************************************)
(* The edges between files over incremental syncs: what sync does to the   *)
(* references of files that did not change when the files they point into  *)
(* are stored again or removed (storeExtractionResult, rewireEdges and     *)
(* sync of src/extraction/index.ts; sync of src/index.ts).                 *)
(*                                                                         *)
(* A reference is <<f, n>>: file f uses the name n.  It is pending, parked *)
(* as failed, or an edge <<f, n, node>>; a node is <<g, n, l>>, a symbol   *)
(* of file g called n at line l: its id is made of these, and n stands for *)
(* a (name, kind).  Replacing or deleting a node deletes its edges, and    *)
(* the references that start there.                                        *)
(*                                                                         *)
(* Processes take turns (FileLock).  Each keeps the caches of its resolver *)
(* from one sync to the next.  A process may die, or a sync throw, between *)
(* any two transactions, and files change at any time.  SyncPipeline       *)
(* models what decides which files are stored.                             *)
(***************************************************************************)
EXTENDS Naturals, FiniteSets

CONSTANTS
    Files, Names, Lines, Procs,
    Contents,     \* of each file, what it may contain
    Absent,       \* no content: the file does not exist, or is not tracked
    Origin,       \* what the files contain at first, all of it indexed
    MaxChanges,   \* bound: changes to the files
    MaxCrashes,   \* bound: crashes, and syncs that throw
    PerName,      \* perNameCeiling
    Doubtful,     \* references that the resolver may park although their name is known
    Unstamped,    \* those whose edges in the index at first have no refName
    Cold          \* a cache that is not filled

ASSUME EdgeSyncAssumption ==
    /\ IsFiniteSet(Files) /\ IsFiniteSet(Names) /\ IsFiniteSet(Lines)
    /\ \A f \in Files : \A c \in Contents[f] :
         c.defines \subseteq Names \X Lines /\ c.uses \subseteq Names
    /\ DOMAIN Origin = Files
    /\ \A f \in Files : Origin[f] \in Contents[f] /\ Absent \notin Contents[f]
    /\ Doubtful \cup Unstamped \subseteq Files \X Names
    /\ {MaxChanges, MaxCrashes, PerName} \subseteq Nat

VARIABLES
    disk, changes, crashes,
    \* the database
    row,          \* the content a file was stored from
    nodes, edges, pending, failed,
    unstamped,    \* references whose edge has no refName
    \* the resolvers, one in each process
    known,        \* knownNames, or Cold
    cached,       \* nameCache: for each name its nodes, or Cold
    \* the sync that runs
    pc,
    sync,         \* its locals
    \* history
    forgiven,     \* references that a crash, or a file that cannot be read, took
    forgotten,    \* references whose files the fallback itself recorded
    missed,       \* names of files whose retry did not come about
    dropped,      \* references that a cached node took which was gone
    overlooked,   \* those of files that count as changed and were not stored
    unnamed,      \* those whose edges had no refName when their target was removed
    popular,      \* names that the retry left aside, as too many rows have them
    refused       \* edges that the resolver could have made of a parked reference

envVars == <<disk, changes, crashes>>
dbVars == <<row, nodes, edges, pending, failed, unstamped>>
caches == <<known, cached>>
skips == <<overlooked, unnamed, popular>>
history == <<forgiven, forgotten, missed, dropped, skips, refused>>
vars == <<envVars, dbVars, caches, pc, sync, history>>

NoFile == "no file"
Nodes(f, c) == {<<f, d[1], d[2]>> : d \in c.defines}
Uses(f, c) == {<<f, n>> : n \in c.uses}

NodesOf(f) == {v \in nodes : v[1] = f}
Incoming(f) == {e \in edges : e[3][1] = f /\ e[1] # f}
Ref(e) == <<e[1], e[2]>>
Named(n, among) == {v \in among : v[2] = n}

\* The edges that the references could become
Offers(refs) == UNION {{<<r[1], r[2], v>> : v \in Named(r[2], nodes)} : r \in refs}

\* References that the files use and the database does not know of.
Limbo == {r \in UNION {Uses(f, row[f]) : f \in {g \in Files : row[g] # Absent}} :
             r \notin pending \cup failed \cup {Ref(e) : e \in edges}}

\* by: the process; phase: "sync", or the "fallback" of rewiring; todo: files
\* to remove or to store; file, content: the one that is treated, and what was
\* read of it; saved: savedEdges; unwired: syncRewireFailures; changed:
\* changedFilePaths; resurrected: resurrectedReferenceSourceFiles; removed:
\* filesRemoved > 0.
NoSync == [by |-> "no process", phase |-> "sync", todo |-> {}, file |-> NoFile,
           content |-> Absent, saved |-> {}, unwired |-> {}, changed |-> {},
           resurrected |-> {}, removed |-> FALSE]

Init ==
    /\ disk = Origin /\ changes = 0 /\ crashes = 0
    /\ row = Origin
    /\ nodes = UNION {Nodes(f, Origin[f]) : f \in Files}
    /\ LET refs == UNION {Uses(f, Origin[f]) : f \in Files}
           unknown == {r \in refs : Named(r[2], nodes) = {}}
       IN  \E parked \in SUBSET refs : \E target \in [refs \ parked -> nodes] :
             /\ unknown \subseteq parked /\ parked \subseteq unknown \cup Doubtful
             /\ \A r \in refs \ parked : target[r][2] = r[2]
             /\ failed = parked /\ refused = Offers(parked)
             /\ edges = {<<r[1], r[2], target[r]>> : r \in refs \ parked}
             /\ unstamped = Unstamped \ parked
    /\ pending = {}
    /\ known = [p \in Procs |-> Cold] /\ cached = [p \in Procs |-> [n \in Names |-> Cold]]
    /\ pc = "idle" /\ sync = NoSync
    /\ forgiven = {} /\ forgotten = {} /\ missed = {} /\ dropped = {}
    /\ overlooked = {} /\ unnamed = {} /\ popular = {}

-----------------------------------------------------------------------------
(* Transactions.                                                            *)

\* DELETE FROM nodes, with its cascade, of the file or of replaced nodes
Cascade(f, gone) ==
    /\ edges' = {e \in edges : e[1] # f /\ e[3] \notin gone}
    /\ refused' = {e \in refused : e[1] # f /\ e[3] \notin gone}
    /\ pending' = {r \in pending : r[1] # f}
    /\ failed' = {r \in failed : r[1] # f}
    /\ UNCHANGED unstamped

DeleteFile(f) ==
    /\ row' = [row EXCEPT ![f] = Absent]
    /\ nodes' = nodes \ NodesOf(f)
    /\ Cascade(f, NodesOf(f))

ClearCaches(p) ==
    /\ known' = [known EXCEPT ![p] = Cold]
    /\ cached' = [cached EXCEPT ![p] = [n \in Names |-> Cold]]

\* What the resolver of p finds for a name, which it may know from before
KnownNames(p) == IF known[p] = Cold THEN {v[2] : v \in nodes} ELSE known[p]
Found(p, n) == IF n \notin KnownNames(p) THEN {}
               ELSE IF cached[p][n] = Cold THEN Named(n, nodes) ELSE cached[p][n]

FillCaches(p, names) ==
    /\ known' = IF names = {} THEN known ELSE [known EXCEPT ![p] = KnownNames(p)]
    /\ cached' = [cached EXCEPT ![p] = [n \in Names |->
                     IF n \in names \cap KnownNames(p) THEN Found(p, n) ELSE @[n]]]

\* resolveAndPersist: a reference to a name that is not known is parked, any
\* other goes to a node found for the name, or is parked since none of them
\* suits it.  insertEdges leaves out an edge to a node that is gone; the
\* reference is deleted all the same.
Persist(p, refs) ==
    LET possible == {r \in refs : Found(p, r[2]) # {}}
    IN  \E parked \in SUBSET refs :
        LET bound == refs \ parked
        IN  /\ refs \ possible \subseteq parked /\ parked \cap possible \subseteq Doubtful
            /\ \E target \in [bound -> UNION {Found(p, r[2]) : r \in bound}] :
                 /\ \A r \in bound : target[r] \in Found(p, r[2])
                 /\ edges' = edges \cup
                      {<<r[1], r[2], target[r]>> : r \in {q \in bound : target[q] \in nodes}}
                 /\ dropped' = dropped \cup {r \in bound : target[r] \notin nodes}
            /\ pending' = pending \ refs
            /\ failed' = (failed \ refs) \cup parked
            /\ missed' = missed \cup
                 {r[2] : r \in {q \in parked : ~(Named(q[2], nodes) \subseteq Found(p, q[2]))}}
            /\ refused' = {e \in refused : Ref(e) \notin refs} \cup
                 {e \in Offers(parked) : e[3] \in Found(p, e[2])}
            /\ unstamped' = unstamped \ bound
            /\ UNCHANGED <<row, nodes>>

-----------------------------------------------------------------------------
(* Reconciling: files that are gone.                                        *)

StartSync(p) ==
    /\ pc = "idle" /\ pc' = "remove"
    /\ sync' = [NoSync EXCEPT
                  !.by = p,
                  !.todo = {f \in Files : row[f] # Absent /\ disk[f] = Absent}]
    /\ UNCHANGED <<envVars, dbVars, caches, history>>

\* The incoming edges become pending references before they are deleted, but
\* for those that do not say what the reference was.
Resurrect(f) ==
    /\ pc = "remove" /\ f \in sync.todo
    /\ pc' = "delete"
    /\ LET refs == {Ref(e) : e \in Incoming(f)} \ unstamped
       IN  /\ pending' = pending \cup refs
           /\ sync' = [sync EXCEPT !.file = f, !.todo = @ \ {f},
                                   !.resurrected = @ \cup {r[1] : r \in refs}]
    /\ UNCHANGED <<envVars, row, nodes, edges, failed, unstamped, caches, history>>

Delete ==
    /\ pc = "delete" /\ pc' = "remove"
    /\ DeleteFile(sync.file)
    /\ sync' = [sync EXCEPT !.file = NoFile, !.removed = TRUE]
    /\ unnamed' = unnamed \cup ({Ref(e) : e \in Incoming(sync.file)} \cap unstamped)
    /\ UNCHANGED <<envVars, caches, forgiven, forgotten, missed, dropped, overlooked, popular>>

Detect ==
    /\ pc = "remove" /\ sync.todo = {}
    /\ pc' = "store"
    /\ sync' = [sync EXCEPT !.todo = {f \in Files : disk[f] \notin {Absent, row[f]}}]
    /\ UNCHANGED <<envVars, dbVars, caches, history>>

-----------------------------------------------------------------------------
(* storeExtractionResult, one transaction after the other.                  *)

\* The file is read and parsed, its incoming edges are saved, and it is
\* deleted.
StoreFile(f) ==
    /\ pc = "store" /\ f \in sync.todo /\ disk[f] # Absent
    /\ pc' = "insert"
    /\ sync' = [sync EXCEPT !.file = f, !.content = disk[f], !.todo = @ \ {f},
                            !.saved = IF row[f] = Absent THEN {} ELSE Incoming(f)]
    /\ \/ row[f] # Absent /\ DeleteFile(f)
       \/ row[f] = Absent /\ UNCHANGED <<dbVars, refused>>
    /\ UNCHANGED <<envVars, caches, forgiven, forgotten, missed, dropped, skips>>

\* It is again what is stored, and no macro forces its parse: nothing is done,
\* and the file counts as changed.
StoreUnchanged(f) ==
    /\ pc = "store" /\ f \in sync.todo /\ sync.phase = "sync"
    /\ disk[f] # Absent /\ disk[f] = row[f]
    /\ sync' = [sync EXCEPT !.todo = @ \ {f}, !.changed = @ \cup {f}]
    /\ UNCHANGED <<envVars, dbVars, caches, pc, history>>

\* It cannot be read or parsed: what is stored of it stays.
SkipFile(f) ==
    /\ pc = "store" /\ f \in sync.todo
    /\ sync' = [sync EXCEPT !.todo = @ \ {f}]
    /\ forgiven' = IF sync.phase = "fallback"
                   THEN forgiven \cup {r \in Limbo : r[1] = f} ELSE forgiven
    /\ UNCHANGED <<envVars, dbVars, caches, pc, forgotten, missed, dropped, skips, refused>>

\* insertNodes replaces what a crash left of the file.
InsertNodes ==
    /\ pc = "insert" /\ pc' = "refer"
    /\ LET new == Nodes(sync.file, sync.content)
           gone == nodes \cap new
       IN  /\ nodes' = nodes \cup new
           /\ Cascade(sync.file, gone)
           /\ forgiven' = {r \in forgiven : r[1] # sync.file} \cup
                {Ref(e) : e \in {d \in edges : d[3] \in gone /\ d[1] # sync.file}}
    /\ UNCHANGED <<envVars, row, caches, sync, forgotten, missed, dropped, skips>>

InsertRefs ==
    /\ pc = "refer" /\ pc' = "rewire"
    /\ pending' = pending \cup Uses(sync.file, sync.content)
    /\ forgotten' = {r \in forgotten : r[1] # sync.file}
    /\ dropped' = {r \in dropped : r[1] # sync.file}
    /\ overlooked' = {r \in overlooked : r[1] # sync.file}
    /\ unnamed' = {r \in unnamed : r[1] # sync.file}
    /\ UNCHANGED <<envVars, row, nodes, edges, failed, unstamped, caches, sync, forgiven,
                   missed, popular, refused>>

\* For a mutant: any symbol of the file will do.
MatchesByFile(e) == Nodes(sync.file, sync.content)

\* The new symbols that an edge to an old one may go to: same name and kind.
Matches(e) == Named(e[3][2], Nodes(sync.file, sync.content))

\* For a mutant: an edge to a symbol that is gone is dropped without a record.
RewireKeepsQuiet ==
    /\ pc = "rewire" /\ pc' = "record"
    /\ LET wired == {e \in sync.saved : Cardinality(Matches(e)) = 1}
           lost == {e \in sync.saved : Cardinality(Matches(e)) > 1}
       IN  /\ edges' = edges \cup
                {<<e[1], e[2], CHOOSE v \in Matches(e) : TRUE>> : e \in wired}
           /\ sync' = [sync EXCEPT !.saved = {}, !.unwired = @ \cup {e[1] : e \in lost}]
           /\ forgotten' = IF sync.phase = "fallback"
                           THEN forgotten \cup {Ref(e) : e \in lost} ELSE forgotten
    /\ UNCHANGED <<envVars, row, nodes, pending, failed, unstamped, caches, forgiven,
                   missed, dropped, skips, refused>>

\* rewireEdges: a saved edge goes to the one symbol it matches; if there is
\* none, or more than one, its file is to be stored again.
Rewire ==
    /\ pc = "rewire" /\ pc' = "record"
    /\ LET wired == {e \in sync.saved : Cardinality(Matches(e)) = 1}
           lost == sync.saved \ wired
       IN  /\ edges' = edges \cup
                {<<e[1], e[2], CHOOSE v \in Matches(e) : TRUE>> : e \in wired}
           /\ sync' = [sync EXCEPT !.saved = {}, !.unwired = @ \cup {e[1] : e \in lost}]
           /\ forgotten' = IF sync.phase = "fallback"
                           THEN forgotten \cup {Ref(e) : e \in lost} ELSE forgotten
    /\ UNCHANGED <<envVars, row, nodes, pending, failed, unstamped, caches, forgiven,
                   missed, dropped, skips, refused>>

RecordFile ==
    /\ pc = "record" /\ pc' = "store"
    /\ row' = [row EXCEPT ![sync.file] = sync.content]
    /\ sync' = [sync EXCEPT !.file = NoFile, !.content = Absent,
                            !.changed = IF sync.phase = "sync" THEN @ \cup {sync.file} ELSE @]
    /\ missed' = IF sync.phase = "sync" THEN missed
                 ELSE missed \cup {v[2] : v \in NodesOf(sync.file)}
    /\ UNCHANGED <<envVars, nodes, edges, pending, failed, unstamped, caches,
                   forgiven, forgotten, dropped, skips, refused>>

Store == \/ \E f \in Files : StoreFile(f) \/ StoreUnchanged(f) \/ SkipFile(f)
         \/ InsertNodes \/ InsertRefs \/ Rewire \/ RecordFile

-----------------------------------------------------------------------------
(* The passes over the references.                                          *)

PendingOf(files) == {r \in pending : r[1] \in files}

Pass(from, to, refs) ==
    /\ pc = from /\ pc' = to
    /\ Persist(sync.by, refs) /\ FillCaches(sync.by, {r[2] : r \in refs})
    /\ UNCHANGED <<envVars, sync, forgiven, forgotten, overlooked, unnamed>>

\* For a mutant: only a removal clears the caches.
EndOfExtractionKeepsCaches ==
    /\ pc = "store" /\ sync.todo = {} /\ sync.phase = "sync"
    /\ pc' = "changed"
    /\ \/ sync.changed = {} /\ sync.removed /\ ClearCaches(sync.by)
       \/ (sync.changed # {} \/ ~sync.removed) /\ UNCHANGED caches
    /\ UNCHANGED <<envVars, dbVars, sync, history>>

\* runPostExtract clears the caches after a change, and sync itself after a
\* removal.
EndOfExtraction ==
    /\ pc = "store" /\ sync.todo = {} /\ sync.phase = "sync"
    /\ pc' = "changed"
    /\ \/ (sync.changed # {} \/ sync.removed) /\ ClearCaches(sync.by)
       \/ sync.changed = {} /\ ~sync.removed /\ UNCHANGED caches
    /\ UNCHANGED <<envVars, dbVars, sync, history>>

ResolveChanged ==
    Pass("changed", "resurrected", PendingOf(sync.changed)) /\ UNCHANGED popular
ResolveResurrected ==
    Pass("resurrected", "retry", PendingOf(sync.resurrected)) /\ UNCHANGED popular

\* Names that the changed files define, and those of them that too many failed
\* references have
NewNames == {v[2] : v \in {w \in nodes : w[1] \in sync.changed}}
TooMany == {n \in NewNames : Cardinality({r \in failed : r[2] = n}) > PerName}

\* For a mutant: the failed references of the changed files are retried.
RetryableOfChanged == {r \in failed : r[1] \in sync.changed}

\* Failed references that a symbol of a changed file may satisfy
Retryable == {r \in failed : r[2] \in NewNames \ TooMany}

RetryFailed ==
    /\ Pass("retry", "fallback", Retryable)
    /\ popular' = (popular \ NewNames) \cup TooMany

\* failedRewireSourceFiles are stored again.  What these stores add to them is
\* not read again.
Fallback ==
    /\ pc = "fallback" /\ pc' = "store"
    /\ LET again == sync.unwired \ sync.changed
       IN  sync' = [sync EXCEPT !.phase = "fallback", !.todo = again, !.unwired = {},
                                !.resurrected = again]
    /\ overlooked' = overlooked \cup {r \in Limbo : r[1] \in sync.unwired \cap sync.changed}
    /\ UNCHANGED <<envVars, dbVars, caches, forgiven, forgotten, missed, dropped, unnamed,
                   popular, refused>>

\* The references of the files stored again, which resurrected now names
ResolveFallback ==
    /\ sync.phase = "fallback" /\ sync.todo = {}
    /\ Pass("store", "sweep", PendingOf(sync.resurrected)) /\ UNCHANGED popular

\* The sweep of the rows that an interrupted run left, and the synthesis after
\* it, or after changes without it, which clears the caches.
Sweep ==
    /\ pc = "sweep" /\ pc' = "idle"
    /\ Persist(sync.by, pending)
    /\ IF pending # {} \/ sync.changed \cup sync.resurrected # {}
       THEN ClearCaches(sync.by) ELSE UNCHANGED caches
    /\ sync' = NoSync
    /\ UNCHANGED <<envVars, forgiven, forgotten, skips>>

-----------------------------------------------------------------------------
Edit(f, c) ==
    /\ changes < MaxChanges /\ c # disk[f]
    /\ disk' = [disk EXCEPT ![f] = c] /\ changes' = changes + 1
    /\ UNCHANGED <<crashes, dbVars, caches, pc, sync, history>>

\* The sync throws; its process dies, or goes on with its caches.
Crash ==
    /\ pc # "idle" /\ crashes < MaxCrashes
    /\ crashes' = crashes + 1
    /\ pc' = "idle" /\ sync' = NoSync
    /\ ClearCaches(sync.by) \/ UNCHANGED caches
    /\ forgiven' = forgiven \cup Limbo
    /\ missed' = missed \cup {v[2] : v \in {w \in nodes : w[1] \in sync.changed \cup {sync.file}}}
    /\ UNCHANGED <<disk, changes, dbVars, forgotten, dropped, skips, refused>>

Next == \/ \E p \in Procs : StartSync(p)
        \/ \E f \in Files : Resurrect(f) \/ \E c \in Contents[f] \cup {Absent} : Edit(f, c)
        \/ Delete \/ Detect \/ Store \/ EndOfExtraction
        \/ ResolveChanged \/ ResolveResurrected \/ RetryFailed
        \/ Fallback \/ ResolveFallback \/ Sweep \/ Crash

Spec == Init /\ [][Next]_vars

-----------------------------------------------------------------------------
(* Properties.                                                              *)

\* What the history says was lost
Excused == forgiven \cup forgotten \cup dropped \cup overlooked \cup unnamed

\* Between syncs every reference of a stored file is an edge, a row that the
\* next sweep takes up, or a row that is parked for the symbol to come: no
\* store or removal of the file it points into drops it silently
\* (extraction/index.ts:2010-2013, 2320-2323), but for those of the history.
NothingIsLost == pc = "idle" => Limbo \subseteq Excused

\* Between syncs an edge leads from a file that uses a name to a symbol of
\* that name, which is there.
EdgesAreTrue ==
    pc = "idle" =>
      \A e \in edges : /\ e[3] \in nodes /\ e[3][2] = e[2]
                       /\ row[e[1]] # Absent => e[2] \in row[e[1]].uses

\* Between syncs a parked reference has been offered every stored symbol of its
\* name since both are there, and does not suit it: no symbol came, or was stored
\* anew, without a retry (src/index.ts:715-717), but for names that too many
\* parked references have and those of the history.
ParkedWasOffered ==
    pc = "idle" =>
      \A r \in failed : r[2] \in missed \cup popular \/ Offers({r}) \subseteq refused

\* The passes over the references of changed files, over resurrected ones and
\* over failed ones see the database as it is: none drops a reference whose
\* node was replaced, or parks one whose name is there, because a cache still
\* has what an earlier sync, or another process, changed since
\* (src/index.ts:677-687).
PassesSeeTheDatabase ==
    [][(pc \in {"changed", "resurrected", "retry"} /\ pc' # "idle") =>
         UNCHANGED <<dropped, missed>>]_vars

\* "Record source files so they get re-indexed (which will surface the
\* now-unresolved references)" (extraction/index.ts:2096-2097, 2163-2164).
RecordedFilesAreStoredAgain == pc = "idle" => forgotten = {}

\* "Only the files whose edges couldn't be re-wired ... need the old co-importer
\* re-index fallback" (src/index.ts:739-741), but not those in changedFilePaths,
\* among which are files that were not stored (extraction/index.ts:2719).
UnwiredAreStoredAgain == overlooked = {}

\* The same of a crash between two transactions of a store.
CrashLosesNothing == pc = "idle" => forgiven = {}

\* A reference that was resolved has its edge: no cache of the resolver still
\* has a node that was replaced (resolution/index.ts:1053-1067).
CachesAreFresh == dropped = {}

=============================================================================
