----------------------------- MODULE SyncPipeline -----------------------------
(***************************************************************************)
(* ExtractionOrchestrator.sync and indexAll (src/extraction/index.ts): how *)
(* the index of the C-family files is brought up to date with the disk,    *)
(* while files change, files fail, and the process crashes.                *)
(*                                                                         *)
(* Besides its own bytes a file is parsed with the macros of the whole     *)
(* project.  The manifest records what every file defines; when a change   *)
(* of it changes what a macro means, the unchanged files that use the      *)
(* macro are parsed again.  A marker in the database says that the stored  *)
(* graph may not be the one of the stored manifest.                        *)
(*                                                                         *)
(* There is one macro.  The content of a file is the number of the change  *)
(* that wrote it, which is its (size, mtime) as well; 0 is no file.  A     *)
(* batch of FILE_IO_BATCH_SIZE files is read, then parsed, then stored:    *)
(* one batch is enough here.  Scans of the tree are single steps, and so   *)
(* is storing a file, but for a crash inside it.  The file lock excludes   *)
(* other writers, and the mutex of the process keeps indexFile, which      *)
(* stores one file and writes neither the manifest nor the marker, out of  *)
(* its runs.  (indexFiles gives up the file lock too early: WritesUnderLock *)
(* of FileLock.)                                                           *)
(***************************************************************************)
EXTENDS Naturals, FiniteSets

CONSTANTS
    Files,       \* the source files
    Headers,     \* those that may define the macro
    Users,       \* those that use it
    Defs,        \* definitions of the macro
    NoDef,       \* it is not defined
    Ambiguous,   \* it is defined in several ways
    DefAt,       \* what a header of some content defines
    NoManifest,  \* no manifest is stored, or none is in memory
    MaxChanges,    \* bound: changes to the tree
    MaxExtras      \* bound: calls of indexAll and of indexFile, and syncs that do
                   \* not find every file

ASSUME PipelineAssumption ==
    /\ IsFiniteSet(Files) /\ Headers \subseteq Files /\ Users \subseteq Files
    /\ NoDef \notin Defs /\ Ambiguous \notin Defs \cup {NoDef}
    /\ MaxChanges \in Nat /\ MaxExtras \in Nat
    /\ DefAt \in [1..MaxChanges + 1 -> Defs \cup {NoDef}]
    /\ NoManifest \notin [Headers -> Defs \cup {NoDef}]

VARIABLES
    disk, changes,
    \* the database
    row,          \* of each file: content it was parsed from, stat recorded with
                  \* it, and what the macro meant then to a file that uses it
    manifest,     \* CPP_MACRO_MANIFEST
    marked,       \* CPP_MACRO_CONTEXT_PENDING is '1'
    \* the process
    mem,          \* globalMacroManifest
    pc, op,       \* the phase of the run in flight, and what it is
    recovering,   \* macroContextWasPending
    present,      \* currentFiles
    todo,         \* the files the phase has yet to treat
    gone,         \* removedCppMacroFiles
    seen,         \* changedSourceContents; 0 when there is none
    toIndex,      \* filesToIndex
    cand,         \* macroManifestCandidate
    affected,     \* whose parse the change of meaning affects: "none" (that is,
                  \* macroSemanticsChanged is false), "users", "all"
    forced,       \* macroInvalidatedFilePaths
    unread, content, unstat, stat,   \* readFile and stat of the batch
    failed,       \* syncErrors is not empty
    extras,
    \* history
    undisturbed,  \* nothing has changed since this full sync began
    skipped,      \* it has skipped a file that differs, or not found one that exists
    fresh,        \* nothing has changed since some full sync that succeeded
    causes        \* what happened that the pipeline does not cope with

dbVars    == <<row, manifest, marked>>
planVars  == <<recovering, present, gone, seen, cand, affected, forced, toIndex>>
batchVars == <<unread, content, unstat, stat>>
histVars  == <<undisturbed, skipped, fresh, causes>>
vars == <<disk, changes, dbVars, mem, pc, op, planVars, todo, batchVars, failed,
          extras, histVars>>

Contents  == 0..MaxChanges + 1
Manifests == [Headers -> Defs \cup {NoDef}]
Meanings  == Defs \cup {NoDef, Ambiguous}
NoRow     == [content |-> 0, stat |-> 0, macro |-> NoDef]
Tracked   == {f \in Files : row[f] # NoRow}
Exists    == {f \in Files : disk[f] # 0}

TypeOK ==
    /\ disk \in [Files -> Contents] /\ changes \in 0..MaxChanges
    /\ row \in [Files -> [content : Contents, stat : Contents, macro : Meanings]]
    /\ manifest \in Manifests \cup {NoManifest}
    /\ mem \in Manifests \cup {NoManifest} /\ cand \in Manifests \cup {NoManifest}
    /\ marked \in BOOLEAN /\ recovering \in BOOLEAN /\ failed \in BOOLEAN
    /\ undisturbed \in BOOLEAN /\ skipped \in BOOLEAN /\ fresh \in BOOLEAN
    /\ affected \in {"none", "users", "all"}
    /\ pc \in {"idle", "removing", "reconciling", "consumers", "reading", "unmarking",
               "indexing"}
    /\ op \in {"sync", "indexAll", "indexFile"}
    /\ present \subseteq Files /\ todo \subseteq Files /\ toIndex \subseteq Files
    /\ gone \subseteq Files /\ forced \subseteq toIndex
    /\ unread \subseteq toIndex /\ unstat \subseteq toIndex
    /\ seen \in [Files -> Contents] /\ content \in [Files -> Contents]
    /\ stat \in [Files -> Contents]
    /\ extras \in 0..MaxExtras
    /\ causes \subseteq {"edit", "memory", "rowless", "indexAll", "reverted", "unread",
                        "unmarked"}

\* scanCppMacroFileContribution
Contribution(f, c) == IF f \in Headers /\ c # 0 THEN DefAt[c] ELSE NoDef

\* buildCppMacroContext: only an unambiguous definition counts.
Meaning(m) ==
    LET ds == {m[h] : h \in Headers} \ {NoDef}
    IN  IF ds = {} THEN NoDef
        ELSE IF Cardinality(ds) = 1 THEN CHOOSE d \in ds : TRUE ELSE Ambiguous

\* What a file is parsed with when m is in memory.
ParsedWith(f, m) == IF f \in Users THEN Meaning(m) ELSE NoDef

\* What the headers define.
OnDisk == [h \in Headers |-> Contribution(h, disk[h])]

\* scanGlobalMacroManifest: the macros of a header whose read fails are missing
\* from what it returns, without an error.
Scans == {[h \in Headers |-> IF h \in unreadable THEN NoDef ELSE OnDisk[h]] :
              unreadable \in SUBSET Headers}

Zero == [f \in Files |-> 0]

\* Nothing is in flight: a run that ended leaves no trace but mem.
AtRest ==
    /\ pc = "idle" /\ op = "sync" /\ recovering = FALSE
    /\ present = {} /\ todo = {} /\ gone = {} /\ seen = Zero
    /\ toIndex = {} /\ forced = {} /\ cand = NoManifest /\ affected = "none"
    /\ unread = {} /\ unstat = {} /\ content = Zero /\ stat = Zero
    /\ failed = FALSE /\ skipped = FALSE

\* The run in flight ends.
Rest ==
    /\ pc' = "idle" /\ op' = "sync" /\ recovering' = FALSE
    /\ present' = {} /\ todo' = {} /\ gone' = {} /\ seen' = Zero
    /\ toIndex' = {} /\ forced' = {} /\ cand' = NoManifest /\ affected' = "none"
    /\ unread' = {} /\ unstat' = {} /\ content' = Zero /\ stat' = Zero
    /\ failed' = FALSE /\ undisturbed' = FALSE /\ skipped' = FALSE

\* An empty index, an index of what is there, or one from before manifests.
Init ==
    /\ disk \in [Files -> {0, 1}] /\ changes = 0
    /\ \A f \in Files \ Headers : disk[f] = 1
    /\ \/ row = [f \in Files |-> NoRow] /\ manifest = NoManifest
       \/ /\ \E m \in Meanings : row = [f \in Files |->
                 IF disk[f] = 0 THEN NoRow
                 ELSE [content |-> 1, stat |-> 1,
                       macro |-> IF f \in Users THEN m ELSE NoDef]]
          /\ \/ manifest = NoManifest
             \/ manifest = OnDisk /\ \A f \in Tracked : row[f].macro = ParsedWith(f, OnDisk)
    /\ marked = FALSE /\ mem = NoManifest /\ AtRest
    /\ extras = 0 /\ undisturbed = FALSE /\ fresh = FALSE /\ causes = {}

-----------------------------------------------------------------------------
(* The disk.                                                               *)

Change(f, c) ==
    /\ changes < MaxChanges
    /\ changes' = changes + 1
    /\ disk' = [disk EXCEPT ![f] = c]
    /\ undisturbed' = FALSE /\ fresh' = FALSE
    /\ UNCHANGED <<dbVars, mem, pc, op, planVars, todo, batchVars, failed, extras,
                   skipped, causes>>

Write(f)  == Change(f, changes + 2)
Delete(f) == disk[f] # 0 /\ Change(f, 0)

-----------------------------------------------------------------------------
(* sync(): reconcile the files with their rows.                            *)

\* All files, or those the watcher names: currentFiles and trackedFiles.  The
\* files of a directory that cannot be read are not found.
Begin(paths) ==
    /\ pc = "idle"
    /\ pc' = "removing"
    /\ recovering' = marked
    /\ present' \in SUBSET (paths \cap Exists)
    /\ todo' = paths \cap Tracked
    /\ undisturbed' = (paths = Files)
    /\ skipped' = (present' # paths \cap Exists)
    /\ fresh' = (fresh /\ ~skipped')
    /\ IF skipped' THEN extras < MaxExtras /\ extras' = extras + 1 ELSE UNCHANGED extras
    /\ UNCHANGED <<disk, changes, dbVars, mem, op, gone, seen, cand, affected, forced,
                   toIndex, batchVars, failed, causes>>

\* The removal pass: the row of a file that is gone, or was not found, is deleted.
RemoveGone(f) ==
    /\ pc = "removing" /\ f \in todo
    /\ todo' = todo \ {f}
    /\ IF disk[f] = 0 \/ f \notin present
       THEN /\ marked' = TRUE
            /\ gone' = gone \cup {f}
            /\ row' = [row EXCEPT ![f] = NoRow]
       ELSE UNCHANGED <<marked, gone, row>>
    /\ UNCHANGED <<disk, changes, manifest, mem, pc, op, recovering, present, seen,
                   cand, affected, forced, toIndex, batchVars, failed, extras,
                   histVars>>

RemovalsDone ==
    /\ pc = "removing" /\ todo = {}
    /\ pc' = "reconciling"
    /\ todo' = present
    /\ UNCHANGED <<disk, changes, dbVars, mem, op, planVars, batchVars, failed,
                   extras, histVars>>

\* A row with the stat of the file is trusted; else the content decides.
Differs(f) ==
    /\ disk[f] # 0
    /\ disk[f] # row[f].stat
    /\ disk[f] # row[f].content

\* A file that is gone by now is skipped, and so is one that is there but cannot
\* be statted or read: its row stays, and the sync has no error.
Reconcile(f) ==
    /\ pc = "reconciling" /\ f \in todo
    /\ todo' = todo \ {f}
    /\ \/ /\ Differs(f)
          /\ toIndex' = toIndex \cup {f}
          /\ seen' = [seen EXCEPT ![f] = disk[f]]
          /\ UNCHANGED skipped
       \/ /\ Differs(f)
          /\ skipped' = TRUE
          /\ UNCHANGED <<toIndex, seen>>
       \/ ~Differs(f) /\ UNCHANGED <<toIndex, seen, skipped>>
    /\ UNCHANGED <<disk, changes, dbVars, mem, pc, op, recovering, present, gone, cand,
                   affected, forced, batchVars, failed, extras, undisturbed, fresh,
                   causes>>

-----------------------------------------------------------------------------
(* The macro context.                                                      *)

\* persistedMacroManifest: what is in memory comes before what is stored.
Baseline == IF mem # NoManifest THEN mem ELSE manifest

NeedsMacroWork ==
    \/ recovering \/ toIndex # {} \/ gone # {}
    \/ manifest = NoManifest /\ present \cup Tracked # {}

\* From the sources when the baseline is missing or in doubt, else from the
\* baseline and the contents that the reconcile read.
Candidate ==
    IF recovering \/ Baseline = NoManifest THEN OnDisk
    ELSE [h \in Headers |-> IF seen[h] # 0 THEN Contribution(h, seen[h])
                            ELSE IF h \in gone THEN NoDef ELSE Baseline[h]]

\* What it may be instead, when it comes from a scan.
Candidates == IF recovering \/ Baseline = NoManifest THEN Scans ELSE {Candidate}

\* A run that was cut short parsed files with another meaning than that of the
\* stored manifest, and the disk is back at the latter by now.
Reverted ==
    /\ recovering /\ Baseline = manifest /\ manifest # NoManifest
    /\ Meaning(Candidate) = Meaning(Baseline)
    /\ \E f \in Users \cap Tracked : row[f].macro # Meaning(Baseline)

\* The candidate m is installed, and the marker set before any row is replaced.
InstallMacros(m, change) ==
    /\ pc = "reconciling" /\ todo = {} /\ NeedsMacroWork
    /\ pc' = "consumers"
    /\ cand' = m /\ mem' = m
    /\ affected' = IF Baseline = NoManifest THEN "all"
                   ELSE IF Meaning(Baseline) # Meaning(m) THEN "users"
                   ELSE "none"
    /\ marked' = (marked \/ change)
    /\ causes' = causes
         \cup {c \in {"memory"} : mem \notin {NoManifest, manifest}}
         \cup {c \in {"unread"} : m # Candidate}
         \cup {c \in {"reverted"} : Reverted}
    /\ UNCHANGED <<disk, changes, row, manifest, op, recovering, present, todo, gone,
                   seen, forced, toIndex, batchVars, failed, extras, undisturbed,
                   skipped, fresh>>

\* Mutant: the marker is set for a change of meaning only.
MacrosMarkMeaning == \E m \in Candidates : InstallMacros(m, affected' # "none")

Macros == \E m \in Candidates : InstallMacros(m, m # Baseline)

\* Nothing has changed and there is a manifest.
NothingToDo ==
    /\ pc = "reconciling" /\ todo = {} /\ ~NeedsMacroWork
    /\ fresh' = (fresh \/ (undisturbed /\ ~skipped))
    /\ Rest
    /\ UNCHANGED <<disk, changes, dbVars, mem, extras, causes>>

\* The unchanged files that use the macro are queued as well; all files when
\* there was no manifest.
Consumers ==
    /\ pc = "consumers"
    /\ pc' = "reading"
    /\ \E found \in SUBSET Exists :
          /\ forced' = CASE affected = "all"   -> found \ toIndex
                         [] affected = "users" -> (Users \cap found) \ toIndex
                         [] affected = "none"  -> {}
          /\ causes' = causes \cup {c \in {"unread"} :
                 affected # "none" /\ ~(Users \cap Exists \subseteq found \cup toIndex)}
    /\ toIndex' = toIndex \cup forced'
    /\ unread' = toIndex' /\ unstat' = toIndex' /\ todo' = toIndex'
    /\ UNCHANGED <<disk, changes, dbVars, mem, op, recovering, present, gone, seen,
                   cand, affected, content, stat, failed, extras, undisturbed, skipped,
                   fresh>>

-----------------------------------------------------------------------------
(* indexAll(): no reconcile.  Every file is read, none is removed, and the  *)
(* context is scanned from the sources.                                     *)

BeginIndexAll ==
    /\ pc = "idle" /\ extras < MaxExtras
    /\ extras' = extras + 1
    /\ pc' = "reading" /\ op' = "indexAll"
    /\ mem' \in Scans /\ cand' = mem'
    /\ toIndex' \in SUBSET Exists
    /\ unread' = toIndex' /\ unstat' = toIndex' /\ todo' = toIndex'
    /\ causes' = causes
         \cup {c \in {"indexAll"} : Tracked # {} \/ manifest # NoManifest}
         \cup {c \in {"unread"} : mem' # OnDisk}
    /\ undisturbed' = FALSE
    /\ UNCHANGED <<disk, changes, dbVars, recovering, present, gone, seen, affected,
                   forced, content, stat, failed, skipped, fresh>>

\* indexFile(): one file, for indexFiles and for the fallback of a sync, which
\* forces it.
BeginIndexFile(f, force) ==
    /\ pc = "idle" /\ extras < MaxExtras
    /\ extras' = extras + 1
    /\ pc' = "indexing" /\ op' = "indexFile"
    /\ toIndex' = {f} /\ unread' = {f} /\ unstat' = {f} /\ todo' = {f}
    /\ forced' = {g \in {f} : force}
    /\ UNCHANGED <<disk, changes, dbVars, mem, recovering, present, gone, seen, cand,
                   affected, content, stat, failed, histVars>>

-----------------------------------------------------------------------------
(* Read, parse and store.                                                  *)

\* sync starts readFile and stat together, indexAll and indexFile one after the
\* other.
ReadFile(f) ==
    /\ pc \in {"reading", "indexing"} /\ f \in unread
    /\ op = "indexFile" => f \notin unstat
    /\ unread' = unread \ {f}
    /\ content' = [content EXCEPT ![f] = disk[f]]
    /\ UNCHANGED <<disk, changes, dbVars, mem, pc, op, planVars, todo, unstat, stat,
                   failed, extras, histVars>>

Stat(f) ==
    /\ pc \in {"reading", "indexing"} /\ f \in unstat
    /\ op = "indexAll" => f \notin unread
    /\ unstat' = unstat \ {f}
    /\ stat' = [stat EXCEPT ![f] = disk[f]]
    /\ UNCHANGED <<disk, changes, dbVars, mem, pc, op, planVars, todo, unread, content,
                   failed, extras, histVars>>

AllRead   == unread \cup unstat = {}
BatchRead == pc = "reading" /\ AllRead

\* Mutant: a forced file of the same content is left alone too.
NewRowIgnoresForce(f) ==
    IF row[f].content = content[f] THEN row[f]
    ELSE [content |-> content[f], stat |-> stat[f], macro |-> ParsedWith(f, mem)]

\* storeExtractionResult leaves a row of the same content alone, unless forced.
NewRow(f) ==
    IF row[f].content = content[f] /\ f \notin forced THEN row[f]
    ELSE [content |-> content[f], stat |-> stat[f], macro |-> ParsedWith(f, mem)]

\* A file that could be read and parsed is stored; the others keep their rows.
Store(f) ==
    /\ BatchRead /\ f \in todo
    /\ todo' = todo \ {f}
    /\ \/ /\ content[f] # 0 /\ stat[f] # 0
          /\ row' = [row EXCEPT ![f] = NewRow(f)]
          /\ UNCHANGED failed
       \/ failed' = TRUE /\ UNCHANGED row
    /\ causes' = IF \/ content[f] # stat[f]
                    \/ f \in Headers /\ Contribution(f, content[f]) # mem[f]
                 THEN causes \cup {"edit"} ELSE causes
    /\ UNCHANGED <<disk, changes, manifest, marked, mem, pc, op, planVars, batchVars,
                   extras, undisturbed, skipped, fresh>>

\* The manifest is stored when no change of meaning is left half done, ...
Publish ==
    /\ BatchRead /\ todo = {}
    /\ affected = "none" \/ ~failed
    /\ pc' = "unmarking"
    /\ manifest' = cand
    /\ causes' = IF \E h \in Headers \ Tracked : cand[h] # NoDef
                 THEN causes \cup {"rowless"} ELSE causes
    /\ UNCHANGED <<disk, changes, row, marked, mem, op, planVars, todo, batchVars,
                   failed, extras, undisturbed, skipped, fresh>>

\* ... then the marker is cleared, and the run is over.
Unmark ==
    /\ pc = "unmarking"
    /\ marked' = FALSE
    /\ fresh' = (fresh \/ (undisturbed /\ ~failed /\ ~skipped))
    /\ Rest
    /\ UNCHANGED <<disk, changes, row, manifest, mem, extras, causes>>

\* The run is incomplete: the marker stays.
EndIncomplete ==
    /\ BatchRead /\ todo = {}
    /\ affected # "none" /\ failed
    /\ Rest
    /\ UNCHANGED <<disk, changes, dbVars, mem, extras, fresh, causes>>

\* An exception ends the run (the database, a scan, the worker pool), or
\* indexAll is aborted: what was stored stays, and so does mem.
Throw ==
    /\ pc # "idle"
    /\ Rest
    /\ UNCHANGED <<disk, changes, dbVars, mem, extras, fresh, causes>>

\* What indexFile has read will be parsed and stored.
Readable(f) == AllRead /\ f \in todo /\ content[f] # 0 /\ stat[f] # 0

\* ensureGlobalMacroNames: the macros in memory serve, whatever is stored and
\* whatever the disk says; when there are none, those of a scan.
EnsureMacros(f) ==
    /\ pc = "indexing" /\ Readable(f) /\ mem = NoManifest
    /\ mem' \in Scans
    /\ UNCHANGED <<disk, changes, dbVars, pc, op, planVars, todo, batchVars, failed,
                   extras, histVars>>

\* A row that the stored manifest does not describe is about to be written, and
\* no marker says so.
Unmarks(f) ==
    /\ ~marked /\ manifest # NoManifest /\ NewRow(f) # row[f]
    /\ \/ f \in Headers /\ manifest[f] # Contribution(f, content[f])
       \/ f \in Users /\ Meaning(manifest) # Meaning(mem)

StoreIndexed(f) ==
    /\ pc = "indexing" /\ Readable(f) /\ mem # NoManifest
    /\ row' = [row EXCEPT ![f] = NewRow(f)]
    /\ causes' = causes
         \cup {c \in {"edit"} : content[f] # stat[f]}
         \cup {c \in {"unmarked"} : Unmarks(f)}
    /\ Rest
    /\ UNCHANGED <<disk, changes, manifest, marked, mem, extras, fresh>>

\* The process dies, perhaps inside storeExtractionResult, where the row of a
\* file is deleted before the new one is written: the next full sync will have to
\* find that out.
Crash ==
    /\ \/ UNCHANGED <<row, fresh, causes>>
       \/ /\ pc \in {"reading", "indexing"} /\ mem # NoManifest
          /\ \E f \in todo :
                /\ Readable(f) /\ NewRow(f) # row[f]
                /\ row' = [row EXCEPT ![f] = NoRow]
                /\ causes' = causes \cup {c \in {"rowless"} : f \in Headers}
          /\ fresh' = FALSE
    /\ mem' = NoManifest
    /\ Rest
    /\ UNCHANGED <<disk, changes, manifest, marked, extras>>

-----------------------------------------------------------------------------
Sync == \/ \E paths \in (SUBSET Files) \ {{}} : Begin(paths)
        \/ \E f \in Files : RemoveGone(f) \/ Reconcile(f)
        \/ RemovalsDone \/ Macros \/ NothingToDo \/ Consumers

Extract == \/ \E f \in Files : ReadFile(f) \/ Stat(f) \/ Store(f)
           \/ Publish \/ Unmark \/ EndIncomplete \/ Throw

IndexFile == \E f \in Files : \/ \E force \in BOOLEAN : BeginIndexFile(f, force)
                               \/ EnsureMacros(f) \/ StoreIndexed(f)

Next == \/ \E f \in Files : Write(f) \/ Delete(f)
        \/ Sync \/ BeginIndexAll \/ IndexFile \/ Extract \/ Crash

Spec == Init /\ [][Next]_vars

-----------------------------------------------------------------------------
(* Properties                                                              *)

\* The rows that a reconcile will trust are those that the manifest m describes.
\* (A file that changed or vanished since is parsed or removed anyway.)
Trusted == {f \in Files : row[f].content = disk[f]}
TrueOfHeaders(m) == \A h \in Headers \cap Trusted : m[h] = Contribution(h, disk[h])
TrueOfUsers(m)   == \A f \in Users \cap Trusted \cap Tracked : row[f].macro = Meaning(m)
Describes(m)     == TrueOfHeaders(m) /\ TrueOfUsers(m)

\* Whenever the marker is not set, and that is what the next process finds
\* after a crash at any point, the stored manifest describes the stored graph:
\* every file that uses the macro was parsed with what the manifest says it
\* means, in the middle of a run as well as after one that failed.  Short of the
\* causes; files that a sync skips are none of them.
UnmarkedManifestIsTrue ==
    causes = {} /\ ~marked /\ manifest # NoManifest => Describes(manifest)

\* A full sync that succeeds while nothing changes, finds every file and skips
\* none that differs, leaves the index that a new project would get, whatever crashes,
\* failed files, exceptions, skipped files, scoped syncs and calls of indexFile
\* came before it; and what runs after it does not spoil that, short of a crash
\* that takes the row of a file with it and of a sync that does not find a file.
FullSyncRepairs ==
    causes = {} /\ fresh /\ pc = "idle" =>
        \A f \in Files :
            /\ row[f].content = disk[f]
            /\ f \in Users \cap Tracked => row[f].macro = Meaning(OnDisk)

\* "An already-indexed file whose size AND mtime both match the DB is
\* unchanged": no row records a stat of content that it was not parsed from.
StatVouchesForContent ==
    \A f \in Tracked : row[f].stat = disk[f] => row[f].content = disk[f]

\* A retry in the process whose sync was incomplete must not believe that the
\* old graph was produced with the newer context: between runs, an unmarked
\* manifest describes the graph.
RetryNeverTrustsNewerContext ==
    causes \subseteq {"memory"} /\ pc = "idle" /\ ~marked /\ manifest # NoManifest
        => Describes(manifest)

\* The same of an indexAll over an index that exists, whether it finishes or is
\* killed: a manifest that is true of the headers is true of their users.
IndexNeverTrustsNewerContext ==
    causes \subseteq {"indexAll"} /\ pc = "idle" /\ ~marked /\ manifest # NoManifest
        => (TrueOfHeaders(manifest) => TrueOfUsers(manifest))

\* "A content change that preserves both [size and mtime] exactly is the blind
\* spot": a full sync that ends without an error while nothing changes has left
\* no row of other content.
OnlyStatIsBlind ==
    [][causes = {} /\ undisturbed /\ ~failed /\ (NothingToDo \/ Unmark)
         => \A f \in Files : row'[f].content = disk[f]]_vars

\* "Reconstruct exclusively from current bytes": a manifest that was scanned, and
\* published without the marker, describes the graph.
ScanReadsCurrentBytes ==
    causes \subseteq {"unread"} /\ pc = "idle" /\ ~marked /\ manifest # NoManifest
        => Describes(manifest)

\* "Pending means a previous process may have updated some file rows without
\* publishing the matching context": when the marker is not set, no call of
\* indexFile has done so either.
IndexFileIsMarked ==
    causes \subseteq {"unmarked"} /\ pc = "idle" /\ ~marked /\ manifest # NoManifest
        => Describes(manifest)

=============================================================================
