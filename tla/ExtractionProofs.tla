--------------------------- MODULE ExtractionProofs ---------------------------
(***************************************************************************)
(* Proofs about the two modules of the extraction: SyncPipeline, a run     *)
(* over the files of a project, and ParsePool, the worker threads that     *)
(* parse them.                                                             *)
(*                                                                         *)
(* Of SyncPipeline: a database whose marker is not set describes the graph *)
(* stored in it, at every point of a run, and a full sync that succeeds    *)
(* while nothing changes repairs the index, both for any files, headers,   *)
(* users of the macro and number of changes.                               *)
(*                                                                         *)
(* Of ParsePool: no job is lost or doubled, no job and no waiting caller   *)
(* is stranded, and every step is one of the parse service or changes      *)
(* nothing of it, all for any jobs, workers, sizes and budgets.            *)
(***************************************************************************)
EXTENDS SyncPipeline, ParsePool, FiniteSetTheorems, SequenceTheorems, TLAPS

-----------------------------------------------------------------------------
(* The inductive invariant.                                                *)

\* The rows that a reconcile finds up to date.
Current == {f \in Files : disk[f] # 0 /\ row[f].content = disk[f]}

HeadersAgree(m) == \A f \in Headers \cap Current : m[f] = Contribution(f, disk[f])
UsersAgree(m)   == \A f \in Users \cap Current : row[f].macro = Meaning(m)

\* Contents are numbered in the order of the changes: no later change brings
\* one back.  A row is whole or absent.
Bounded ==
    \A f \in Files :
        /\ disk[f] <= changes + 1 /\ row[f].content <= changes + 1
        /\ content[f] <= changes + 1
        /\ row[f].content = 0 => row[f] = NoRow

\* What the phases of a run leave in its variables.
Phased ==
    /\ pc = "idle" => AtRest /\ ~undisturbed
    /\ pc \in {"removing", "reconciling", "consumers"} => op = "sync" /\ forced = {}
    /\ pc \in {"removing", "reconciling"} => affected = "none"
    /\ pc = "removing" => toIndex = {} /\ seen = Zero
    /\ pc = "reconciling" => \A f \in Files : seen[f] # 0 <=> f \in toIndex
    /\ pc \in {"removing", "reconciling"} =>
          gone \cap Tracked = {} /\ (marked /\ ~recovering => gone # {})
    /\ pc \in {"consumers", "reading", "unmarking"} => cand \in Manifests /\ mem = cand
    /\ op = "indexAll" => affected = "none" /\ ~undisturbed
    /\ pc = "indexing" => op = "indexFile" /\ ~undisturbed

\* The stat of a row is that of the content it was parsed from.
StatsAgree == \A f \in Files : row[f].stat = row[f].content

\* The stored manifest, while the marker is not set.
Unmarked ==
    ~marked /\ manifest # NoManifest =>
        /\ HeadersAgree(manifest) /\ UsersAgree(manifest)
        /\ \A h \in Headers \ Tracked : manifest[h] = NoDef

\* The same of a run that found it not set, until it installs its candidate:
\* the headers whose rows it has deleted are those in gone.
Baselined ==
    pc \in {"removing", "reconciling"} /\ ~recovering /\ manifest # NoManifest =>
        /\ HeadersAgree(manifest) /\ UsersAgree(manifest)
        /\ \A h \in Headers \ (Tracked \cup gone) : manifest[h] = NoDef

\* What the reconcile has queued is not up to date.
Queued == pc \in {"reconciling", "consumers"} => toIndex \cap Current = {}

\* The candidate, once installed.
Installed ==
    pc \in {"consumers", "reading", "unmarking"} =>
        /\ HeadersAgree(cand)
        /\ ~marked => affected = "none" /\ manifest \in {NoManifest, cand}
        /\ pc = "consumers" /\ affected = "none" => UsersAgree(cand)

\* The files yet to be stored: each will be given a new row, and with those of
\* the others all users are parsed with the candidate.
Storing ==
    pc = "reading" =>
        /\ \A f \in Users \cap Current :
              \/ row[f].macro = Meaning(cand)
              \/ affected # "none" /\ (f \in todo \/ failed)
        /\ \A f \in todo \ forced :
              /\ f \notin Current
              /\ f \notin unread /\ row[f].content # 0 => content[f] # row[f].content

Published ==
    pc = "unmarking" =>
        /\ manifest = cand /\ UsersAgree(cand)
        /\ \A h \in Headers \ Tracked : cand[h] = NoDef

\* A full sync during which nothing has changed, and which has skipped nothing
\* that differs.
Full ==
    undisturbed /\ ~skipped =>
        /\ op = "sync"
        /\ pc = "removing" =>
              present = Exists /\ \A f \in Tracked : f \in todo \/ disk[f] # 0
        /\ pc \in {"removing", "reconciling"} => gone \cap Exists = {}
        /\ pc = "reconciling" =>
              /\ present = Exists
              /\ \A f \in Exists : f \in todo \cup toIndex \/ row[f].content = disk[f]
              /\ \A f \in toIndex : seen[f] = disk[f]
        /\ pc \in {"reconciling", "consumers", "reading", "unmarking"} => Tracked \subseteq Exists
        /\ pc \in {"consumers", "reading", "unmarking"} => cand = OnDisk
        /\ pc = "consumers" => \A f \in Exists : f \in toIndex \/ row[f].content = disk[f]
        /\ pc = "reading" =>
              /\ \A f \in Exists : f \in todo \/ failed \/ row[f].content = disk[f]
              /\ \A f \in todo \ unread : content[f] = disk[f]
        /\ pc = "unmarking" => failed \/ \A f \in Exists : row[f].content = disk[f]

\* Since a full sync succeeded: what runs then has nothing to do.
UpToDate ==
    fresh =>
        /\ \A f \in Files : row[f].content = disk[f]
        /\ \A f \in Users \cap Tracked : row[f].macro = Meaning(OnDisk)
        /\ ~marked
        /\ manifest = OnDisk \/ (manifest = NoManifest /\ Exists = {})
        /\ pc # "consumers"
        /\ pc = "removing" => todo \subseteq present
        /\ pc \in {"removing", "reconciling"} =>
              present \subseteq Exists /\ toIndex = {} /\ gone = {} /\ ~recovering
        /\ pc \in {"reading", "unmarking"} =>
              op = "indexAll" /\ Exists = {} /\ todo = {} /\ cand = OnDisk
        /\ pc = "indexing" => \A f \in todo \ unread : content[f] = disk[f]

Core == /\ StatsAgree /\ Unmarked /\ Baselined /\ Queued /\ Installed /\ Storing
        /\ Published /\ Full /\ UpToDate

IInv == TypeOK /\ Bounded /\ Phased /\ (causes = {} => Core)

-----------------------------------------------------------------------------
(* The operators.                                                          *)

\* What a header defines, and the manifest of a scan, are of their types.
LEMMA ContributionType ==
    ASSUME NEW f \in Files, NEW c \in Contents
    PROVE  Contribution(f, c) \in Defs \cup {NoDef}
BY PipelineAssumption DEF Contribution, Contents

\* The meaning of a manifest is a definition, or that there is none or several.
LEMMA MeaningType ==
    ASSUME NEW m \in Manifests
    PROVE  Meaning(m) \in Meanings
<1> DEFINE ds == {m[h] : h \in Headers} \ {NoDef}
<1>1. ds \subseteq Defs
  BY DEF Manifests
<1>2. Meaning(m) = IF ds = {} THEN NoDef
                   ELSE IF Cardinality(ds) = 1 THEN CHOOSE d \in ds : TRUE ELSE Ambiguous
  BY DEF Meaning
<1> HIDE DEF ds
<1>3. CASE ds = {}
  BY <1>2, <1>3 DEF Meanings
<1>4. CASE ds # {}
  <2>1. (CHOOSE d \in ds : TRUE) \in ds
    BY <1>4
  <2>2. QED
    BY <1>1, <1>2, <1>4, <2>1 DEF Meanings
<1>5. QED
  BY <1>3, <1>4

\* What a file is parsed with is a meaning.
LEMMA ParsedType ==
    ASSUME NEW f \in Files, NEW m \in Manifests
    PROVE  ParsedWith(f, m) \in Meanings
BY MeaningType DEF ParsedWith, Meanings

\* A scan of the tree makes a manifest, and so does the candidate of a run.
LEMMA CandidateType ==
    ASSUME TypeOK
    PROVE  /\ OnDisk \in Manifests /\ Candidate \in Manifests
           /\ Scans \subseteq Manifests /\ Candidates \subseteq Manifests
<1>1. \A h \in Headers : h \in Files /\ disk[h] \in Contents /\ seen[h] \in Contents
  BY PipelineAssumption DEF TypeOK
<1>2. OnDisk \in Manifests
  BY <1>1, ContributionType DEF OnDisk, Manifests
<1>3. ASSUME ~recovering, Baseline # NoManifest
      PROVE  Candidate \in Manifests
  <2>1. Baseline \in Manifests
    BY <1>3 DEF TypeOK, Baseline
  <2>2. \A h \in Headers : Baseline[h] \in Defs \cup {NoDef}
    BY <2>1 DEF Manifests
  <2>3. QED
    BY <1>1, <1>3, <2>2, ContributionType DEF Candidate, Manifests
<1>4. Candidate \in Manifests
  BY <1>2, <1>3 DEF Candidate
<1>5. Scans \subseteq Manifests
  BY <1>2 DEF Scans, Manifests
<1>6. QED
  BY <1>2, <1>4, <1>5 DEF Candidates

\* No manifest is the absence of one.
LEMMA ManifestIsOne == NoManifest \notin Manifests
BY PipelineAssumption DEF Manifests

-----------------------------------------------------------------------------
(* Type correctness.                                                       *)

\* The variables have their types in the initial states.
LEMMA InitType == Init => TypeOK
<1> SUFFICES ASSUME Init PROVE TypeOK
  OBVIOUS
<1>1. disk \in [Files -> Contents] /\ changes \in 0..MaxChanges
  BY PipelineAssumption DEF Init, Contents
<1>2. OnDisk \in Manifests
  <2>1. \A h \in Headers : h \in Files /\ disk[h] \in Contents
    BY <1>1, PipelineAssumption
  <2>2. QED
    BY <2>1, ContributionType DEF OnDisk, Manifests
<1>3. row \in [Files -> [content : Contents, stat : Contents, macro : Meanings]]
  BY PipelineAssumption DEF Init, NoRow, Contents, Meanings
<1>4. Zero \in [Files -> Contents]
  BY PipelineAssumption DEF Zero, Contents
<1>5. manifest \in Manifests \cup {NoManifest} /\ mem = NoManifest /\ causes = {}
      /\ marked = FALSE /\ undisturbed = FALSE /\ fresh = FALSE /\ extras = 0 /\ AtRest
  BY <1>2 DEF Init
<1>6. extras \in 0..MaxExtras
  BY <1>5, PipelineAssumption
<1>7. QED
  BY <1>1, <1>3, <1>4, <1>5, <1>6 DEF AtRest, TypeOK

\* Every step keeps them.
LEMMA StepType ==
    ASSUME TypeOK, Phased, [Next]_vars
    PROVE  TypeOK'
<1> USE PipelineAssumption
<1>19. Zero \in [Files -> Contents] /\ NoRow \in [content : Contents, stat : Contents, macro : Meanings]
  BY DEF Zero, Contents, NoRow, Meanings
<1>20. Scans \subseteq Manifests /\ Candidates \subseteq Manifests
  BY CandidateType
<1>1. ASSUME NEW f \in Files, Write(f) \/ Delete(f)
      PROVE  TypeOK'
  <2>1. changes' \in 0..MaxChanges /\ changes + 2 \in Contents /\ 0 \in Contents
    <3>1. changes \in 0..MaxChanges /\ MaxChanges \in Nat
      BY DEF TypeOK
    <3>2. changes < MaxChanges /\ changes' = changes + 1
      BY <1>1 DEF Write, Delete, Change
    <3>3. QED
      BY <3>1, <3>2 DEF Contents
  <2>2. disk' \in [Files -> Contents]
    BY <1>1, <2>1 DEF TypeOK, Write, Delete, Change
  <2>3. /\ undisturbed' = FALSE /\ fresh' = FALSE
        /\ UNCHANGED <<row, manifest, marked, mem, pc, op, recovering, present, gone, seen,
                       cand, affected, forced, toIndex, todo, unread, content, unstat, stat,
                       failed, extras, skipped, causes>>
    BY <1>1 DEF Write, Delete, Change, dbVars, planVars, batchVars
  <2>4. /\ row' \in [Files -> [content : Contents, stat : Contents, macro : Meanings]]
        /\ manifest' \in Manifests \cup {NoManifest}
        /\ mem' \in Manifests \cup {NoManifest} /\ cand' \in Manifests \cup {NoManifest}
    BY <2>3 DEF TypeOK
  <2>5. seen' \in [Files -> Contents] /\ content' \in [Files -> Contents] /\ stat' \in [Files -> Contents]
    BY <2>3 DEF TypeOK
  <2>6. /\ present' \subseteq Files /\ todo' \subseteq Files /\ toIndex' \subseteq Files
        /\ gone' \subseteq Files /\ forced' \subseteq toIndex'
        /\ unread' \subseteq toIndex' /\ unstat' \subseteq toIndex'
    BY <2>3 DEF TypeOK
  <2>7. QED
    BY <2>1, <2>2, <2>3, <2>4, <2>5, <2>6 DEF TypeOK
<1>2. ASSUME NEW paths \in SUBSET Files, Begin(paths)
      PROVE  TypeOK'
  BY <1>2 DEF TypeOK, Begin, dbVars, batchVars, Exists, Tracked
<1>3. ASSUME NEW f \in Files, RemoveGone(f)
      PROVE  TypeOK'
  <2>1. row' \in [Files -> [content : Contents, stat : Contents, macro : Meanings]]
    BY <1>3, <1>19 DEF TypeOK, RemoveGone
  <2>2. marked' \in BOOLEAN
    BY <1>3 DEF TypeOK, RemoveGone
  <2>3. QED
    BY <1>3, <2>1, <2>2 DEF TypeOK, RemoveGone, dbVars, batchVars, histVars
<1>4. CASE RemovalsDone
  BY <1>4 DEF TypeOK, RemovalsDone, dbVars, planVars, batchVars, histVars
<1>5. ASSUME NEW f \in Files, Reconcile(f)
      PROVE  TypeOK'
  <2>1. seen' \in [Files -> Contents] /\ skipped' \in BOOLEAN
        /\ toIndex' \subseteq Files /\ toIndex \subseteq toIndex'
    BY <1>5 DEF TypeOK, Reconcile, Differs
  <2>2. QED
    BY <1>5, <2>1 DEF TypeOK, Reconcile, dbVars, batchVars
<1>6. CASE Macros
  BY <1>6, <1>20 DEF TypeOK, Macros, InstallMacros, dbVars, batchVars, histVars
<1>7. CASE NothingToDo
  BY <1>7, <1>19 DEF TypeOK, NothingToDo, Rest, dbVars
<1>8. CASE Consumers
  BY <1>8 DEF TypeOK, Consumers, dbVars, histVars, Exists
<1>9. CASE BeginIndexAll
  <2>1. extras' \in 0..MaxExtras /\ mem' \in Manifests /\ cand' \in Manifests
    BY <1>9, <1>20 DEF TypeOK, BeginIndexAll
  <2>2. Exists \subseteq Files
    BY DEF Exists
  <2>3. forced' \subseteq toIndex'
    BY <1>9 DEF TypeOK, BeginIndexAll, Phased, AtRest
  <2>4. QED
    BY <1>9, <2>1, <2>2, <2>3 DEF TypeOK, BeginIndexAll, dbVars
<1>10. ASSUME NEW f \in Files, ReadFile(f)
       PROVE  TypeOK'
  BY <1>10 DEF TypeOK, ReadFile, dbVars, planVars, histVars
<1>11. ASSUME NEW f \in Files, Stat(f)
       PROVE  TypeOK'
  BY <1>11 DEF TypeOK, Stat, dbVars, planVars, histVars
<1>12. ASSUME NEW f \in Files, mem # NoManifest
       PROVE  NewRow(f) \in [content : Contents, stat : Contents, macro : Meanings]
  <2>1. ParsedWith(f, mem) \in Meanings
    BY <1>12, ParsedType DEF TypeOK
  <2>2. QED
    BY <2>1 DEF TypeOK, NewRow
<1>13. ASSUME NEW f \in Files, Store(f)
       PROVE  TypeOK'
  <2>1. row' \in [Files -> [content : Contents, stat : Contents, macro : Meanings]]
    <3>1. mem # NoManifest
      BY <1>13, ManifestIsOne DEF Store, BatchRead, Phased
    <3>2. QED
      BY <1>12, <1>13, <3>1 DEF TypeOK, Store
  <2>2. causes' \subseteq {"edit", "memory", "rowless", "indexAll", "reverted", "unread",
                           "unmarked"}
    BY <1>13 DEF TypeOK, Store
  <2>3. failed' \in BOOLEAN
    BY <1>13 DEF TypeOK, Store
  <2>4. QED
    BY <1>13, <2>1, <2>2, <2>3 DEF TypeOK, Store, planVars, batchVars
<1>14. CASE Publish
  BY <1>14 DEF TypeOK, Publish, planVars, batchVars
<1>15. CASE Unmark \/ EndIncomplete \/ Throw
  BY <1>15, <1>19 DEF TypeOK, Unmark, EndIncomplete, Throw, Rest, dbVars
<1>16. CASE Crash
  <2>1. row' \in [Files -> [content : Contents, stat : Contents, macro : Meanings]]
    BY <1>16, <1>19 DEF TypeOK, Crash
  <2>2. /\ causes' \subseteq {"edit", "memory", "rowless", "indexAll", "reverted", "unread",
                              "unmarked"}
        /\ fresh' \in BOOLEAN
    BY <1>16 DEF TypeOK, Crash
  <2>3. QED
    BY <1>16, <1>19, <2>1, <2>2 DEF TypeOK, Crash, Rest
<1>17. CASE UNCHANGED vars
  BY <1>17 DEF TypeOK, vars, dbVars, planVars, batchVars, histVars
<1>21. ASSUME NEW f \in Files, NEW force \in BOOLEAN, BeginIndexFile(f, force)
       PROVE  TypeOK'
  BY <1>21 DEF TypeOK, BeginIndexFile, dbVars, histVars
<1>22. ASSUME NEW f \in Files, EnsureMacros(f)
       PROVE  TypeOK'
  BY <1>20, <1>22 DEF TypeOK, EnsureMacros, dbVars, planVars, batchVars, histVars
<1>23. ASSUME NEW f \in Files, StoreIndexed(f)
       PROVE  TypeOK'
  <2>1. row' \in [Files -> [content : Contents, stat : Contents, macro : Meanings]]
    BY <1>12, <1>23 DEF TypeOK, StoreIndexed
  <2>2. causes' \subseteq {"edit", "memory", "rowless", "indexAll", "reverted", "unread",
                           "unmarked"}
    BY <1>23 DEF TypeOK, StoreIndexed
  <2>3. QED
    BY <1>19, <1>23, <2>1, <2>2 DEF TypeOK, StoreIndexed, Rest
<1>18. QED
  BY <1>1, <1>2, <1>3, <1>4, <1>5, <1>6, <1>7, <1>8, <1>9, <1>10, <1>11, <1>13, <1>14,
     <1>15, <1>16, <1>17, <1>21, <1>22, <1>23 DEF Next, Sync, Extract, IndexFile

-----------------------------------------------------------------------------
(* The invariant holds in the initial states.                              *)

\* The invariant holds at first.
LEMMA InitIInv == Init => IInv
<1> SUFFICES ASSUME Init PROVE IInv
  OBVIOUS
<1> USE PipelineAssumption
<1>1. TypeOK
  BY InitType
<1>2. /\ AtRest /\ pc = "idle" /\ op = "sync" /\ ~undisturbed /\ ~fresh /\ changes = 0
      /\ \A f \in Files : disk[f] \in {0, 1} /\ content[f] = 0
  BY DEF Init, AtRest, Zero
<1>3. \A f \in Files : \/ row[f] = NoRow
                       \/ row[f].content = 1 /\ row[f].stat = 1 /\ disk[f] # 0
  BY DEF Init
<1>4. Bounded
  BY <1>1, <1>2, <1>3 DEF Bounded, NoRow, TypeOK
<1>5. Phased
  BY <1>2 DEF Phased
<1>6. StatsAgree
  BY <1>3 DEF StatsAgree, NoRow
<1>7. ASSUME manifest # NoManifest
      PROVE  HeadersAgree(manifest) /\ UsersAgree(manifest)
             /\ \A h \in Headers \ Tracked : manifest[h] = NoDef
  <2>1. manifest = OnDisk /\ \A f \in Users \cap Tracked : row[f].macro = Meaning(OnDisk)
    BY <1>7 DEF Init, ParsedWith
  <2>2. \A f \in Files : disk[f] # 0 <=> f \in Tracked
    BY <1>7 DEF Init, Tracked, NoRow
  <2>3. QED
    BY <2>1, <2>2 DEF HeadersAgree, UsersAgree, Current, OnDisk, Contribution
<1>8. QED
  BY <1>1, <1>2, <1>4, <1>5, <1>6, <1>7
     DEF IInv, Core, Unmarked, Baselined, Queued, Installed, Storing, Published, Full, UpToDate

-----------------------------------------------------------------------------
(* Every step keeps it.                                                    *)

\* What depends on the disk and the rows alone is left alone with them.
LEMMA Frame ==
    ASSUME UNCHANGED <<disk, row>>
    PROVE  /\ Current' = Current /\ Tracked' = Tracked /\ Exists' = Exists /\ OnDisk' = OnDisk
           /\ \A m : HeadersAgree(m)' <=> HeadersAgree(m)
           /\ \A m : UsersAgree(m)' <=> UsersAgree(m)
BY DEF Current, Tracked, Exists, OnDisk, HeadersAgree, UsersAgree

\* Every step keeps the bounds on the contents, and the rows whole.
LEMMA StepBounded ==
    ASSUME TypeOK, Bounded, [Next]_vars
    PROVE  Bounded'
<1>13. NoRow.content = 0
  BY DEF NoRow
<1>1. ASSUME NEW f \in Files, Write(f) \/ Delete(f)
      PROVE  Bounded'
  <2>1. changes' = changes + 1 /\ UNCHANGED <<row, content>>
        /\ \A g \in Files : disk'[g] \in {disk[g], changes + 2, 0}
    BY <1>1 DEF TypeOK, Write, Delete, Change, dbVars, batchVars
  <2>2. QED
    BY <2>1 DEF TypeOK, Bounded, Contents
<1>2. ASSUME UNCHANGED <<disk, changes>>,
             \A f \in Files : row'[f] = row[f] \/ row'[f] = NoRow,
             \A f \in Files : content'[f] \in {content[f], disk[f], 0}
      PROVE  Bounded'
  BY <1>2, <1>13 DEF Bounded, TypeOK, Contents
<1>3. ASSUME NEW f \in Files, Store(f)
      PROVE  Bounded'
  <2>1. \A g \in Files : row'[g] = row[g] \/ (row'[g].content = content[g] /\ content[g] # 0)
    <3>1. NewRow(f) = row[f] \/ NewRow(f).content = content[f]
      BY DEF NewRow
    <3>2. row' = row \/ (content[f] # 0 /\ row' = [row EXCEPT ![f] = NewRow(f)])
      BY <1>3 DEF Store
    <3>3. QED
      BY <3>1, <3>2 DEF TypeOK
  <2>2. UNCHANGED <<disk, changes, content>>
    BY <1>3 DEF Store, batchVars
  <2>3. QED
    BY <2>1, <2>2 DEF Bounded
<1>14. ASSUME NEW f \in Files, StoreIndexed(f)
       PROVE  Bounded'
  <2>1. \A g \in Files : row'[g] = row[g] \/ (row'[g].content = content[g] /\ content[g] # 0)
    <3>1. NewRow(f) = row[f] \/ NewRow(f).content = content[f]
      BY DEF NewRow
    <3>2. QED
      BY <1>14, <3>1 DEF TypeOK, StoreIndexed, Readable
  <2>2. UNCHANGED <<disk, changes>> /\ content' = Zero
    BY <1>14 DEF StoreIndexed, Rest
  <2>3. QED
    BY <2>1, <2>2 DEF Bounded, TypeOK, Contents, Zero
<1>4. ASSUME NEW f \in Files, RemoveGone(f)
      PROVE  Bounded'
  BY <1>2, <1>4 DEF RemoveGone, TypeOK, batchVars
<1>5. ASSUME NEW f \in Files, ReadFile(f)
      PROVE  Bounded'
  BY <1>2, <1>5 DEF ReadFile, TypeOK, dbVars
<1>6. CASE Crash
  BY <1>2, <1>6 DEF Crash, Rest, TypeOK, Zero
<1>7. CASE NothingToDo \/ Unmark \/ EndIncomplete \/ Throw
  BY <1>2, <1>7 DEF NothingToDo, Unmark, EndIncomplete, Throw, Rest, Zero, dbVars
<1>8. CASE UNCHANGED <<disk, changes, row, content>>
  BY <1>2, <1>8
<1>9. ASSUME NEW f \in Files, Reconcile(f) \/ Stat(f)
      PROVE  Bounded'
  BY <1>8, <1>9 DEF Reconcile, Stat, dbVars, batchVars
<1>10. ASSUME NEW paths \in SUBSET Files, Begin(paths)
       PROVE  Bounded'
  BY <1>8, <1>10 DEF Begin, dbVars, batchVars
<1>15. ASSUME NEW f \in Files, EnsureMacros(f) \/ \E force \in BOOLEAN : BeginIndexFile(f, force)
       PROVE  Bounded'
  BY <1>8, <1>15 DEF EnsureMacros, BeginIndexFile, dbVars, batchVars
<1>11. CASE RemovalsDone \/ Macros \/ Consumers \/ BeginIndexAll \/ Publish \/ UNCHANGED vars
  BY <1>8, <1>11 DEF RemovalsDone, Macros, InstallMacros, Consumers, BeginIndexAll, Publish,
                     vars, dbVars, batchVars
<1>12. QED
  BY <1>1, <1>3, <1>4, <1>5, <1>6, <1>7, <1>9, <1>10, <1>11, <1>14, <1>15
     DEF Next, Sync, Extract, IndexFile

\* Every step keeps what the phases leave in the variables.
LEMMA StepPhased ==
    ASSUME TypeOK, Bounded, Phased, TypeOK', [Next]_vars
    PROVE  Phased'
<1>15. ASSUME Rest
      PROVE  Phased'
  BY <1>15 DEF Phased, Rest, AtRest
<1>16. ASSUME UNCHANGED row
      PROVE  Tracked' = Tracked
  BY <1>16 DEF Tracked
<1>1. ASSUME NEW f \in Files, Write(f) \/ Delete(f)
      PROVE  Phased'
  BY <1>1, <1>16 DEF Write, Delete, Change, Phased, AtRest, dbVars, planVars, batchVars
<1>2. ASSUME NEW paths \in SUBSET Files, Begin(paths)
      PROVE  Phased'
  BY <1>2, <1>16 DEF Begin, Phased, AtRest, TypeOK, dbVars, batchVars
<1>3. ASSUME NEW f \in Files, RemoveGone(f)
      PROVE  Phased'
  BY <1>3, <1>16 DEF RemoveGone, Phased, TypeOK, Tracked, batchVars, histVars
<1>4. CASE RemovalsDone
  BY <1>4, <1>16 DEF RemovalsDone, Phased, Zero, dbVars, planVars, batchVars, histVars
<1>5. ASSUME NEW f \in Files, Reconcile(f)
      PROVE  Phased'
  BY <1>5, <1>16 DEF Reconcile, Differs, Phased, TypeOK, dbVars, batchVars, histVars
<1>6. CASE Macros
  BY <1>6, CandidateType DEF Macros, InstallMacros, Phased, dbVars, batchVars
<1>7. CASE NothingToDo \/ Unmark \/ EndIncomplete \/ Throw \/ Crash \/ \E f \in Files : StoreIndexed(f)
  BY <1>7, <1>15 DEF NothingToDo, Unmark, EndIncomplete, Throw, Crash, StoreIndexed
<1>8. CASE Consumers
  BY <1>8 DEF Consumers, Phased, dbVars, histVars
<1>9. CASE BeginIndexAll
  BY <1>9, CandidateType DEF BeginIndexAll, Phased, AtRest, dbVars
<1>10. ASSUME NEW f \in Files, ReadFile(f) \/ Stat(f)
       PROVE  Phased'
  BY <1>10 DEF ReadFile, Stat, Phased, dbVars, planVars, histVars
<1>11. ASSUME NEW f \in Files, Store(f)
       PROVE  Phased'
  BY <1>11 DEF Store, BatchRead, Phased, planVars, batchVars
<1>12. CASE Publish
  BY <1>12 DEF Publish, BatchRead, Phased, planVars, batchVars
<1>17. ASSUME NEW f \in Files, NEW force \in BOOLEAN, BeginIndexFile(f, force)
       PROVE  Phased'
  BY <1>17 DEF BeginIndexFile, Phased, dbVars, histVars
<1>18. ASSUME NEW f \in Files, EnsureMacros(f)
       PROVE  Phased'
  BY <1>18 DEF EnsureMacros, Phased, dbVars, planVars, batchVars, histVars
<1>13. CASE UNCHANGED vars
  BY <1>13, <1>16 DEF Phased, AtRest, vars, dbVars, planVars, batchVars, histVars
<1>14. QED
  BY <1>1, <1>2, <1>3, <1>4, <1>5, <1>6, <1>7, <1>8, <1>9, <1>10, <1>11, <1>12, <1>13,
     <1>17, <1>18 DEF Next, Sync, Extract, IndexFile

\* What a change of the tree leaves of it.
LEMMA ChangeCore ==
    ASSUME TypeOK, Bounded, Phased, Core, NEW f \in Files, Write(f) \/ Delete(f)
    PROVE  Core'
<1>1. /\ UNCHANGED <<dbVars, mem, pc, op, planVars, todo, batchVars, failed, causes>>
      /\ ~undisturbed' /\ ~fresh'
      /\ \A g \in Files : disk'[g] \in {disk[g], changes + 2, 0}
  BY DEF Write, Delete, Change, TypeOK
<1>2. Tracked' = Tracked
  BY <1>1 DEF Tracked, dbVars
<1>3. \A g \in Current' : g \in Current /\ disk'[g] = disk[g]
  BY <1>1 DEF Current, Bounded, TypeOK, Contents, dbVars
<1>4. /\ \A m : HeadersAgree(m) => HeadersAgree(m)'
      /\ \A m : UsersAgree(m) => UsersAgree(m)'
  BY <1>1, <1>3 DEF HeadersAgree, UsersAgree, dbVars
<1>5. StatsAgree'
  BY <1>1 DEF Core, StatsAgree, dbVars
<1>6. Unmarked' /\ Baselined'
  BY <1>1, <1>2, <1>4 DEF Core, Unmarked, Baselined, dbVars, planVars
<1>7. Queued' /\ Storing'
  BY <1>1, <1>3 DEF Core, Queued, Storing, dbVars, planVars, batchVars
<1>8. Installed' /\ Published'
  BY <1>1, <1>2, <1>4 DEF Core, Installed, Published, dbVars, planVars
<1>9. QED
  BY <1>1, <1>5, <1>6, <1>7, <1>8 DEF Core, Full, UpToDate

\* A run that ends, with the rows and the manifest as they are.
LEMMA RestCore ==
    ASSUME TypeOK, Bounded, Phased, Core, Rest, UNCHANGED <<disk, row, manifest, marked>>,
           fresh' = fresh
    PROVE  Core'
<1> USE Frame
<1>1. StatsAgree'
  BY DEF Core, StatsAgree
<1>2. Unmarked'
  BY DEF Core, Unmarked
<1>3. UpToDate'
  BY DEF Core, UpToDate, Rest
<1>4. QED
  BY <1>1, <1>2, <1>3 DEF Core, Baselined, Queued, Installed, Storing, Published, Full, Rest

\* A run begins: when the marker is not set, the stored manifest is its baseline.
LEMMA BeginCore ==
    ASSUME TypeOK, Bounded, Phased, Core, NEW paths \in SUBSET Files, Begin(paths)
    PROVE  Core'
<1> USE Frame
<1>1. /\ UNCHANGED <<disk, dbVars, gone, toIndex>> /\ pc = "idle" /\ pc' = "removing"
      /\ gone = {} /\ toIndex = {} /\ op' = "sync" /\ recovering' = marked
      /\ todo' = paths \cap Tracked /\ undisturbed' = (paths = Files)
      /\ fresh' => fresh /\ ~skipped'
      /\ ~skipped' => present' = paths \cap Exists
  BY DEF Begin, Phased, AtRest
<1>2. StatsAgree'
  BY <1>1 DEF Core, StatsAgree, dbVars
<1>3. Unmarked'
  BY <1>1 DEF Core, Unmarked, dbVars
<1>4. Baselined'
  BY <1>1 DEF Core, Unmarked, Baselined, dbVars
<1>5. Full'
  BY <1>1 DEF Full, dbVars, Exists, Tracked
<1>6. UpToDate'
  <2>1. ASSUME fresh
        PROVE  Tracked \subseteq Exists
    BY <2>1 DEF Core, UpToDate, Tracked, Exists, Bounded
  <2>2. QED
    BY <1>1, <2>1 DEF Core, UpToDate, dbVars
<1>7. QED
  BY <1>1, <1>2, <1>3, <1>4, <1>5, <1>6 DEF Core, Queued, Installed, Storing, Published

\* A row is deleted: the marker is set, and its file is in gone.
LEMMA RemoveCore ==
    ASSUME TypeOK, Bounded, Phased, Core, NEW f \in Files, RemoveGone(f)
    PROVE  Core'
<1>1. /\ UNCHANGED <<disk, manifest, pc, op, recovering, present, toIndex, histVars>>
      /\ pc = "removing" /\ f \in todo /\ todo' = todo \ {f}
  BY DEF RemoveGone
<1>2. CASE UNCHANGED <<row, marked, gone>> /\ disk[f] # 0
  <2> USE Frame
  <2>1. StatsAgree'
    BY <1>1, <1>2 DEF Core, StatsAgree
  <2>2. Unmarked' /\ Baselined'
    BY <1>1, <1>2 DEF Core, Unmarked, Baselined
  <2>3. Full'
    BY <1>1, <1>2 DEF Core, Full, histVars
  <2>4. UpToDate'
    BY <1>1, <1>2 DEF Core, UpToDate, histVars
  <2>5. QED
    BY <1>1, <2>1, <2>2, <2>3, <2>4 DEF Core, Queued, Installed, Storing, Published
<1>3. CASE /\ disk[f] = 0 \/ f \notin present
           /\ marked' = TRUE /\ gone' = gone \cup {f} /\ row' = [row EXCEPT ![f] = NoRow]
  <2>1. /\ Current' \subseteq Current /\ Tracked' = Tracked \ {f}
        /\ \A g \in Files : row'[g] = row[g] \/ (g = f /\ row'[g] = NoRow)
    BY <1>1, <1>3 DEF Current, Tracked, TypeOK, NoRow
  <2>2. StatsAgree'
    BY <2>1 DEF Core, StatsAgree, NoRow
  <2>3. Baselined'
    <3>1. f \notin Current'
      BY <1>1, <1>3 DEF Current, NoRow, TypeOK
    <3>2. \A m : HeadersAgree(m) /\ UsersAgree(m) => HeadersAgree(m)' /\ UsersAgree(m)'
      BY <1>1, <2>1, <3>1, PipelineAssumption DEF HeadersAgree, UsersAgree, Current
    <3>3. QED
      BY <1>1, <1>3, <2>1, <3>2 DEF Core, Baselined
  <2>4. Full'
    BY <1>1, <1>3, <2>1 DEF Core, Full, histVars, Exists
  <2>5. UpToDate'
    <3>1. ~fresh
      BY <1>1, <1>3 DEF Core, UpToDate, Exists
    <3>2. QED
      BY <1>1, <3>1 DEF UpToDate, histVars
  <2>6. QED
    BY <1>1, <1>3, <2>2, <2>3, <2>4, <2>5
       DEF Core, Unmarked, Queued, Installed, Storing, Published
<1>4. QED
  BY <1>2, <1>3 DEF RemoveGone

\* The removals are over, and a file is reconciled.
LEMMA ReconcileCore ==
    ASSUME TypeOK, Bounded, Phased, Core,
           RemovalsDone \/ \E f \in Files : Reconcile(f)
    PROVE  Core'
<1> USE Frame
<1>1. CASE RemovalsDone
  <2>1. /\ UNCHANGED <<disk, dbVars, op, planVars, histVars>> /\ pc = "removing" /\ todo = {}
        /\ pc' = "reconciling" /\ todo' = present /\ toIndex = {} /\ op = "sync"
    BY <1>1 DEF RemovalsDone, Phased
  <2>2. StatsAgree'
    BY <2>1 DEF Core, StatsAgree, dbVars
  <2>3. Unmarked' /\ Baselined'
    BY <2>1 DEF Core, Unmarked, Baselined, dbVars, planVars
  <2>4. Full'
    BY <2>1 DEF Core, Full, dbVars, planVars, histVars, Tracked, Exists
  <2>5. UpToDate'
    BY <2>1 DEF Core, UpToDate, dbVars, planVars, histVars
  <2>6. QED
    BY <2>1, <2>2, <2>3, <2>4, <2>5 DEF Core, Queued, Installed, Storing, Published, planVars
<1>2. ASSUME NEW f \in Files, Reconcile(f)
      PROVE  Core'
  <2>1. /\ UNCHANGED <<disk, dbVars, pc, op, recovering, present, gone, undisturbed, fresh>>
        /\ pc = "reconciling" /\ f \in todo /\ todo' = todo \ {f}
    BY <1>2 DEF Reconcile
  <2>2. \/ ~Differs(f) /\ UNCHANGED <<toIndex, seen, skipped>>
        \/ Differs(f) /\ UNCHANGED <<toIndex, seen>> /\ skipped' = TRUE
        \/ /\ Differs(f) /\ toIndex' = toIndex \cup {f} /\ seen' = [seen EXCEPT ![f] = disk[f]]
           /\ UNCHANGED skipped
    BY <1>2 DEF Reconcile
  <2>3. StatsAgree'
    BY <2>1 DEF Core, StatsAgree, dbVars
  <2>4. Unmarked' /\ Baselined'
    BY <2>1 DEF Core, Unmarked, Baselined, dbVars
  <2>5. Queued'
    BY <2>1, <2>2 DEF Core, Queued, dbVars, Differs, Current
  <2>6. Full'
    <3>1. ~Differs(f) => disk[f] = 0 \/ row[f].content = disk[f]
      BY DEF Core, StatsAgree, Differs
    <3>2. \A g \in toIndex' : (g \in toIndex /\ seen'[g] = seen[g]) \/ seen'[g] = disk[g]
      BY <2>2 DEF TypeOK
    <3>3. QED
      BY <2>1, <2>2, <3>1, <3>2 DEF Core, Full, dbVars, Exists
  <2>7. UpToDate'
    BY <2>1, <2>2 DEF Core, UpToDate, dbVars, Differs
  <2>8. QED
    BY <2>1, <2>3, <2>4, <2>5, <2>6, <2>7 DEF Core, Installed, Storing, Published
<1>3. QED
  BY <1>1, <1>2

\* The candidate is installed: it agrees with the rows that are up to date, and
\* after an undisturbed reconcile it is what a scan of the tree would find.
LEMMA MacrosCore ==
    ASSUME TypeOK, Bounded, Phased, Core, Macros, causes' = {}
    PROVE  Core'
<1> USE Frame
<1>1. /\ UNCHANGED <<disk, row, manifest, op, recovering, gone, toIndex, todo, undisturbed,
                     skipped, fresh>>
      /\ pc = "reconciling" /\ pc' = "consumers" /\ todo = {} /\ NeedsMacroWork
      /\ cand' = Candidate /\ marked' = (marked \/ Candidate # Baseline)
      /\ affected' = IF Baseline = NoManifest THEN "all"
                     ELSE IF Meaning(Baseline) # Meaning(Candidate) THEN "users" ELSE "none"
  BY DEF Macros, InstallMacros
<1>2. Baseline = manifest /\ ~Reverted
  BY DEF Macros, InstallMacros, Baseline
<1>3. Candidate \in Manifests /\ OnDisk \in Manifests /\ NoManifest \notin Manifests
  BY CandidateType, ManifestIsOne
<1>4. \A h \in Headers : h \in Files
  BY PipelineAssumption
<1>6. HeadersAgree(Candidate)
  <2>1. ASSUME ~(recovering \/ manifest = NoManifest), NEW h \in Headers \cap Current
        PROVE  Candidate[h] = Contribution(h, disk[h])
    <3>1. h \notin gone /\ seen[h] = 0
      BY <1>1, <1>4, <2>1 DEF Core, Queued, Phased, Current, Tracked, NoRow
    <3>2. Candidate[h] = manifest[h]
      BY <1>2, <2>1, <3>1 DEF Candidate
    <3>3. QED
      BY <1>1, <2>1, <3>2 DEF Core, Baselined, HeadersAgree
  <2>2. QED
    BY <1>2, <2>1 DEF HeadersAgree, Candidate, OnDisk
<1>7. ASSUME affected' = "none"
      PROVE  UsersAgree(Candidate)
  <2>1. manifest # NoManifest /\ Meaning(manifest) = Meaning(Candidate)
    BY <1>1, <1>2, <1>7
  <2>2. CASE ~recovering
    BY <1>1, <2>1, <2>2 DEF Core, Baselined, UsersAgree
  <2>3. CASE recovering
    <3>1. \A f \in Users \cap Tracked : row[f].macro = Meaning(manifest)
      BY <1>2, <2>1, <2>3 DEF Reverted
    <3>2. QED
      BY <2>1, <3>1 DEF UsersAgree, Current, Tracked, NoRow
  <2>4. QED
    BY <2>2, <2>3, <1>1 DEF TypeOK
<1>8. Installed'
  BY <1>1, <1>2, <1>3, <1>6, <1>7 DEF Installed
<1>9. Full'
  <2>1. ASSUME undisturbed, ~skipped, ~(recovering \/ manifest = NoManifest), NEW h \in Headers
        PROVE  Candidate[h] = OnDisk[h]
    <3>1. Candidate[h] = IF seen[h] # 0 THEN Contribution(h, seen[h])
                         ELSE IF h \in gone THEN NoDef ELSE manifest[h]
      BY <1>2, <2>1 DEF Candidate
    <3>2. OnDisk[h] = Contribution(h, disk[h])
      BY DEF OnDisk
    <3>3. CASE h \in toIndex
      BY <1>1, <1>4, <2>1, <3>1, <3>2, <3>3 DEF Core, Full, Phased
    <3>4. CASE h \notin toIndex /\ disk[h] # 0
      <4>1. h \in Current /\ h \notin gone /\ seen[h] = 0
        BY <1>1, <1>4, <2>1, <3>4 DEF Core, Full, Phased, Exists, Current
      <4>2. QED
        BY <1>1, <2>1, <3>1, <3>2, <4>1 DEF Core, Baselined, HeadersAgree
    <3>5. CASE h \notin toIndex /\ disk[h] = 0
      <4>1. seen[h] = 0 /\ h \notin Tracked
        BY <1>1, <1>4, <2>1, <3>5 DEF Core, Full, Phased, Exists
      <4>2. QED
        BY <1>1, <2>1, <3>1, <3>2, <3>5, <4>1 DEF Core, Baselined, Contribution
    <3>6. QED
      BY <3>3, <3>4, <3>5
  <2>2. ASSUME undisturbed, ~skipped
        PROVE  Candidate = OnDisk
    <3>1. CASE recovering \/ manifest = NoManifest
      BY <1>2, <3>1 DEF Candidate
    <3>2. CASE ~(recovering \/ manifest = NoManifest)
      BY <1>3, <2>1, <2>2, <3>2 DEF Manifests
    <3>3. QED
      BY <3>1, <3>2
  <2>3. QED
    BY <1>1, <2>2 DEF Core, Full
<1>10. UpToDate'
  <2>1. ASSUME fresh
        PROVE  FALSE
    <3>1. manifest = NoManifest => Exists = {}
      BY <1>3, <2>1 DEF Core, UpToDate
    <3>2. Exists = {} => Tracked = {} /\ present = {}
      BY <1>1, <2>1 DEF Core, UpToDate, Exists, Tracked, Bounded
    <3>3. QED
      BY <1>1, <2>1, <3>1, <3>2 DEF Core, UpToDate, NeedsMacroWork
  <2>2. QED
    BY <1>1, <2>1 DEF UpToDate
<1>11. StatsAgree' /\ Unmarked' /\ Queued'
  BY <1>1 DEF Core, StatsAgree, Unmarked, Queued
<1>12. QED
  BY <1>1, <1>8, <1>9, <1>10, <1>11 DEF Core, Baselined, Storing, Published

\* Nothing has changed: a full sync that was not disturbed has found the index
\* to be that of the tree.
LEMMA NothingToDoCore ==
    ASSUME TypeOK, Bounded, Phased, Core, NothingToDo
    PROVE  Core'
<1>1. /\ Rest /\ UNCHANGED <<disk, row, manifest, marked>> /\ fresh' = (fresh \/ (undisturbed /\ ~skipped))
      /\ pc = "reconciling" /\ todo = {} /\ ~recovering /\ toIndex = {} /\ gone = {}
      /\ manifest = NoManifest => present \cup Tracked = {}
  BY DEF NothingToDo, NeedsMacroWork, dbVars, TypeOK
<1>2. CASE fresh' = fresh
  BY <1>1, <1>2, RestCore
<1>3. CASE undisturbed /\ ~skipped
  <2> USE Frame
  <2>1. present = Exists /\ Tracked \subseteq Exists
        /\ \A f \in Exists : row[f].content = disk[f]
    BY <1>1, <1>3 DEF Core, Full
  <2>2. \A f \in Files : row[f].content = disk[f]
    BY <2>1 DEF Tracked, Exists, NoRow
  <2>3. ~marked
    BY <1>1 DEF Phased
  <2>4. ASSUME manifest # NoManifest
        PROVE  manifest = OnDisk /\ UsersAgree(manifest)
    <3>1. HeadersAgree(manifest) /\ UsersAgree(manifest)
          /\ \A h \in Headers \ Tracked : manifest[h] = NoDef
      BY <1>1, <2>4 DEF Core, Baselined
    <3>2. ASSUME NEW h \in Headers
          PROVE  manifest[h] = Contribution(h, disk[h])
      <4>1. h \in Files
        BY PipelineAssumption
      <4>2. CASE disk[h] # 0
        BY <2>2, <3>1, <4>1, <4>2 DEF HeadersAgree, Current
      <4>3. CASE disk[h] = 0
        BY <2>1, <3>1, <4>1, <4>3 DEF Exists, Contribution
      <4>4. QED
        BY <4>2, <4>3
    <3>3. manifest \in Manifests /\ OnDisk \in Manifests
      BY <2>4, CandidateType DEF TypeOK
    <3>4. QED
      BY <3>1, <3>2, <3>3 DEF OnDisk, Manifests
  <2>5. \A f \in Users \cap Tracked : row[f].macro = Meaning(OnDisk)
    BY <1>1, <2>1, <2>2, <2>4 DEF UsersAgree, Current, Exists
  <2>6. UpToDate'
    BY <1>1, <2>1, <2>2, <2>3, <2>4, <2>5 DEF UpToDate, Rest
  <2>7. StatsAgree' /\ Unmarked'
    BY <1>1 DEF Core, StatsAgree, Unmarked
  <2>8. QED
    BY <1>1, <2>6, <2>7 DEF Core, Baselined, Queued, Installed, Storing, Published, Full, Rest
<1>4. QED
  BY <1>1, <1>2, <1>3 DEF TypeOK

\* The files that the change of meaning affects are queued: every user that is
\* up to date will be stored.
LEMMA ConsumersCore ==
    ASSUME TypeOK, Bounded, Phased, Core, Consumers, causes' = {}
    PROVE  Core'
<1> USE Frame
<1>1. /\ UNCHANGED <<disk, row, manifest, marked, op, cand, affected, undisturbed, skipped,
                     fresh>>
      /\ pc = "consumers" /\ pc' = "reading" /\ forced = {}
      /\ toIndex' = toIndex \cup forced' /\ unread' = toIndex' /\ todo' = toIndex'
      /\ affected # "none" => Users \cap Exists \subseteq toIndex'
  BY DEF Consumers, dbVars, Phased, TypeOK
<1>2. Installed'
  BY <1>1 DEF Core, Installed
<1>3. Storing'
  <2>1. ASSUME NEW f \in Users \cap Current
        PROVE  row[f].macro = Meaning(cand) \/ (affected # "none" /\ f \in todo')
    <3>1. f \in Exists
      BY DEF Current, Exists
    <3>2. QED
      BY <1>1, <2>1, <3>1 DEF Core, Installed, UsersAgree, TypeOK
  <2>2. \A f \in todo' \ forced' : f \notin Current /\ f \in unread'
    BY <1>1 DEF Core, Queued
  <2>3. QED
    BY <1>1, <2>1, <2>2 DEF Storing
<1>4. Full'
  BY <1>1 DEF Core, Full
<1>5. ~fresh
  BY <1>1 DEF Core, UpToDate
<1>6. StatsAgree' /\ Unmarked' /\ UpToDate'
  BY <1>1, <1>5 DEF Core, StatsAgree, Unmarked, UpToDate
<1>7. QED
  BY <1>1, <1>2, <1>3, <1>4, <1>6 DEF Core, Baselined, Queued, Published

\* indexAll starts from an empty database.
LEMMA BeginIndexAllCore ==
    ASSUME TypeOK, Bounded, Phased, Core, BeginIndexAll, causes' = {}
    PROVE  Core'
<1> USE Frame
<1>1. /\ UNCHANGED <<disk, row, manifest, marked, affected, fresh>> /\ ~undisturbed'
      /\ pc = "idle" /\ pc' = "reading" /\ op' = "indexAll" /\ affected = "none"
      /\ cand' = OnDisk /\ todo' \subseteq Exists /\ unread' = todo'
  BY DEF BeginIndexAll, dbVars, Phased, AtRest
<1>2. Tracked = {} /\ manifest = NoManifest
  BY DEF BeginIndexAll
<1>3. Current = {}
  BY <1>2 DEF Current, Tracked, NoRow
<1>4. Installed' /\ Storing'
  BY <1>1, <1>2, <1>3 DEF Installed, Storing, HeadersAgree
<1>5. fresh => Exists = {}
  BY <1>2 DEF Core, UpToDate, Exists, Tracked, NoRow
<1>6. UpToDate'
  BY <1>1, <1>5 DEF Core, UpToDate
<1>7. StatsAgree' /\ Unmarked' /\ Full'
  BY <1>1 DEF Core, StatsAgree, Unmarked, Full
<1>8. QED
  BY <1>1, <1>4, <1>6, <1>7 DEF Core, Baselined, Queued, Published

\* Reading a file, and its stat: what is read of a file that is not up to date is
\* not what its row was parsed from.
LEMMA ReadCore ==
    ASSUME TypeOK, Bounded, Phased, Core, NEW f \in Files, ReadFile(f) \/ Stat(f)
    PROVE  Core'
<1> USE Frame
<1>1. /\ UNCHANGED <<disk, dbVars, pc, op, planVars, todo, failed, histVars>>
      /\ pc \in {"reading", "indexing"}
      /\ \/ UNCHANGED <<unread, content>>
         \/ unread' = unread \ {f} /\ content' = [content EXCEPT ![f] = disk[f]]
  BY DEF ReadFile, Stat
<1>2. UNCHANGED <<disk, row, manifest, marked, cand, affected, forced, undisturbed, skipped,
                  fresh>>
  BY <1>1 DEF dbVars, planVars, histVars
<1>3. \A g \in todo \ unread' : \/ g \notin unread /\ content'[g] = content[g]
                               \/ content'[g] = disk[g]
  BY <1>1 DEF TypeOK
<1>4. Storing'
  <2>1. ASSUME pc = "reading", NEW g \in todo \ forced, g \notin unread', row[g].content # 0
        PROVE  content'[g] # row[g].content
    BY <1>1, <1>3, <2>1 DEF Core, Storing, Current, TypeOK
  <2>2. QED
    BY <1>1, <1>2, <2>1 DEF Core, Storing
<1>5. Full'
  BY <1>1, <1>2, <1>3 DEF Core, Full
<1>6. Installed' /\ UpToDate'
  BY <1>1, <1>2, <1>3 DEF Core, Installed, UpToDate
<1>7. StatsAgree' /\ Unmarked'
  BY <1>2 DEF Core, StatsAgree, Unmarked
<1>8. QED
  BY <1>1, <1>4, <1>5, <1>6, <1>7 DEF Core, Baselined, Queued, Published

\* A file is stored with the candidate, or its row is left alone and the run has
\* failed.
LEMMA StoreCore ==
    ASSUME TypeOK, Bounded, Phased, Core, NEW f \in Files, Store(f), causes' = {}
    PROVE  Core'
<1>1. /\ UNCHANGED <<disk, manifest, marked, pc, op, unread, content, cand, affected, forced,
                     undisturbed, skipped, fresh>>
      /\ pc = "reading" /\ unread = {} /\ f \in todo /\ todo' = todo \ {f} /\ mem = cand
  BY DEF Store, BatchRead, AllRead, planVars, batchVars, Phased
<1>2. /\ content[f] = stat[f]
      /\ f \in Headers => cand[f] = Contribution(f, content[f])
  BY <1>1 DEF Store
<1>3. ~fresh
  BY <1>1 DEF Core, UpToDate
<1>4. CASE failed' = TRUE /\ UNCHANGED row
  <2> USE Frame
  <2>1. Installed' /\ Storing'
    BY <1>1, <1>4 DEF Core, Installed, Storing
  <2>2. Full'
    BY <1>1, <1>4 DEF Core, Full
  <2>3. StatsAgree' /\ Unmarked' /\ UpToDate'
    BY <1>1, <1>3, <1>4 DEF Core, StatsAgree, Unmarked, UpToDate
  <2>4. QED
    BY <1>1, <2>1, <2>2, <2>3 DEF Core, Baselined, Queued, Published
<1>5. CASE content[f] # 0 /\ row' = [row EXCEPT ![f] = NewRow(f)] /\ UNCHANGED failed
  <2>1. NewRow(f) = [content |-> content[f], stat |-> stat[f], macro |-> ParsedWith(f, cand)]
    BY <1>1, <1>5 DEF Core, Storing, NewRow
  <2>2. /\ \A g \in Files : g # f => row'[g] = row[g]
        /\ row'[f].content = content[f] /\ row'[f].stat = stat[f]
        /\ f \in Users => row'[f].macro = Meaning(cand)
    BY <1>5, <2>1 DEF TypeOK, ParsedWith
  <2>3. StatsAgree'
    BY <1>2, <2>2 DEF Core, StatsAgree
  <2>4. Tracked' = Tracked \cup {f}
    BY <1>5, <2>2 DEF Tracked, NoRow
  <2>5. \A g \in Files : g # f => (g \in Current' <=> g \in Current)
    BY <1>1, <2>2 DEF Current
  <2>6. HeadersAgree(cand)'
    <3>1. f \in Headers \cap Current' => cand[f] = Contribution(f, disk[f])
      BY <1>1, <1>2, <2>2 DEF Current
    <3>2. QED
      BY <1>1, <2>5, <3>1, PipelineAssumption DEF Core, Installed, HeadersAgree
  <2>7. \A g \in Users \cap Current' : \/ row'[g].macro = Meaning(cand)
                                     \/ (affected # "none" /\ (g \in todo' \/ failed))
    BY <1>1, <2>2, <2>5, PipelineAssumption DEF Core, Storing
  <2>8. Installed'
    BY <1>1, <2>6 DEF Core, Installed
  <2>9. Storing'
    <3>1. \A g \in todo' \ forced : g # f /\ g \in todo \ forced /\ g \in Files
      BY <1>1 DEF TypeOK
    <3>2. QED
      BY <1>1, <1>5, <2>2, <2>5, <2>7, <3>1 DEF Core, Storing
  <2>10. Unmarked'
    <3>1. ASSUME ~marked, manifest # NoManifest
          PROVE  manifest = cand /\ affected = "none"
      BY <1>1, <3>1 DEF Core, Installed
    <3>2. QED
      BY <1>1, <2>4, <2>6, <2>7, <3>1 DEF Core, Unmarked, UsersAgree
  <2>11. Full'
    BY <1>1, <1>5, <2>2, <2>4 DEF Core, Full, Exists, OnDisk
  <2>12. QED
    BY <1>1, <1>3, <2>3, <2>8, <2>9, <2>10, <2>11
       DEF Core, Baselined, Queued, Published, UpToDate
<1>6. QED
  BY <1>4, <1>5 DEF Store

\* The manifest is stored: the rows that are up to date agree with it.
LEMMA PublishCore ==
    ASSUME TypeOK, Bounded, Phased, Core, Publish, causes' = {}
    PROVE  Core'
<1> USE Frame
<1>1. /\ UNCHANGED <<disk, row, marked, op, cand, affected, todo, failed, undisturbed, skipped,
                     fresh>>
      /\ pc = "reading" /\ pc' = "unmarking" /\ todo = {} /\ manifest' = cand
      /\ affected = "none" \/ ~failed
  BY DEF Publish, BatchRead, planVars
<1>2. \A h \in Headers \ Tracked : cand[h] = NoDef
  BY DEF Publish
<1>3. HeadersAgree(cand) /\ UsersAgree(cand)
  BY <1>1 DEF Core, Installed, Storing, UsersAgree
<1>4. Published' /\ Unmarked' /\ Installed'
  BY <1>1, <1>2, <1>3 DEF Core, Published, Unmarked, Installed
<1>5. Full'
  BY <1>1 DEF Core, Full
<1>6. UpToDate' /\ StatsAgree'
  BY <1>1 DEF Core, UpToDate, StatsAgree
<1>7. QED
  BY <1>1, <1>4, <1>5, <1>6 DEF Core, Baselined, Queued, Storing

\* The marker is cleared, and the run is over: a full sync that was not disturbed
\* and in which no file failed has repaired the index.
LEMMA UnmarkCore ==
    ASSUME TypeOK, Bounded, Phased, Core, Unmark
    PROVE  Core'
<1> USE Frame
<1>1. /\ UNCHANGED <<disk, row, manifest>> /\ Rest /\ ~marked' /\ pc = "unmarking"
      /\ fresh' = (fresh \/ (undisturbed /\ ~failed /\ ~skipped))
  BY DEF Unmark
<1>2. /\ manifest = cand /\ HeadersAgree(cand) /\ UsersAgree(cand)
      /\ \A h \in Headers \ Tracked : cand[h] = NoDef
  BY <1>1 DEF Core, Published, Installed
<1>3. UpToDate'
  <2>1. CASE fresh
    BY <1>1, <2>1 DEF Core, UpToDate, Rest
  <2>2. CASE undisturbed /\ ~failed /\ ~skipped
    <3>1. cand = OnDisk /\ Tracked \subseteq Exists /\ \A f \in Exists : row[f].content = disk[f]
      BY <1>1, <2>2 DEF Core, Full
    <3>2. \A f \in Files : row[f].content = disk[f]
      BY <3>1 DEF Tracked, Exists, NoRow
    <3>3. \A f \in Users \cap Tracked : row[f].macro = Meaning(OnDisk)
      BY <1>2, <3>1 DEF UsersAgree, Current, Exists
    <3>4. QED
      BY <1>1, <1>2, <3>1, <3>2, <3>3 DEF UpToDate, Rest
  <2>3. CASE ~fresh'
    BY <2>3 DEF UpToDate
  <2>4. QED
    BY <1>1, <2>1, <2>2, <2>3
<1>4. StatsAgree' /\ Unmarked'
  BY <1>1, <1>2 DEF Core, StatsAgree, Unmarked
<1>5. QED
  BY <1>1, <1>3, <1>4 DEF Core, Baselined, Queued, Installed, Storing, Published, Full, Rest

\* A crash, perhaps with the row of a file deleted and not yet written.
LEMMA CrashCore ==
    ASSUME TypeOK, Bounded, Phased, Core, Crash, causes' = {}
    PROVE  Core'
<1>1. Rest /\ UNCHANGED <<disk, manifest, marked>>
  BY DEF Crash
<1>2. CASE UNCHANGED <<row, fresh>>
  BY <1>1, <1>2, RestCore
<1>3. ASSUME NEW f \in todo, f \notin Headers, row' = [row EXCEPT ![f] = NoRow], ~fresh'
      PROVE  Core'
  <2>2. \A g \in Files : row'[g] = row[g] \/ (g = f /\ row'[g] = NoRow)
    BY <1>3 DEF TypeOK
  <2>3. StatsAgree'
    BY <2>2 DEF Core, StatsAgree, NoRow
  <2>4. Current' \subseteq Current /\ f \notin Current' /\ Tracked \subseteq Tracked' \cup {f}
    BY <1>1, <1>3, <2>2 DEF Current, Tracked, NoRow, TypeOK
  <2>5. \A m : HeadersAgree(m) /\ UsersAgree(m) => HeadersAgree(m)' /\ UsersAgree(m)'
    BY <1>1, <2>2, <2>4, PipelineAssumption DEF HeadersAgree, UsersAgree, Current
  <2>6. Unmarked'
    BY <1>1, <1>3, <2>4, <2>5 DEF Core, Unmarked
  <2>7. QED
    BY <1>1, <1>3, <2>3, <2>6
       DEF Core, Baselined, Queued, Installed, Storing, Published, Full, UpToDate, Rest
<1>4. QED
  BY <1>2, <1>3 DEF Crash

\* indexFile begins, and takes the macros of a scan when there are none in memory.
LEMMA IndexFileCore ==
    ASSUME TypeOK, Bounded, Phased, Core, NEW f \in Files,
           EnsureMacros(f) \/ \E force \in BOOLEAN : BeginIndexFile(f, force)
    PROVE  Core'
<1> USE Frame
<1>1. /\ UNCHANGED <<disk, row, manifest, marked, content, undisturbed, fresh>>
      /\ pc' = "indexing" /\ ~undisturbed
      /\ UNCHANGED <<pc, todo, unread>> \/ todo' = unread'
  BY DEF EnsureMacros, BeginIndexFile, Phased, dbVars, batchVars, histVars
<1>2. StatsAgree' /\ Unmarked'
  BY <1>1 DEF Core, StatsAgree, Unmarked
<1>3. UpToDate'
  BY <1>1 DEF Core, UpToDate
<1>4. QED
  BY <1>1, <1>2, <1>3 DEF Core, Baselined, Queued, Installed, Storing, Published, Full

\* The row that indexFile writes is one that the stored manifest describes, short
\* of the cause that says otherwise.
LEMMA StoreIndexedCore ==
    ASSUME TypeOK, Bounded, Phased, Core, NEW f \in Files, StoreIndexed(f), causes' = {}
    PROVE  Core'
<1>1. /\ Rest /\ UNCHANGED <<disk, manifest, marked, fresh>> /\ pc = "indexing"
      /\ f \in todo \ unread /\ content[f] # 0 /\ content[f] = stat[f] /\ ~Unmarks(f)
      /\ row' = [row EXCEPT ![f] = NewRow(f)]
  BY DEF StoreIndexed, Readable, AllRead
<1>2. CASE NewRow(f) = row[f]
  <2>1. row' = row
    BY <1>1, <1>2 DEF TypeOK
  <2>2. QED
    BY <1>1, <2>1, RestCore
<1>3. CASE NewRow(f) # row[f]
  <2>1. NewRow(f) = [content |-> content[f], stat |-> stat[f], macro |-> ParsedWith(f, mem)]
    BY <1>3 DEF NewRow
  <2>2. /\ \A g \in Files : g # f => row'[g] = row[g]
        /\ row'[f].content = content[f] /\ row'[f].stat = stat[f]
        /\ f \in Users => row'[f].macro = Meaning(mem)
    BY <1>1, <2>1 DEF TypeOK, ParsedWith
  <2>3. StatsAgree'
    BY <1>1, <2>2 DEF Core, StatsAgree
  <2>4. Tracked' = Tracked \cup {f}
    BY <1>1, <2>2 DEF Tracked, NoRow
  <2>5. \A g \in Files : g # f => (g \in Current' <=> g \in Current)
    BY <1>1, <2>2 DEF Current
  <2>6. ASSUME ~marked, manifest # NoManifest
        PROVE  /\ f \in Headers => manifest[f] = Contribution(f, content[f])
               /\ f \in Users => Meaning(manifest) = Meaning(mem)
    BY <1>1, <1>3, <2>6 DEF Unmarks
  <2>7. Unmarked'
    <3>1. ASSUME ~marked, manifest # NoManifest
          PROVE  HeadersAgree(manifest)'
      <4>1. f \in Headers \cap Current' => manifest[f] = Contribution(f, disk[f])
        BY <1>1, <2>2, <2>6, <3>1 DEF Current
      <4>2. QED
        BY <1>1, <2>5, <3>1, <4>1, PipelineAssumption DEF Core, Unmarked, HeadersAgree
    <3>2. ASSUME ~marked, manifest # NoManifest
          PROVE  UsersAgree(manifest)'
      BY <1>1, <2>2, <2>5, <2>6, <3>2, PipelineAssumption DEF Core, Unmarked, UsersAgree
    <3>3. QED
      BY <1>1, <2>4, <3>1, <3>2 DEF Core, Unmarked
  <2>8. UpToDate'
    <3>1. ASSUME fresh
          PROVE  content[f] = disk[f] /\ ~marked /\ manifest = OnDisk
      BY <1>1, <3>1 DEF Core, UpToDate, Exists
    <3>2. ASSUME fresh
          PROVE  \A g \in Users \cap Tracked' : row'[g].macro = Meaning(OnDisk)
      <4>1. manifest # NoManifest
        BY <3>1, <3>2, CandidateType, ManifestIsOne
      <4>2. QED
        BY <2>2, <2>4, <2>6, <3>1, <3>2, <4>1, PipelineAssumption DEF Core, UpToDate
    <3>3. OnDisk' = OnDisk /\ Exists' = Exists
      BY <1>1 DEF OnDisk, Exists
    <3>4. QED
      BY <1>1, <2>2, <3>1, <3>2, <3>3 DEF Core, UpToDate, Rest
  <2>9. QED
    BY <1>1, <2>3, <2>7, <2>8
       DEF Core, Baselined, Queued, Installed, Storing, Published, Full, Rest
<1>4. QED
  BY <1>2, <1>3

\* Every step keeps the invariant.
LEMMA StepIInv == IInv /\ [Next]_vars => IInv'
<1> SUFFICES ASSUME IInv, [Next]_vars PROVE IInv'
  OBVIOUS
<1>1. TypeOK /\ Bounded /\ Phased
  BY DEF IInv
<1>2. TypeOK' /\ Bounded'
  BY <1>1, StepType, StepBounded
<1>3. Phased'
  BY <1>1, <1>2, StepPhased
<1>4. ASSUME causes' = {}
      PROVE  Core'
  <2>1. causes = {}
    BY <1>4 DEF Next, Sync, Extract, Write, Delete, Change, Begin, RemoveGone, RemovalsDone, Reconcile,
       Macros, InstallMacros, NothingToDo, Consumers, BeginIndexAll, ReadFile, Stat, Store, Publish,
       Unmark, EndIncomplete, Throw, Crash, vars, histVars, IndexFile, BeginIndexFile, EnsureMacros,
       StoreIndexed
  <2>2. Core
    BY <2>1 DEF IInv
  <2> USE <1>1, <1>4, <2>2
  <2>3. CASE \E f \in Files : Write(f) \/ Delete(f)
    BY <2>3, ChangeCore
  <2>4. CASE \E paths \in (SUBSET Files) \ {{}} : Begin(paths)
    BY <2>4, BeginCore
  <2>5. CASE \E f \in Files : RemoveGone(f)
    BY <2>5, RemoveCore
  <2>6. CASE RemovalsDone \/ \E f \in Files : Reconcile(f)
    BY <2>6, ReconcileCore
  <2>7. CASE Macros
    BY <2>7, MacrosCore
  <2>8. CASE NothingToDo
    BY <2>8, NothingToDoCore
  <2>9. CASE Consumers
    BY <2>9, ConsumersCore
  <2>10. CASE BeginIndexAll
    BY <2>10, BeginIndexAllCore
  <2>11. CASE \E f \in Files : ReadFile(f) \/ Stat(f)
    BY <2>11, ReadCore
  <2>12. CASE \E f \in Files : Store(f)
    BY <2>12, StoreCore
  <2>13. CASE Publish
    BY <2>13, PublishCore
  <2>14. CASE Unmark
    BY <2>14, UnmarkCore
  <2>15. CASE EndIncomplete \/ Throw
    BY <2>15, RestCore DEF EndIncomplete, Throw, dbVars
  <2>16. CASE Crash
    BY <2>16, CrashCore
  <2>19. CASE \E f \in Files : EnsureMacros(f) \/ \E force \in BOOLEAN : BeginIndexFile(f, force)
    BY <2>19, IndexFileCore
  <2>20. CASE \E f \in Files : StoreIndexed(f)
    BY <2>20, StoreIndexedCore
  <2>17. CASE UNCHANGED vars
    <3>1. UNCHANGED <<disk, row, manifest, marked, pc, op, recovering, present, gone, seen, cand,
                      affected, forced, toIndex, todo, unread, content, failed, undisturbed, skipped,
                      fresh>>
      BY <2>17 DEF vars, dbVars, planVars, batchVars, histVars
    <3>2. QED
      BY <3>1, Frame DEF Core, StatsAgree, Unmarked, Baselined, Queued, Installed, Storing,
                         Published, Full, UpToDate
  <2>18. QED
    BY <2>3, <2>4, <2>5, <2>6, <2>7, <2>8, <2>9, <2>10, <2>11, <2>12, <2>13, <2>14, <2>15,
       <2>16, <2>17, <2>19, <2>20 DEF Next, Sync, Extract, IndexFile
<1>5. QED
  BY <1>2, <1>3, <1>4 DEF IInv

-----------------------------------------------------------------------------
(* The theorems.                                                           *)

\* The invariant holds in every state the pipeline reaches.
THEOREM Invariance == Spec => []IInv
BY InitIInv, StepIInv, PTL DEF Spec

\* The variables always have their types.
THEOREM TypeCorrect == Spec => []TypeOK
<1>1. IInv => TypeOK
  BY DEF IInv
<1>2. QED
  BY <1>1, Invariance, PTL

\* Whenever the marker is not set, the stored manifest describes the stored
\* graph, in the middle of a run and after a crash at any point of it.
THEOREM ManifestIsTrue == Spec => []UnmarkedManifestIsTrue
<1>1. IInv => UnmarkedManifestIsTrue
  <2> SUFFICES ASSUME IInv, causes = {}, ~marked, manifest # NoManifest
               PROVE  Describes(manifest)
    BY DEF UnmarkedManifestIsTrue
  <2>1. /\ HeadersAgree(manifest) /\ UsersAgree(manifest)
        /\ \A h \in Headers \ Tracked : manifest[h] = NoDef
    BY DEF IInv, Core, Unmarked
  <2>2. TrueOfHeaders(manifest)
    <3>1. ASSUME NEW h \in Headers \cap Trusted
          PROVE  manifest[h] = Contribution(h, disk[h])
      <4>1. CASE h \in Tracked
        <5>1. h \in Current
          BY <3>1, <4>1 DEF IInv, Bounded, Tracked, Trusted, Current
        <5>2. QED
          BY <2>1, <3>1, <5>1 DEF HeadersAgree
      <4>2. CASE h \notin Tracked
        BY <2>1, <3>1, <4>2 DEF Tracked, Trusted, NoRow, Contribution
      <4>3. QED
        BY <4>1, <4>2
    <3>2. QED
      BY <3>1 DEF TrueOfHeaders
  <2>3. TrueOfUsers(manifest)
    BY <2>1 DEF IInv, Bounded, TrueOfUsers, UsersAgree, Tracked, Trusted, Current
  <2>4. QED
    BY <2>2, <2>3 DEF Describes
<1>2. QED
  BY <1>1, Invariance, PTL

\* A full sync that succeeds while nothing changes leaves the index that a new
\* project would get, and what runs after it does not spoil that.
THEOREM Repairs == Spec => []FullSyncRepairs
<1>1. IInv => FullSyncRepairs
  BY DEF IInv, Core, UpToDate, FullSyncRepairs
<1>2. QED
  BY <1>1, Invariance, PTL

-----------------------------------------------------------------------------
(* Sequences of different elements.                                        *)

Distinct(s) == \A i, j \in 1..Len(s) : s[i] = s[j] => i = j

\* The elements of a sequence are those at its positions.
LEMMA ElementsOf ==
    ASSUME NEW S, NEW s \in Seq(S)
    PROVE  /\ \A x : x \in ToSet(s) <=> \E i \in 1..Len(s) : s[i] = x
           /\ ToSet(s) \subseteq S
           /\ s = <<>> => ToSet(s) = {}
<1>1. DOMAIN s = 1..Len(s) /\ Len(s) \in Nat /\ s \in [1..Len(s) -> S]
  BY LenProperties
<1>2. s = <<>> => Len(s) = 0
  BY EmptySeq
<1>3. QED
  BY <1>1, <1>2 DEF ToSet

\* A new element is appended.
LEMMA ElementsOfAppend ==
    ASSUME NEW S, NEW s \in Seq(S), NEW x \in S
    PROVE  /\ Append(s, x) \in Seq(S)
           /\ ToSet(Append(s, x)) = ToSet(s) \cup {x}
           /\ Distinct(s) /\ x \notin ToSet(s) => Distinct(Append(s, x))
<1> DEFINE t == Append(s, x)
<1>1. /\ t \in Seq(S) /\ Len(t) = Len(s) + 1 /\ t[Len(s) + 1] = x
      /\ \A i \in 1..Len(s) : t[i] = s[i]
  BY AppendProperties
<1>2. Len(s) \in Nat
  BY LenProperties
<1> HIDE DEF t
<1>3. /\ \A y : y \in ToSet(t) <=> \E i \in 1..Len(t) : t[i] = y
      /\ \A y : y \in ToSet(s) <=> \E i \in 1..Len(s) : s[i] = y
  BY <1>1, ElementsOf
<1>4. \A i \in 1..Len(t) : i \in 1..Len(s) \/ i = Len(s) + 1
  BY <1>1, <1>2
<1>5. ToSet(t) = ToSet(s) \cup {x}
  <2>1. ASSUME NEW y \in ToSet(t) PROVE y \in ToSet(s) \cup {x}
    BY <1>1, <1>3, <1>4
  <2>2. ASSUME NEW y \in ToSet(s) PROVE y \in ToSet(t)
    BY <1>1, <1>2, <1>3
  <2>3. x \in ToSet(t)
    BY <1>1, <1>2, <1>3
  <2>4. QED
    BY <2>1, <2>2, <2>3
<1>6. ASSUME Distinct(s), x \notin ToSet(s)
      PROVE  Distinct(t)
  BY <1>1, <1>2, <1>3, <1>4, <1>6 DEF Distinct
<1>7. QED
  BY <1>1, <1>5, <1>6 DEF t

\* A part of a sequence.
LEMMA ElementsOfPart ==
    ASSUME NEW S, NEW s \in Seq(S), NEW m \in 1..Len(s) + 1, NEW n \in 0..Len(s)
    PROVE  /\ SubSeq(s, m, n) \in Seq(S)
           /\ \A x : x \in ToSet(SubSeq(s, m, n)) <=> \E i \in m..n : s[i] = x
           /\ Distinct(s) => Distinct(SubSeq(s, m, n))
<1> DEFINE t == SubSeq(s, m, n)
<1>1. Len(s) \in Nat /\ s \in [1..Len(s) -> S]
  BY LenProperties
<1>2. \A i \in m..n : s[i] \in S
  BY <1>1
<1>3. /\ t \in Seq(S) /\ Len(t) = IF m <= n THEN n - m + 1 ELSE 0
      /\ \A i \in 1..n - m + 1 : t[i] = s[m + i - 1]
  BY <1>1, <1>2, SubSeqProperties
<1> HIDE DEF t
<1>4. ASSUME NEW x
      PROVE  x \in ToSet(t) <=> \E i \in m..n : s[i] = x
  <2>1. x \in ToSet(t) <=> \E i \in 1..Len(t) : t[i] = x
    BY <1>3, ElementsOf
  <2>2. ASSUME NEW i \in m..n PROVE i - m + 1 \in 1..Len(t) /\ t[i - m + 1] = s[i]
    BY <1>1, <1>3
  <2>3. ASSUME NEW i \in 1..Len(t) PROVE m + i - 1 \in m..n /\ t[i] = s[m + i - 1]
    BY <1>1, <1>3
  <2>4. ASSUME NEW i \in m..n, s[i] = x PROVE x \in ToSet(t)
    BY <2>1, <2>2, <2>4
  <2>5. ASSUME x \in ToSet(t) PROVE \E i \in m..n : s[i] = x
    BY <2>1, <2>3, <2>5
  <2>6. QED
    BY <2>4, <2>5
<1>5. ASSUME Distinct(s)
      PROVE  Distinct(t)
  <2>1. \A i \in 1..Len(t) : m + i - 1 \in 1..Len(s) /\ t[i] = s[m + i - 1]
    BY <1>1, <1>3
  <2>2. ASSUME NEW i \in 1..Len(t), NEW j \in 1..Len(t), t[i] = t[j]
        PROVE  i = j
    <3>1. m + i - 1 = m + j - 1
      BY <1>5, <2>1, <2>2 DEF Distinct
    <3>2. QED
      BY <3>1
  <2>3. QED
    BY <2>2 DEF Distinct
<1>6. QED
  BY <1>3, <1>4, <1>5 DEF t

\* A sequence is cut in two: its elements are on one side or the other.
LEMMA ElementsOfCut ==
    ASSUME NEW S, NEW s \in Seq(S), Distinct(s), NEW k \in 0..Len(s)
    PROVE  LET front == SubSeq(s, 1, k)
               rest  == SubSeq(s, k + 1, Len(s))
           IN  /\ rest \in Seq(S) /\ Distinct(rest)
               /\ ToSet(front) \cup ToSet(rest) = ToSet(s)
               /\ ToSet(front) \cap ToSet(rest) = {}
<1> DEFINE front == SubSeq(s, 1, k)
           rest  == SubSeq(s, k + 1, Len(s))
<1>1. Len(s) \in Nat
  BY LenProperties
<1>2. /\ \A x : x \in ToSet(front) <=> \E i \in 1..k : s[i] = x
      /\ \A x : x \in ToSet(rest) <=> \E i \in k + 1..Len(s) : s[i] = x
      /\ rest \in Seq(S) /\ Distinct(rest)
  BY <1>1, ElementsOfPart
<1>3. \A x : x \in ToSet(s) <=> \E i \in 1..Len(s) : s[i] = x
  BY ElementsOf
<1> HIDE DEF front, rest
<1>4. \A i \in 1..Len(s) : i \in 1..k \/ i \in k + 1..Len(s)
  BY <1>1
<1>5. ToSet(front) \cup ToSet(rest) = ToSet(s)
  <2>1. ASSUME NEW x \in ToSet(s) PROVE x \in ToSet(front) \cup ToSet(rest)
    BY <1>2, <1>3, <1>4
  <2>2. ASSUME NEW x \in ToSet(front) \cup ToSet(rest) PROVE x \in ToSet(s)
    BY <1>1, <1>2, <1>3
  <2>3. QED
    BY <2>1, <2>2
<1>6. ToSet(front) \cap ToSet(rest) = {}
  BY <1>1, <1>2 DEF Distinct
<1>7. QED
  BY <1>2, <1>5, <1>6 DEF front, rest

\* An element is left out.
LEMMA ElementsWithout ==
    ASSUME NEW S, NEW s \in Seq(S), Distinct(s), NEW w
    PROVE  /\ Without(s, w) \in Seq(S) /\ Distinct(Without(s, w))
           /\ ToSet(Without(s, w)) = ToSet(s) \ {w}
<1>1. CASE w \notin ToSet(s)
  BY <1>1 DEF Without
<1>2. CASE w \in ToSet(s)
  <2> DEFINE k == CHOOSE i \in DOMAIN s : s[i] = w
             front == SubSeq(s, 1, k - 1)
             rest  == SubSeq(s, k + 1, Len(s))
             t == front \o rest
  <2>1. Len(s) \in Nat /\ DOMAIN s = 1..Len(s)
    BY LenProperties
  <2>2. k \in 1..Len(s) /\ s[k] = w
    BY <1>2, <2>1 DEF ToSet
  <2>3. Without(s, w) = t
    BY <1>2 DEF Without, RemoveAt
  <2> HIDE DEF k
  <2>4. /\ front \in Seq(S) /\ Len(front) = k - 1
        /\ \A i \in 1..k - 1 : front[i] = s[i]
    <3>1. \A i \in 1..k - 1 : s[i] \in S
      BY <2>1, <2>2, LenProperties
    <3>2. QED
      BY <2>1, <2>2, <3>1, SubSeqProperties
  <2>5. /\ rest \in Seq(S) /\ Len(rest) = Len(s) - k
        /\ \A i \in 1..Len(s) - k : rest[i] = s[k + i]
    <3> DEFINE m == k + 1
    <3>1. m \in 1..Len(s) + 1 /\ \A i \in m..Len(s) : s[i] \in S
      BY <2>1, <2>2, LenProperties
    <3> HIDE DEF m
    <3>2. LET u == SubSeq(s, m, Len(s))
          IN  /\ u \in Seq(S)
              /\ Len(u) = IF m <= Len(s) THEN Len(s) - m + 1 ELSE 0
              /\ \A i \in 1..Len(s) - m + 1 : u[i] = s[m + i - 1]
      BY <2>1, <3>1, SubSeqProperties
    <3>3. /\ Len(s) - m + 1 = Len(s) - k
          /\ (IF m <= Len(s) THEN Len(s) - m + 1 ELSE 0) = Len(s) - k
          /\ \A i \in 1..Len(s) - k : m + i - 1 = k + i
      <4>1. m = k + 1 /\ m \in Nat /\ k \in Nat /\ k <= Len(s)
        BY <2>1, <2>2 DEF m
      <4>2. Len(s) - m + 1 = Len(s) - k
        BY <2>1, <4>1
      <4>3. (IF m <= Len(s) THEN Len(s) - m + 1 ELSE 0) = Len(s) - k
        <5>1. Len(s) \in Nat
          BY <2>1
        <5>2. CASE k = Len(s)
          BY <4>1, <5>1, <5>2
        <5>3. CASE k < Len(s)
          BY <4>1, <5>1, <5>3
        <5>4. QED
          BY <4>1, <5>1, <5>2, <5>3
      <4>4. \A i \in 1..Len(s) - k : m + i - 1 = k + i
        BY <2>1, <4>1
      <4>5. QED
        BY <4>2, <4>3, <4>4
    <3>4. rest = SubSeq(s, m, Len(s))
      BY DEF m
    <3> HIDE DEF rest
    <3>5. QED
      BY <3>2, <3>3, <3>4
  <2> HIDE DEF front, rest
  <2>6. /\ t \in Seq(S) /\ Len(t) = Len(s) - 1
        /\ \A i \in 1..Len(t) : t[i] = s[IF i < k THEN i ELSE i + 1]
    <3>1. /\ t \in Seq(S) /\ Len(t) = Len(front) + Len(rest)
          /\ \A i \in 1..Len(t) : t[i] = IF i <= Len(front) THEN front[i]
                                        ELSE rest[i - Len(front)]
      BY <2>4, <2>5, ConcatProperties
    <3>2. QED
      BY <2>1, <2>2, <2>4, <2>5, <3>1
  <2> HIDE DEF t
  <2>7. Distinct(t)
    <3>1. SUFFICES ASSUME NEW i \in 1..Len(t), NEW j \in 1..Len(t), t[i] = t[j]
                   PROVE  i = j
      BY DEF Distinct
    <3> DEFINE a == IF i < k THEN i ELSE i + 1
               b == IF j < k THEN j ELSE j + 1
    <3>2. a \in 1..Len(s) /\ b \in 1..Len(s) /\ s[a] = s[b]
      <4>1. a \in 1..Len(s)
        BY <2>1, <2>2, <2>6
      <4>2. b \in 1..Len(s)
        BY <2>1, <2>2, <2>6
      <4>3. t[i] = s[a] /\ t[j] = s[b]
        BY <2>6
      <4>4. QED
        BY <3>1, <4>1, <4>2, <4>3
    <3>3. a = b
      BY <3>2 DEF Distinct
    <3>4. QED
      BY <2>1, <2>2, <2>6, <3>3
  <2>8. /\ \A x : x \in ToSet(t) <=> \E i \in 1..Len(t) : t[i] = x
        /\ \A x : x \in ToSet(s) <=> \E i \in 1..Len(s) : s[i] = x
    BY <2>6, ElementsOf
  <2>9. ASSUME NEW x \in ToSet(t) PROVE x \in ToSet(s) /\ x # w
    <3>1. PICK i \in 1..Len(t) : t[i] = x
      BY <2>8, <2>9
    <3> DEFINE a == IF i < k THEN i ELSE i + 1
    <3>2. a \in 1..Len(s) /\ s[a] = x /\ a # k
      BY <2>1, <2>2, <2>6, <3>1
    <3>3. QED
      BY <2>2, <2>8, <3>2 DEF Distinct
  <2>10. ASSUME NEW x \in ToSet(s), x # w PROVE x \in ToSet(t)
    <3>1. PICK i \in 1..Len(s) : s[i] = x
      BY <2>8
    <3>2. i # k
      BY <2>2, <2>10, <3>1
    <3> DEFINE a == IF i < k THEN i ELSE i - 1
    <3>3. a \in 1..Len(t) /\ t[a] = x
      BY <2>1, <2>2, <2>6, <3>1, <3>2
    <3>4. QED
      BY <2>8, <3>3
  <2>11. ToSet(t) = ToSet(s) \ {w}
    BY <2>9, <2>10
  <2>12. QED
    BY <2>3, <2>6, <2>7, <2>11
<1>3. QED
  BY <1>1, <1>2

\* It has as many elements as positions.
LEMMA ElementsCounted ==
    ASSUME NEW S, NEW s \in Seq(S), Distinct(s)
    PROVE  /\ IsFiniteSet(ToSet(s)) /\ Cardinality(ToSet(s)) = Len(s)
<1>1. Len(s) \in Nat /\ DOMAIN s = 1..Len(s) /\ s \in [1..Len(s) -> S]
  BY LenProperties
<1>2. \A x : x \in ToSet(s) <=> \E i \in 1..Len(s) : s[i] = x
  BY ElementsOf
<1> DEFINE f == [i \in 1..Len(s) |-> s[i]]
<1>3. f \in Bijection(1..Len(s), ToSet(s))
  <2>1. f \in [1..Len(s) -> ToSet(s)]
    BY <1>2
  <2>2. \A i, j \in 1..Len(s) : f[i] = f[j] => i = j
    BY DEF Distinct
  <2>3. \A x \in ToSet(s) : \E i \in 1..Len(s) : f[i] = x
    BY <1>2
  <2> HIDE DEF f
  <2>4. QED
    BY <2>1, <2>2, <2>3 DEF Bijection, Injection, Surjection, IsInjective
<1>4. IsFiniteSet(1..Len(s)) /\ Cardinality(1..Len(s)) = Len(s)
  BY <1>1, FS_Interval
<1>5. QED
  BY <1>3, <1>4, FS_Bijection DEF ExistsBijection

-----------------------------------------------------------------------------
(* The inductive invariant, over the record that the helpers pass on.       *)

\* A worker of the pool is loading, idle or on a job, and only one of these;
\* nothing outside the pool is.
Placed(p, w) ==
    /\ w \in p.workers <=>
          w \in p.pending \/ w \in ToSet(p.idle) \/ p.inflight[w] # NoJob
    /\ w \in p.pending => w \notin ToSet(p.idle) /\ p.inflight[w] = NoJob
    /\ w \in ToSet(p.idle) => p.inflight[w] = NoJob

\* What its thread is doing agrees with that, and so does the message it has sent.
Attached(p, m, w) ==
    /\ w \in p.workers => p.thread[w] # "gone"
    /\ p.thread[w] = "loading" /\ w \in p.workers => w \in p.pending
    /\ p.thread[w] = "busy" => p.inflight[w] # NoJob
    /\ m[w] # "none" => p.thread[w] \notin {"loading", "busy"}
    /\ w \in ToSet(p.idle) => m[w] = "none"
    /\ m[w] = "loaded" /\ w \in p.workers => w \in p.pending

Records ==
    [queue : Seq(Jobs), idle : Seq(Workers), inflight : [Workers -> Jobs \cup {NoJob}],
     workers : SUBSET Workers, pending : SUBSET Workers, counts : [Workers -> Nat],
     crashes : Nat, answer : [Jobs -> {"none", "waiting", "result", "error"}],
     thread : [Workers -> {"gone", "loading", "free", "busy", "dying", "exiting"}]]

\* Every worker is in its place, those in out excepted.
Kept(p, m, out) ==
    /\ p \in Records /\ Distinct(p.idle)
    /\ Cardinality(p.workers) <= MaxSize
    /\ \A w \in Workers \ out : Placed(p, w) /\ Attached(p, m, w)

\* The waiting jobs are queued, in flight or lost, and that once.
Accounted(p, lost) ==
    /\ Distinct(p.queue)
    /\ \A j \in Jobs : p.answer[j] = "waiting" <=>
          j \in ToSet(p.queue) \/ j \in lost \/ \E w \in Workers : p.inflight[w] = j
    /\ \A v, w \in Workers : p.inflight[v] # NoJob /\ p.inflight[v] = p.inflight[w] => v = w
    /\ \A w \in Workers : p.inflight[w] \notin ToSet(p.queue) \cup lost
    /\ lost \subseteq Jobs \ ToSet(p.queue)

\* No job waits beside an idle worker, and none once the pool has no worker.
Unstranded(p) == p.queue # <<>> => p.idle = <<>> /\ p.workers # {}

\* The fields that the helpers do not touch.
Others ==
    /\ destroyed \in BOOLEAN /\ waiting \in BOOLEAN
    /\ mail \in [Workers -> {"none", "loaded"} \cup Jobs]
    /\ recycles \in 0..MaxRecycles

PoolInv ==
    /\ Others /\ expired \subseteq Jobs
    /\ Kept(Fields, mail, {}) /\ Accounted(Fields, {}) /\ Unstranded(Fields)
    /\ WaiterHasReason

-----------------------------------------------------------------------------
(* The helpers.                                                            *)

\* New workers are taken from those of no thread: n at most.
LEMMA LowestFew ==
    ASSUME NEW p, NEW n \in Nat
    PROVE  /\ Lowest(p, n) \subseteq Fresh(p)
           /\ IsFiniteSet(Lowest(p, n)) /\ Cardinality(Lowest(p, n)) <= n
<1> DEFINE F == Fresh(p)
           L == Lowest(p, n)
           Below(w) == {v \in F : v < w}
<1>1. F \subseteq Workers /\ IsFiniteSet(F) /\ F \subseteq Nat
  BY PoolAssumption, FS_Subset DEF Fresh
<1>2. L \subseteq F /\ \A w \in L : Cardinality(Below(w)) < n
  BY DEF Lowest
<1> DEFINE T == 0..n - 1
           f == [w \in L |-> Cardinality(Below(w))]
<1> HIDE DEF F, L
<1>3. \A w : IsFiniteSet(Below(w)) /\ Cardinality(Below(w)) \in Nat
  <2>1. ASSUME NEW w PROVE IsFiniteSet(Below(w)) /\ Cardinality(Below(w)) \in Nat
    <3>1. Below(w) \subseteq F
      OBVIOUS
    <3>2. QED
      BY <1>1, <3>1, FS_Subset, FS_CardinalityType
  <2>2. QED
    BY <2>1
<1>4. ASSUME NEW v \in F, NEW w \in F, v < w
      PROVE  Cardinality(Below(v)) # Cardinality(Below(w))
  <2>1. Below(v) \subseteq Below(w) /\ v \in Below(w) /\ v \notin Below(v)
    <3>1. /\ \A u \in F : u < v => u < w
          /\ ~(v < v)
      BY <1>1, <1>4
    <3>2. QED
      BY <1>4, <3>1
  <2>2. QED
    BY <1>3, <2>1, FS_Subset
<1>5. f \in Injection(L, T)
  <2>1. \A w \in L : f[w] \in T
    <3>1. \A w \in L : f[w] = Cardinality(Below(w))
      OBVIOUS
    <3> HIDE DEF f, Below
    <3>2. QED
      BY <1>2, <1>3, <3>1
  <2>2. ASSUME NEW v \in L, NEW w \in L, f[v] = f[w] PROVE v = w
    <3>1. v \in F /\ w \in F /\ v \in Nat /\ w \in Nat
      BY <1>1, <1>2
    <3>2. ~(v < w) /\ ~(w < v)
      BY <1>4, <2>2, <3>1
    <3>3. QED
      BY <3>1, <3>2
  <2>3. f \in [L -> T]
    BY <2>1
  <2> HIDE DEF f
  <2>4. QED
    BY <2>2, <2>3 DEF Injection, IsInjective
<1>6. IsFiniteSet(T) /\ Cardinality(T) = n
  BY FS_Interval
<1>7. IsFiniteSet(L) /\ Cardinality(L) <= n
  <2> HIDE DEF f
  <2>1. QED
    BY <1>5, <1>6, FS_Injection
<1>8. QED
  BY <1>2, <1>7 DEF F, L

\* A handler takes one message at most.
Cleared(m) == \A w \in Workers : m[w] = mail[w] \/ m[w] = "none"

\* New workers came, and nothing else.
Grown(p, q) ==
    /\ q.queue = p.queue /\ q.idle = p.idle /\ q.inflight = p.inflight
    /\ q.answer = p.answer
    /\ p.workers \subseteq q.workers /\ p.pending \subseteq q.pending

\* What a spawn changes leaves a record of fields.
LEMMA SpawnedIsARecord ==
    ASSUME NEW p \in Records, NEW a \in SUBSET Workers, NEW b \in SUBSET Workers,
           NEW c \in [Workers -> Nat], NEW d \in Nat,
           NEW e \in [Workers -> {"gone", "loading", "free", "busy", "dying", "exiting"}]
    PROVE  [p EXCEPT !.workers = a, !.pending = b, !.counts = c, !.thread = e, !.crashes = d]
             \in Records
BY DEF Records

\* A pool that only grew accounts for its jobs as before.
LEMMA GrownAccounts ==
    ASSUME NEW p, NEW q, NEW lost, Grown(p, q), Accounted(p, lost)
    PROVE  Accounted(q, lost)
BY DEF Grown, Accounted

\* New workers are loading, and of a thread that no worker had.
LEMMA Spawns ==
    ASSUME NEW p, NEW m, Kept(p, m, {}), Cleared(m), NEW n \in Nat, NEW t \in Nat,
           Cardinality(p.workers) + n <= MaxSize
    PROVE  Kept(Spawned(p, n, t), m, {}) /\ Grown(p, Spawned(p, n, t))
<1> DEFINE new == Lowest(p, n)
           q == Spawned(p, n, t)
<1>1. /\ new \subseteq Workers /\ \A w \in new : p.thread[w] = "gone" /\ mail[w] = "none"
      /\ IsFiniteSet(new) /\ Cardinality(new) <= n
  BY LowestFew DEF Fresh
<1>2. p \in Records /\ Distinct(p.idle)
  BY DEF Kept
<1>3. /\ q.queue = p.queue /\ q.idle = p.idle /\ q.inflight = p.inflight
      /\ q.answer = p.answer
      /\ q.workers = p.workers \cup new /\ q.pending = p.pending \cup new
      /\ q.thread = [w \in Workers |-> IF w \in new THEN "loading" ELSE p.thread[w]]
  BY <1>2 DEF Spawned, Records
<1>4. q \in Records
  <2> DEFINE a == p.workers \cup new
             b == p.pending \cup new
             c == [w \in Workers |-> IF w \in new THEN 0 ELSE p.counts[w]]
             d == p.crashes + t
             e == [w \in Workers |-> IF w \in new THEN "loading" ELSE p.thread[w]]
  <2>1. a \in SUBSET Workers /\ b \in SUBSET Workers /\ d \in Nat
    BY <1>1, <1>2 DEF Records
  <2>2. c \in [Workers -> Nat]
    BY <1>2 DEF Records
  <2>3. e \in [Workers -> {"gone", "loading", "free", "busy", "dying", "exiting"}]
    BY <1>2 DEF Records
  <2>4. q = [p EXCEPT !.workers = a, !.pending = b, !.counts = c, !.thread = e,
                      !.crashes = d]
    BY DEF Spawned
  <2> HIDE DEF q, a, b, c, d, e
  <2>5. QED
    BY <1>2, <2>1, <2>2, <2>3, <2>4, SpawnedIsARecord
<1>5. Grown(p, q)
  BY <1>3 DEF Grown
<1>6. Cardinality(q.workers) <= MaxSize
  <2>1. IsFiniteSet(p.workers) /\ Cardinality(p.workers) \in Nat
    BY <1>2, PoolAssumption, FS_Subset, FS_CardinalityType DEF Records
  <2>2. Cardinality(new) \in Nat
    BY <1>1, FS_CardinalityType
  <2>3. /\ Cardinality(p.workers \cap new) \in Nat
        /\ Cardinality(q.workers) = Cardinality(p.workers) + Cardinality(new)
                                       - Cardinality(p.workers \cap new)
    BY <1>1, <1>3, <2>1, FS_Union, FS_Subset, FS_CardinalityType
  <2> HIDE DEF new, q
  <2>4. QED
    BY <1>1, <2>1, <2>2, <2>3, PoolAssumption
<1>7. ASSUME NEW w \in Workers
      PROVE  Placed(q, w) /\ Attached(q, m, w)
  <2>1. Placed(p, w) /\ Attached(p, m, w)
    BY DEF Kept
  <2> HIDE DEF new, q
  <2>2. CASE w \in new
    <3>1. p.thread[w] = "gone" /\ m[w] = "none" /\ q.thread[w] = "loading"
      BY <1>1, <1>3, <2>2 DEF Cleared
    <3>2. w \notin p.workers
      BY <2>1, <3>1 DEF Attached
    <3>3. w \in q.workers /\ w \in q.pending
      BY <1>3, <2>2
    <3>4. QED
      BY <1>3, <2>1, <3>1, <3>2, <3>3 DEF Placed, Attached
  <2>3. CASE w \notin new
    <3>1. /\ w \in q.workers <=> w \in p.workers
          /\ w \in q.pending <=> w \in p.pending
          /\ q.thread[w] = p.thread[w]
      BY <1>3, <2>3
    <3>2. QED
      BY <1>3, <2>1, <3>1 DEF Placed, Attached
  <2>4. QED
    BY <2>2, <2>3
<1>8. Kept(q, m, {})
  <2> HIDE DEF q, new
  <2>1. QED
    BY <1>2, <1>3, <1>4, <1>6, <1>7 DEF Kept
<1>9. QED
  BY <1>5, <1>8

\* A spawn keeps the places of the workers, and only adds to the pool.
LEMMA SpawnsOne ==
    ASSUME NEW p, NEW m, Kept(p, m, {}), Cleared(m), NEW q \in SpawnOne(p)
    PROVE  Kept(q, m, {}) /\ Grown(p, q)
<1>1. CASE ~Healthy(p) \/ Cardinality(p.workers) >= MaxSize
  BY <1>1 DEF SpawnOne, Grown
<1>2. CASE ~(~Healthy(p) \/ Cardinality(p.workers) >= MaxSize)
  <2>1. Cardinality(p.workers) \in Nat
    BY PoolAssumption, FS_Subset, FS_CardinalityType DEF Kept, Records
  <2>2. Cardinality(p.workers) + 1 <= MaxSize /\ Cardinality(p.workers) + 0 <= MaxSize
    BY <1>2, <2>1, PoolAssumption
  <2>3. q = Spawned(p, 1, 0) \/ q = Spawned(p, 0, 1)
    BY <1>2 DEF SpawnOne
  <2>4. QED
    BY <2>2, <2>3, Spawns
<1>3. QED
  BY <1>1, <1>2

\* So do the spawns for the jobs that wait.
LEMMA SpawnsForJobs ==
    ASSUME NEW p, NEW m, Kept(p, m, {}), Cleared(m), NEW q \in SpawnForJobs(p)
    PROVE  Kept(q, m, {}) /\ Grown(p, q)
<1>1. CASE ~WantsWorker(p)
  BY <1>1 DEF SpawnForJobs, Grown
<1>2. CASE WantsWorker(p)
  <2>1. Cardinality(p.workers) \in Nat /\ p.crashes \in Nat
    BY PoolAssumption, FS_Subset, FS_CardinalityType DEF Kept, Records
  <2>2. PICK n \in 0..MaxSize - Cardinality(p.workers), t \in 0..CrashBudget - p.crashes :
             q = Spawned(p, n, t)
    BY <1>2 DEF SpawnForJobs
  <2>3. n \in Nat /\ t \in Nat /\ Cardinality(p.workers) + n <= MaxSize
    BY <2>1, <2>2, PoolAssumption
  <2>4. QED
    BY <2>2, <2>3, Spawns
<1>3. QED
  BY <1>1, <1>2

\* A thread that is told to end is ending or gone.
LEMMA Terminates ==
    ASSUME NEW p \in Records, NEW ws
    PROVE  LET r == Terminated(p, ws)
           IN  /\ r \in Records
               /\ r.queue = p.queue /\ r.idle = p.idle /\ r.inflight = p.inflight
               /\ r.workers = p.workers /\ r.pending = p.pending
               /\ r.counts = p.counts /\ r.crashes = p.crashes /\ r.answer = p.answer
               /\ \A w \in Workers : r.thread[w] = IF w \in ws /\ p.thread[w] # "gone"
                                                 THEN "exiting" ELSE p.thread[w]
<1> DEFINE t == [w \in Workers |-> IF w \in ws /\ p.thread[w] # "gone"
                                   THEN "exiting" ELSE p.thread[w]]
<1>1. t \in [Workers -> {"gone", "loading", "free", "busy", "dying", "exiting"}]
  BY DEF Records
<1>2. Terminated(p, ws) = [p EXCEPT !.thread = t]
  BY DEF Terminated
<1>3. \A w \in Workers : t[w] = IF w \in ws /\ p.thread[w] # "gone"
                                THEN "exiting" ELSE p.thread[w]
  OBVIOUS
<1> DEFINE r == Terminated(p, ws)
<1> HIDE DEF t, r
<1>4. r = [p EXCEPT !.thread = t]
  BY <1>2 DEF r
<1>5. r \in Records
  BY <1>1, <1>4 DEF Records
<1>6. /\ r.queue = p.queue /\ r.idle = p.idle /\ r.inflight = p.inflight
      /\ r.workers = p.workers /\ r.pending = p.pending
      /\ r.counts = p.counts /\ r.crashes = p.crashes /\ r.answer = p.answer
      /\ r.thread = t
  BY <1>4 DEF Records
<1>7. QED
  BY <1>3, <1>5, <1>6 DEF r

\* A worker is given up: it is nowhere in the pool, whatever place it had.
LEMMA Removes ==
    ASSUME NEW p, NEW m, NEW w \in Workers, Kept(p, m, {w})
    PROVE  LET q == Removed(p, w)
           IN  /\ Kept(q, m, {})
               /\ q.queue = p.queue /\ q.answer = p.answer
               /\ q.inflight = [p.inflight EXCEPT ![w] = NoJob]
               /\ q.workers = p.workers \ {w} /\ q.pending = p.pending \ {w}
<1> DEFINE r == Terminated(p, {w})
           q == Removed(p, w)
           a == p.workers \ {w}
           b == p.pending \ {w}
           c == [r.counts EXCEPT ![w] = 0]
           d == [p.inflight EXCEPT ![w] = NoJob]
           e == Without(p.idle, w)
<1>1. p \in Records /\ Distinct(p.idle)
  BY DEF Kept
<1>2. /\ r \in Records
      /\ r.queue = p.queue /\ r.idle = p.idle /\ r.inflight = p.inflight
      /\ r.workers = p.workers /\ r.pending = p.pending /\ r.answer = p.answer
      /\ \A v \in Workers : r.thread[v] = IF v \in {w} /\ p.thread[v] # "gone"
                                        THEN "exiting" ELSE p.thread[v]
  BY <1>1, Terminates
<1>3. /\ e \in Seq(Workers) /\ Distinct(e) /\ ToSet(e) = ToSet(p.idle) \ {w}
  BY <1>1, ElementsWithout DEF Records
<1>4. /\ a \in SUBSET Workers /\ b \in SUBSET Workers
      /\ d \in [Workers -> Jobs \cup {NoJob}]
  BY <1>1 DEF Records
<1>5. c \in [Workers -> Nat]
  <2> HIDE DEF r
  <2>1. QED
    BY <1>2 DEF Records
<1>6. q = [r EXCEPT !.workers = a, !.pending = b, !.counts = c, !.inflight = d, !.idle = e]
  <2> HIDE DEF r
  <2>1. q = [r EXCEPT !.workers = r.workers \ {w}, !.pending = r.pending \ {w},
                      !.counts = c, !.inflight = [r.inflight EXCEPT ![w] = NoJob],
                      !.idle = Without(r.idle, w)]
    BY DEF Removed, r
  <2>2. QED
    BY <1>2, <2>1
<1> HIDE DEF q, r, a, b, c, d, e
<1>7. /\ q \in Records
      /\ q.workers = a /\ q.pending = b /\ q.inflight = d /\ q.idle = e
      /\ q.queue = r.queue /\ q.answer = r.answer /\ q.thread = r.thread
  <2> DEFINE z == [r EXCEPT !.workers = a, !.pending = b, !.counts = c, !.inflight = d,
                            !.idle = e]
  <2>1. /\ z \in Records
        /\ z.workers = a /\ z.pending = b /\ z.inflight = d /\ z.idle = e
        /\ z.queue = r.queue /\ z.answer = r.answer /\ z.thread = r.thread
    BY <1>2, <1>3, <1>4, <1>5 DEF Records
  <2>2. q = z
    BY <1>6 DEF z
  <2>3. QED
    BY <2>1, <2>2
<1>8. Cardinality(q.workers) <= MaxSize
  <2>1. IsFiniteSet(p.workers) /\ Cardinality(p.workers) <= MaxSize
    BY <1>1, PoolAssumption, FS_Subset DEF Kept, Records
  <2>2. /\ Cardinality(a) <= Cardinality(p.workers) /\ Cardinality(a) \in Nat
        /\ Cardinality(p.workers) \in Nat
    BY <2>1, FS_Subset, FS_CardinalityType DEF a
  <2>3. QED
    BY <1>7, <2>1, <2>2, PoolAssumption
<1>9. ASSUME NEW v \in Workers
      PROVE  Placed(q, v) /\ Attached(q, m, v)
  <2>1. CASE v = w
    <3>1. /\ v \notin q.workers /\ v \notin q.pending /\ v \notin ToSet(q.idle)
          /\ q.inflight[v] = NoJob
      BY <1>1, <1>3, <1>7, <2>1 DEF a, b, d, Records
    <3>2. q.thread[v] \in {"exiting", "gone"}
      BY <1>2, <1>7, <2>1
    <3>3. QED
      BY <3>1, <3>2 DEF Placed, Attached
  <2>2. CASE v # w
    <3>1. Placed(p, v) /\ Attached(p, m, v)
      BY <2>2 DEF Kept
    <3>2. /\ v \in q.workers <=> v \in p.workers
          /\ v \in q.pending <=> v \in p.pending
          /\ v \in ToSet(q.idle) <=> v \in ToSet(p.idle)
          /\ q.inflight[v] = p.inflight[v] /\ q.thread[v] = p.thread[v]
      BY <1>1, <1>2, <1>3, <1>7, <2>2 DEF a, b, d, Records
    <3>3. QED
      BY <3>1, <3>2 DEF Placed, Attached
  <2>3. QED
    BY <2>1, <2>2
<1>10. Kept(q, m, {})
  BY <1>3, <1>7, <1>8, <1>9 DEF Kept
<1>11. QED
  BY <1>2, <1>7, <1>10 DEF q, a, b, d

\* Its job is lost to the pool.
LEMMA RemovesJob ==
    ASSUME NEW p \in Records, NEW q, NEW w \in Workers, NEW lost, Accounted(p, lost),
           q.queue = p.queue, q.answer = p.answer,
           q.inflight = [p.inflight EXCEPT ![w] = NoJob]
    PROVE  Accounted(q, lost \cup ({p.inflight[w]} \ {NoJob}))
<1>1. \A v \in Workers : q.inflight[v] = IF v = w THEN NoJob ELSE p.inflight[v]
  BY DEF Records
<1>2. \A j \in Jobs : j # NoJob
  BY PoolAssumption
<1>3. \A v \in Workers : p.inflight[v] \in Jobs \cup {NoJob}
  BY DEF Records
<1> DEFINE l == lost \cup ({p.inflight[w]} \ {NoJob})
<1>4. \A j \in Jobs : q.answer[j] = "waiting" <=>
          j \in ToSet(q.queue) \/ j \in l \/ \E v \in Workers : q.inflight[v] = j
  BY <1>1, <1>2 DEF Accounted
<1>5. \A u, v \in Workers : q.inflight[u] # NoJob /\ q.inflight[u] = q.inflight[v] => u = v
  BY <1>1 DEF Accounted
<1>6. \A v \in Workers : q.inflight[v] \notin ToSet(q.queue) \cup l
  <2>1. ToSet(q.queue) \subseteq Jobs
    BY ElementsOf DEF Records
  <2>2. NoJob \notin ToSet(q.queue) \cup l
    BY <1>2, <2>1 DEF Accounted
  <2>3. QED
    BY <1>1, <1>3, <2>2 DEF Accounted
<1>7. l \subseteq Jobs \ ToSet(q.queue)
  BY <1>3 DEF Accounted
<1>8. QED
  BY <1>4, <1>5, <1>6, <1>7 DEF Accounted

\* Waiting calls are answered, and nothing else changes.
LEMMA Settles ==
    ASSUME NEW p \in Records, NEW js, NEW how \in {"result", "error"}
    PROVE  LET q == Settle(p, js, how)
           IN  /\ q \in Records
               /\ q.queue = p.queue /\ q.idle = p.idle /\ q.inflight = p.inflight
               /\ q.workers = p.workers /\ q.pending = p.pending /\ q.thread = p.thread
               /\ q.counts = p.counts /\ q.crashes = p.crashes
               /\ \A j \in Jobs : q.answer[j] = IF j \in js /\ p.answer[j] = "waiting"
                                              THEN how ELSE p.answer[j]
<1> DEFINE a == [j \in Jobs |-> IF j \in js /\ p.answer[j] = "waiting"
                               THEN how ELSE p.answer[j]]
<1>1. a \in [Jobs -> {"none", "waiting", "result", "error"}]
  BY DEF Records
<1>2. Settle(p, js, how) = [p EXCEPT !.answer = a]
  BY DEF Settle
<1>3. \A j \in Jobs : a[j] = IF j \in js /\ p.answer[j] = "waiting"
                             THEN how ELSE p.answer[j]
  OBVIOUS
<1> HIDE DEF a
<1>4. QED
  BY <1>1, <1>2, <1>3 DEF Records

\* A settled job leaves the workers where they are.
LEMMA SettlesKept ==
    ASSUME NEW p, NEW m, NEW out, Kept(p, m, out), NEW js, NEW how \in {"result", "error"}
    PROVE  Kept(Settle(p, js, how), m, out)
<1> DEFINE q == Settle(p, js, how)
<1>1. p \in Records
  BY DEF Kept
<1>2. /\ q \in Records
      /\ q.idle = p.idle /\ q.inflight = p.inflight
      /\ q.workers = p.workers /\ q.pending = p.pending /\ q.thread = p.thread
  BY <1>1, Settles
<1> HIDE DEF q
<1>3. \A w \in Workers : Placed(p, w) /\ Attached(p, m, w)
                           => Placed(q, w) /\ Attached(q, m, w)
  BY <1>2 DEF Placed, Attached
<1>4. Kept(q, m, out)
  BY <1>2, <1>3 DEF Kept
<1>5. QED
  BY <1>4 DEF q

\* The lost job is answered, so that every waiting one is accounted for again.
LEMMA SettlesLost ==
    ASSUME NEW p \in Records, NEW lost, Accounted(p, lost), NEW js, js \cap Jobs = lost,
           NEW how \in {"result", "error"}
    PROVE  Accounted(Settle(p, js, how), {})
<1> DEFINE q == Settle(p, js, how)
<1>1. /\ q \in Records /\ q.queue = p.queue /\ q.inflight = p.inflight
      /\ \A j \in Jobs : q.answer[j] = IF j \in js /\ p.answer[j] = "waiting"
                                     THEN how ELSE p.answer[j]
  BY Settles
<1> HIDE DEF q
<1>2. ASSUME NEW j \in Jobs
      PROVE  q.answer[j] = "waiting" <=>
                 j \in ToSet(q.queue) \/ j \in {} \/ \E w \in Workers : q.inflight[w] = j
  <2>1. q.answer[j] = "waiting" <=> p.answer[j] = "waiting" /\ j \notin lost
    BY <1>1
  <2>2. j \in lost => j \notin ToSet(p.queue) /\ \A w \in Workers : p.inflight[w] # j
    BY DEF Accounted
  <2>3. p.answer[j] = "waiting" <=>
            j \in ToSet(p.queue) \/ j \in lost \/ \E w \in Workers : p.inflight[w] = j
    BY DEF Accounted
  <2>4. QED
    BY <1>1, <2>1, <2>2, <2>3
<1>3. ToSet(p.queue) \subseteq Jobs
  BY ElementsOf DEF Records
<1>4. Accounted(q, {})
  BY <1>1, <1>2, <1>3 DEF Accounted
<1>5. QED
  BY <1>4 DEF q

\* The first jobs of the queue go to the last workers of idle, each to another,
\* until one of the two lists is empty.
LEMMA Dispatches ==
    ASSUME NEW p, NEW m, Kept(p, m, {}), Accounted(p, {})
    PROVE  LET q == Dispatched(p)
           IN  /\ Kept(q, m, {}) /\ Accounted(q, {})
               /\ q.workers = p.workers /\ q.pending = p.pending /\ q.answer = p.answer
               /\ q.queue = <<>> \/ q.idle = <<>>
               /\ p.idle = <<>> => q.queue = p.queue
<1> DEFINE ni == Len(p.idle)
           n  == IF Len(p.queue) < ni THEN Len(p.queue) ELSE ni
           At(w) == {i \in 1..n : p.idle[ni + 1 - i] = w}
           given == {w \in Workers : At(w) # {}}
           Job(w) == p.queue[CHOOSE i \in At(w) : TRUE]
           qu == SubSeq(p.queue, n + 1, Len(p.queue))
           id == SubSeq(p.idle, 1, ni - n)
           inf == [w \in Workers |-> IF w \in given THEN Job(w) ELSE p.inflight[w]]
           cnt == [w \in Workers |-> IF w \in given THEN p.counts[w] + 1 ELSE p.counts[w]]
           thr == [w \in Workers |->
                     IF w \in given /\ p.thread[w] = "free" THEN "busy" ELSE p.thread[w]]
           q == Dispatched(p)
<1>1. /\ p \in Records /\ Distinct(p.idle) /\ Distinct(p.queue)
      /\ p.queue \in Seq(Jobs) /\ p.idle \in Seq(Workers)
  BY DEF Kept, Accounted, Records
<1>2. q = [p EXCEPT !.queue = qu, !.idle = id, !.inflight = inf, !.counts = cnt,
                    !.thread = thr]
  BY DEF Dispatched
<1>3. /\ ni \in Nat /\ Len(p.queue) \in Nat
      /\ n \in Nat /\ n <= ni /\ n <= Len(p.queue) /\ (n = ni \/ n = Len(p.queue))
  BY <1>1, LenProperties
<1>4. /\ \A w : w \in ToSet(p.idle) <=> \E i \in 1..ni : p.idle[i] = w
      /\ \A j : j \in ToSet(p.queue) <=> \E i \in 1..Len(p.queue) : p.queue[i] = j
      /\ ToSet(p.idle) \subseteq Workers /\ ToSet(p.queue) \subseteq Jobs
  BY <1>1, ElementsOf
<1>5. \A w \in given : \E i \in 1..n : p.idle[ni + 1 - i] = w /\ Job(w) = p.queue[i]
  <2>1. SUFFICES ASSUME NEW w \in given
                 PROVE  \E i \in 1..n : p.idle[ni + 1 - i] = w /\ Job(w) = p.queue[i]
    OBVIOUS
  <2> DEFINE i == CHOOSE i \in At(w) : TRUE
  <2>2. i \in At(w)
    OBVIOUS
  <2>3. QED
    BY <2>2
<1>6. \A w \in Workers : (\E i \in 1..n : p.idle[ni + 1 - i] = w) => w \in given
  OBVIOUS
<1>7. given \subseteq Workers
  OBVIOUS
<1>8. /\ qu \in Seq(Jobs) /\ Distinct(qu)
      /\ \A j : j \in ToSet(qu) <=> \E i \in n + 1..Len(p.queue) : p.queue[i] = j
  <2>1. n + 1 \in 1..Len(p.queue) + 1 /\ Len(p.queue) \in 0..Len(p.queue)
    BY <1>3
  <2> HIDE DEF n
  <2>2. QED
    BY <1>1, <2>1, ElementsOfPart
<1>9. /\ id \in Seq(Workers) /\ Distinct(id)
      /\ \A w : w \in ToSet(id) <=> \E i \in 1..ni - n : p.idle[i] = w
  <2>1. 1 \in 1..ni + 1 /\ ni - n \in 0..ni
    <3> HIDE DEF n, ni
    <3>1. QED
      BY <1>3
  <2> HIDE DEF n
  <2>2. QED
    BY <1>1, <2>1, ElementsOfPart
<1> HIDE DEF n, ni, given, Job, qu, id, inf, cnt, thr, q
<1>10. ToSet(p.idle) = ToSet(id) \cup given /\ ToSet(id) \cap given = {}
  <2>1. ASSUME NEW w \in ToSet(p.idle), w \notin ToSet(id)
        PROVE  w \in given
    <3>1. PICK k \in 1..ni : p.idle[k] = w
      BY <1>4
    <3>2. ~(k \in 1..ni - n)
      BY <1>9, <2>1, <3>1
    <3>3. ni + 1 - k \in 1..n /\ ni + 1 - (ni + 1 - k) = k
      BY <1>3, <3>2
    <3>4. QED
      BY <1>4, <1>6, <2>1, <3>1, <3>3
  <2>2. ASSUME NEW w \in ToSet(id)
        PROVE  w \in ToSet(p.idle) /\ w \notin given
    <3>1. PICK k \in 1..ni - n : p.idle[k] = w
      BY <1>9
    <3>2. k \in 1..ni
      BY <1>3
    <3>3. ASSUME NEW i \in 1..n PROVE p.idle[ni + 1 - i] # w
      <4>1. ni + 1 - i \in 1..ni /\ ni + 1 - i # k
        BY <1>3
      <4>2. QED
        BY <1>1, <3>1, <3>2, <4>1 DEF Distinct, ni
    <3>4. QED
      BY <1>4, <1>5, <3>1, <3>2, <3>3
  <2>3. ASSUME NEW w \in given
        PROVE  w \in ToSet(p.idle)
    <3>1. PICK i \in 1..n : p.idle[ni + 1 - i] = w
      BY <1>5
    <3>2. ni + 1 - i \in 1..ni
      BY <1>3
    <3>3. QED
      BY <1>4, <3>1, <3>2
  <2>4. QED
    BY <2>1, <2>2, <2>3
<1>11. \A w \in given : /\ Job(w) \in Jobs /\ Job(w) \in ToSet(p.queue)
                        /\ Job(w) \notin ToSet(qu) /\ Job(w) # NoJob
  <2>1. SUFFICES ASSUME NEW w \in given
                 PROVE  /\ Job(w) \in Jobs /\ Job(w) \in ToSet(p.queue)
                        /\ Job(w) \notin ToSet(qu) /\ Job(w) # NoJob
    OBVIOUS
  <2>2. PICK i \in 1..n : Job(w) = p.queue[i]
    BY <1>5
  <2>3. i \in 1..Len(p.queue)
    BY <1>3
  <2>4. Job(w) \in ToSet(p.queue)
    BY <1>4, <2>2, <2>3
  <2>5. ASSUME NEW k \in n + 1..Len(p.queue) PROVE p.queue[k] # Job(w)
    <3>1. k \in 1..Len(p.queue) /\ k # i
      BY <1>3
    <3>2. QED
      BY <1>1, <2>2, <2>3, <3>1 DEF Distinct
  <2>6. QED
    BY <1>4, <1>8, <2>4, <2>5, PoolAssumption
<1>12. \A v, w \in given : Job(v) = Job(w) => v = w
  <2>1. SUFFICES ASSUME NEW v \in given, NEW w \in given, Job(v) = Job(w)
                 PROVE  v = w
    OBVIOUS
  <2>2. PICK i \in 1..n : p.idle[ni + 1 - i] = v /\ Job(v) = p.queue[i]
    BY <1>5
  <2>3. PICK k \in 1..n : p.idle[ni + 1 - k] = w /\ Job(w) = p.queue[k]
    BY <1>5
  <2>4. i \in 1..Len(p.queue) /\ k \in 1..Len(p.queue)
    BY <1>3
  <2>5. i = k
    BY <1>1, <2>1, <2>2, <2>3, <2>4 DEF Distinct
  <2>6. QED
    BY <2>2, <2>3, <2>5
<1>13. \A j \in ToSet(p.queue) : j \in ToSet(qu) \/ \E w \in given : Job(w) = j
  <2>1. SUFFICES ASSUME NEW j \in ToSet(p.queue), j \notin ToSet(qu)
                 PROVE  \E w \in given : Job(w) = j
    OBVIOUS
  <2>2. PICK i \in 1..Len(p.queue) : p.queue[i] = j
    BY <1>4
  <2>3. ~(i \in n + 1..Len(p.queue))
    BY <1>8, <2>1, <2>2
  <2>4. i \in 1..n /\ ni + 1 - i \in 1..ni
    BY <1>3, <2>3
  <2> DEFINE w == p.idle[ni + 1 - i]
  <2>5. w \in Workers /\ w \in given
    BY <1>4, <1>6, <2>4
  <2>6. PICK k \in 1..n : p.idle[ni + 1 - k] = w /\ Job(w) = p.queue[k]
    BY <1>5, <2>5
  <2>7. ni + 1 - k \in 1..ni
    BY <1>3
  <2>8. ni + 1 - k = ni + 1 - i
    BY <1>1, <2>4, <2>6, <2>7 DEF Distinct, ni
  <2>9. k = i
    BY <1>3, <2>8
  <2>10. QED
    BY <2>2, <2>5, <2>6, <2>9
<1>14. ToSet(qu) \subseteq ToSet(p.queue)
  <2>1. ASSUME NEW j \in ToSet(qu) PROVE j \in ToSet(p.queue)
    <3>1. PICK i \in n + 1..Len(p.queue) : p.queue[i] = j
      BY <1>8
    <3>2. i \in 1..Len(p.queue)
      BY <1>3
    <3>3. QED
      BY <1>4, <3>1, <3>2
  <2>2. QED
    BY <2>1
<1>15. /\ inf \in [Workers -> Jobs \cup {NoJob}] /\ cnt \in [Workers -> Nat]
       /\ thr \in [Workers -> {"gone", "loading", "free", "busy", "dying", "exiting"}]
  <2>1. inf \in [Workers -> Jobs \cup {NoJob}]
    BY <1>1, <1>11 DEF inf, Records
  <2>2. cnt \in [Workers -> Nat]
    BY <1>1 DEF cnt, Records
  <2>3. thr \in [Workers -> {"gone", "loading", "free", "busy", "dying", "exiting"}]
    BY <1>1 DEF thr, Records
  <2>4. QED
    BY <2>1, <2>2, <2>3
<1>16. /\ q \in Records
       /\ q.queue = qu /\ q.idle = id /\ q.inflight = inf /\ q.thread = thr
       /\ q.workers = p.workers /\ q.pending = p.pending /\ q.answer = p.answer
  BY <1>1, <1>2, <1>8, <1>9, <1>15 DEF Records
<1>17. \A w \in Workers :
           /\ q.inflight[w] = IF w \in given THEN Job(w) ELSE p.inflight[w]
           /\ q.thread[w] = IF w \in given /\ p.thread[w] = "free"
                            THEN "busy" ELSE p.thread[w]
  BY <1>16 DEF inf, thr
<1>18. ASSUME NEW w \in Workers
       PROVE  Placed(q, w) /\ Attached(q, m, w)
  <2>1. Placed(p, w) /\ Attached(p, m, w)
    BY DEF Kept
  <2>2. CASE w \in given
    <3>1. w \in ToSet(p.idle) /\ w \notin ToSet(q.idle)
      BY <1>10, <1>16, <2>2
    <3>2. q.inflight[w] # NoJob /\ q.thread[w] \in {p.thread[w], "busy"}
      BY <1>11, <1>17, <2>2
    <3>3. w \in q.workers <=> w \in p.workers
      BY <1>16
    <3>4. w \in q.pending <=> w \in p.pending
      BY <1>16
    <3>5. QED
      BY <2>1, <3>1, <3>2, <3>3, <3>4 DEF Placed, Attached
  <2>3. CASE w \notin given
    <3>1. /\ w \in ToSet(q.idle) <=> w \in ToSet(p.idle)
          /\ q.inflight[w] = p.inflight[w] /\ q.thread[w] = p.thread[w]
          /\ q.workers = p.workers /\ q.pending = p.pending
      BY <1>10, <1>16, <1>17, <2>3
    <3>2. QED
      BY <2>1, <3>1 DEF Placed, Attached
  <2>4. QED
    BY <2>2, <2>3
<1>19. Kept(q, m, {})
  <2>1. Cardinality(q.workers) <= MaxSize
    BY <1>16 DEF Kept
  <2>2. QED
    BY <1>9, <1>16, <1>18, <2>1 DEF Kept
<1>20. Accounted(q, {})
  <2>1. \A w \in given : p.inflight[w] = NoJob
    BY <1>7, <1>10 DEF Kept, Placed
  <2>2. ASSUME NEW j \in Jobs
        PROVE  (j \in ToSet(q.queue) \/ \E w \in Workers : q.inflight[w] = j) <=>
               (j \in ToSet(p.queue) \/ \E w \in Workers : p.inflight[w] = j)
    <3>1. j # NoJob
      BY PoolAssumption
    <3>2. ASSUME j \in ToSet(q.queue) \/ \E w \in Workers : q.inflight[w] = j
          PROVE  j \in ToSet(p.queue) \/ \E w \in Workers : p.inflight[w] = j
      BY <1>11, <1>14, <1>16, <1>17, <3>2
    <3>3. ASSUME j \in ToSet(p.queue)
          PROVE  j \in ToSet(q.queue) \/ \E w \in Workers : q.inflight[w] = j
      BY <1>7, <1>13, <1>16, <1>17, <3>3
    <3>4. ASSUME NEW w \in Workers, p.inflight[w] = j
          PROVE  q.inflight[w] = j
      BY <1>17, <2>1, <3>1, <3>4
    <3>5. QED
      BY <3>2, <3>3, <3>4
  <2>3. \A v, w \in Workers : q.inflight[v] # NoJob /\ q.inflight[v] = q.inflight[w] => v = w
    <3>1. SUFFICES ASSUME NEW v \in Workers, NEW w \in Workers,
                          q.inflight[v] # NoJob, q.inflight[v] = q.inflight[w]
                   PROVE  v = w
      OBVIOUS
    <3>2. \A u \in given : \A x \in Workers : p.inflight[x] # Job(u)
      BY <1>11 DEF Accounted
    <3>3. QED
      BY <1>12, <1>17, <3>1, <3>2 DEF Accounted
  <2>4. \A w \in Workers : q.inflight[w] \notin ToSet(q.queue)
    BY <1>11, <1>14, <1>16, <1>17 DEF Accounted
  <2>5. \A j \in Jobs : p.answer[j] = "waiting" <=>
            (j \in ToSet(p.queue) \/ \E w \in Workers : p.inflight[w] = j)
    BY DEF Accounted
  <2>6. Distinct(q.queue) /\ q.answer = p.answer
    BY <1>8, <1>16
  <2>7. QED
    BY <2>2, <2>3, <2>4, <2>5, <2>6 DEF Accounted
<1>21. qu = <<>> \/ id = <<>>
  <2>1. CASE n = Len(p.queue)
    <3>1. ToSet(qu) = {}
      BY <1>3, <1>8, <2>1
    <3>2. \A i \in 1..Len(qu) : qu[i] \in ToSet(qu)
      BY <1>8, ElementsOf
    <3>3. Len(qu) \in Nat
      BY <1>8, LenProperties
    <3>4. Len(qu) = 0
      BY <3>1, <3>2, <3>3
    <3>5. QED
      BY <1>8, <3>4, EmptySeq
  <2>2. CASE n = ni
    <3>1. ToSet(id) = {}
      BY <1>3, <1>9, <2>2
    <3>2. \A i \in 1..Len(id) : id[i] \in ToSet(id)
      BY <1>9, ElementsOf
    <3>3. Len(id) \in Nat
      BY <1>9, LenProperties
    <3>4. Len(id) = 0
      BY <3>1, <3>2, <3>3
    <3>5. QED
      BY <1>9, <3>4, EmptySeq
  <2>3. QED
    BY <1>3, <2>1, <2>2
<1>22. p.idle = <<>> => qu = p.queue
  <2>1. SUFFICES ASSUME p.idle = <<>> PROVE qu = p.queue
    OBVIOUS
  <2>2. ni = 0 /\ n = 0
    BY <1>3, <2>1, EmptySeq DEF ni
  <2>3. qu = SubSeq(p.queue, 1, Len(p.queue))
    BY <2>2 DEF qu
  <2>4. QED
    BY <1>1, <1>3, <2>3, SubSeqProperties
<1>23. QED
  BY <1>16, <1>19, <1>20, <1>21, <1>22 DEF q

\* A queue that no worker is left to take is refused.
LEMMA Exhausts ==
    ASSUME NEW p, NEW m, Kept(p, m, {}), Accounted(p, {}),
           p.queue = <<>> \/ p.idle = <<>>
    PROVE  LET q == Exhausted(p)
           IN  /\ Kept(q, m, {}) /\ Accounted(q, {}) /\ Unstranded(q)
               /\ q.pending = p.pending
               /\ \/ q.answer = p.answer
                  \/ /\ p.workers = {} /\ p.idle = <<>>
                     /\ q.answer = Settle(p, ToSet(p.queue), "error").answer
<1> DEFINE cond == /\ p.queue # <<>> /\ p.idle = <<>> /\ p.pending = {} /\ p.workers = {}
           s == Settle(p, ToSet(p.queue), "error")
           q == Exhausted(p)
<1>1. p \in Records /\ \A w \in Workers : Placed(p, w)
  BY DEF Kept
<1>2. CASE ~cond
  <2>1. q = p
    BY <1>2 DEF Exhausted
  <2>2. p.workers = {} => p.pending = {}
    BY <1>1 DEF Placed, Records
  <2>3. Unstranded(p)
    BY <1>2, <2>2 DEF Unstranded
  <2>4. QED
    BY <2>1, <2>3
<1>3. CASE cond
  <2>1. q = [s EXCEPT !.queue = <<>>]
    BY <1>3 DEF Exhausted
  <2>2. /\ s \in Records
        /\ s.queue = p.queue /\ s.idle = p.idle /\ s.inflight = p.inflight
        /\ s.workers = p.workers /\ s.pending = p.pending
        /\ \A j \in Jobs : s.answer[j] = IF j \in ToSet(p.queue) /\ p.answer[j] = "waiting"
                                       THEN "error" ELSE p.answer[j]
    BY <1>1, Settles
  <2>3. Kept(s, m, {})
    BY SettlesKept
  <2> HIDE DEF s, q
  <2>4. <<>> \in Seq(Jobs) /\ ToSet(<<>>) = {} /\ Distinct(<<>>)
    <3>1. <<>> \in Seq(Jobs) /\ Len(<<>>) = 0
      BY EmptySeq
    <3>2. QED
      BY <3>1, ElementsOf DEF Distinct
  <2>5. /\ q \in Records /\ q.queue = <<>>
        /\ q.idle = s.idle /\ q.inflight = s.inflight /\ q.workers = s.workers
        /\ q.pending = s.pending /\ q.answer = s.answer /\ q.thread = s.thread
    BY <2>1, <2>2, <2>4 DEF Records
  <2>6. Kept(q, m, {})
    <3>1. \A w \in Workers : Placed(s, w) /\ Attached(s, m, w)
                               => Placed(q, w) /\ Attached(q, m, w)
      BY <2>5 DEF Placed, Attached
    <3>2. QED
      BY <2>3, <2>5, <3>1 DEF Kept
  <2>7. Accounted(q, {})
    <3>1. ASSUME NEW j \in Jobs
          PROVE  q.answer[j] = "waiting" <=>
                     j \in ToSet(q.queue) \/ j \in {} \/ \E w \in Workers : q.inflight[w] = j
      <4>1. q.answer[j] = "waiting" <=> p.answer[j] = "waiting" /\ j \notin ToSet(p.queue)
        BY <2>2, <2>5
      <4>2. p.answer[j] = "waiting" <=>
                j \in ToSet(p.queue) \/ \E w \in Workers : p.inflight[w] = j
        BY DEF Accounted
      <4>3. \A w \in Workers : p.inflight[w] \notin ToSet(p.queue)
        BY DEF Accounted
      <4>4. QED
        BY <2>2, <2>4, <2>5, <4>1, <4>2, <4>3
    <3>2. QED
      BY <2>2, <2>4, <2>5, <3>1 DEF Accounted
  <2>8. QED
    BY <1>3, <2>2, <2>5, <2>6, <2>7 DEF Unstranded, q, s
<1>4. QED
  BY <1>2, <1>3

\* What drain() leaves, and whom it answers.
LEMMA Drains ==
    ASSUME NEW p, NEW m, Kept(p, m, {}), Accounted(p, {}), Cleared(m), NEW q \in Drain(p)
    PROVE  /\ Kept(q, m, {}) /\ Accounted(q, {}) /\ Unstranded(q)
           /\ p.pending \subseteq q.pending
           /\ \/ q.answer = p.answer
              \/ /\ p.workers = {}
                 /\ \A j \in Jobs :
                       q.answer[j] = IF j \in ToSet(p.queue) /\ p.answer[j] = "waiting"
                                     THEN "error" ELSE p.answer[j]
<1>1. PICK r \in SpawnForJobs(p) : q = Exhausted(Dispatched(r))
  BY DEF Drain
<1>2. Kept(r, m, {}) /\ Grown(p, r) /\ Accounted(r, {})
  BY SpawnsForJobs, GrownAccounts
<1> DEFINE d == Dispatched(r)
<1>3. /\ Kept(d, m, {}) /\ Accounted(d, {})
      /\ d.workers = r.workers /\ d.pending = r.pending /\ d.answer = r.answer
      /\ d.queue = <<>> \/ d.idle = <<>>
      /\ r.idle = <<>> => d.queue = r.queue
  BY <1>2, Dispatches
<1>4. q = Exhausted(d)
  BY <1>1
<1> HIDE DEF d
<1>5. /\ Kept(q, m, {}) /\ Accounted(q, {}) /\ Unstranded(q)
      /\ q.pending = d.pending
      /\ \/ q.answer = d.answer
         \/ /\ d.workers = {} /\ d.idle = <<>>
            /\ q.answer = Settle(d, ToSet(d.queue), "error").answer
  BY <1>3, <1>4, Exhausts
<1>6. p.pending \subseteq q.pending
  BY <1>2, <1>3, <1>5 DEF Grown
<1>7. CASE q.answer = d.answer
  BY <1>2, <1>3, <1>5, <1>6, <1>7 DEF Grown
<1>8. CASE d.workers = {} /\ q.answer = Settle(d, ToSet(d.queue), "error").answer
  <2>1. p.workers = {} /\ p.idle = r.idle /\ p.queue = r.queue /\ r.workers = {}
        /\ d.answer = p.answer
    BY <1>2, <1>3, <1>8 DEF Grown
  <2>2. r.idle = <<>>
    <3>1. /\ r.idle \in Seq(Workers)
          /\ \A w \in Workers : w \in ToSet(r.idle) => w \in r.workers
      BY <1>2 DEF Kept, Records, Placed
    <3>2. ToSet(r.idle) = {} /\ Len(r.idle) \in Nat
      BY <2>1, <3>1, ElementsOf, LenProperties
    <3>3. \A i \in 1..Len(r.idle) : r.idle[i] \in ToSet(r.idle)
      BY <3>1, ElementsOf
    <3>4. Len(r.idle) = 0
      BY <3>2, <3>3
    <3>5. QED
      BY <3>1, <3>4, EmptySeq
  <2>3. d.queue = p.queue
    BY <1>3, <2>1, <2>2
  <2>4. d \in Records
    BY <1>3 DEF Kept
  <2>5. \A j \in Jobs : q.answer[j] = IF j \in ToSet(d.queue) /\ d.answer[j] = "waiting"
                                     THEN "error" ELSE d.answer[j]
    BY <1>8, <2>4, Settles
  <2>6. QED
    BY <1>5, <1>6, <2>1, <2>3, <2>5
<1>9. QED
  BY <1>5, <1>7, <1>8

\* What holds for all workers holds with exceptions.
LEMMA KeptBut ==
    ASSUME NEW p, NEW m, NEW out, Kept(p, m, {})
    PROVE  Kept(p, m, out)
BY DEF Kept

\* A crash is counted.
LEMMA Crashes ==
    ASSUME NEW p, NEW m, NEW lost, Kept(p, m, {}), Accounted(p, lost)
    PROVE  LET q == [p EXCEPT !.crashes = @ + 1]
           IN  /\ Kept(q, m, {}) /\ Accounted(q, lost)
               /\ q.answer = p.answer /\ q.pending = p.pending
<1> DEFINE q == [p EXCEPT !.crashes = @ + 1]
<1>1. p \in Records
  BY DEF Kept
<1>2. /\ q \in Records
      /\ q.queue = p.queue /\ q.idle = p.idle /\ q.inflight = p.inflight
      /\ q.workers = p.workers /\ q.pending = p.pending
      /\ q.answer = p.answer /\ q.thread = p.thread
  <2> DEFINE d == p.crashes + 1
  <2>1. d \in Nat
    BY <1>1 DEF Records
  <2>2. q = [p EXCEPT !.crashes = d]
    OBVIOUS
  <2> HIDE DEF d
  <2>3. QED
    BY <1>1, <2>1, <2>2 DEF Records
<1> HIDE DEF q
<1>3. \A w \in Workers : Placed(p, w) /\ Attached(p, m, w)
                           => Placed(q, w) /\ Attached(q, m, w)
  BY <1>2 DEF Placed, Attached
<1>4. Kept(q, m, {}) /\ Accounted(q, lost)
  BY <1>2, <1>3 DEF Kept, Accounted
<1>5. QED
  BY <1>2, <1>4 DEF q

-----------------------------------------------------------------------------
(* The invariant and its parts.                                            *)

\* The fields of the record are the variables.
LEMMA FieldsAre ==
    /\ Fields.queue = queue /\ Fields.idle = idle /\ Fields.inflight = inflight
    /\ Fields.workers = workers /\ Fields.pending = pending
    /\ Fields.counts = parseCounts /\ Fields.crashes = crashCount
    /\ Fields.answer = answer /\ Fields.thread = thread
BY DEF Fields

\* The record has its type when the variables have theirs.
LEMMA FieldsTyped ==
    (Fields \in Records) <=>
        /\ queue \in Seq(Jobs) /\ idle \in Seq(Workers)
        /\ inflight \in [Workers -> Jobs \cup {NoJob}]
        /\ workers \subseteq Workers /\ pending \subseteq Workers
        /\ parseCounts \in [Workers -> Nat] /\ crashCount \in Nat
        /\ answer \in [Jobs -> {"none", "waiting", "result", "error"}]
        /\ thread \in [Workers -> {"gone", "loading", "free", "busy", "dying", "exiting"}]
BY DEF Fields, Records

\* The invariant contains the type invariant and the properties.
LEMMA InvImplies ==
    ASSUME PoolInv
    PROVE  PoolTypeOK /\ WorkersPartitioned /\ JobsAccounted /\ NoneStranded
<1>1. /\ Others /\ expired \subseteq Jobs
      /\ Kept(Fields, mail, {}) /\ Accounted(Fields, {}) /\ Unstranded(Fields)
      /\ WaiterHasReason
  BY DEF PoolInv
<1>2. Fields \in Records /\ Distinct(idle) /\ Cardinality(workers) <= MaxSize
  BY <1>1, FieldsAre DEF Kept
<1>3. PoolTypeOK
  BY <1>1, <1>2, FieldsTyped DEF PoolTypeOK, Others
<1>4. \A w \in Workers :
          /\ w \in workers <=> w \in pending \/ w \in ToSet(idle) \/ inflight[w] # NoJob
          /\ w \in pending => w \notin ToSet(idle) /\ inflight[w] = NoJob
          /\ w \in ToSet(idle) => inflight[w] = NoJob
  BY <1>1, FieldsAre DEF Kept, Placed
<1>5. /\ ToSet(idle) \subseteq Workers /\ Cardinality(ToSet(idle)) = Len(idle)
      /\ queue \in Seq(Jobs)
  BY <1>2, FieldsTyped, ElementsOf, ElementsCounted
<1>6. workers \subseteq Workers /\ pending \subseteq Workers
  BY <1>2, FieldsTyped
<1>7. WorkersPartitioned
  BY <1>4, <1>5, <1>6 DEF WorkersPartitioned, Busy
<1>8. /\ Distinct(queue)
      /\ \A j \in Jobs : answer[j] = "waiting" <=>
             j \in ToSet(queue) \/ \E w \in Workers : inflight[w] = j
      /\ \A v, w \in Workers : inflight[v] # NoJob /\ inflight[v] = inflight[w] => v = w
      /\ \A w \in Workers : inflight[w] \notin ToSet(queue)
  BY <1>1, FieldsAre DEF Accounted
<1>9. ToSet(queue) \subseteq Jobs /\ Cardinality(ToSet(queue)) = Len(queue)
  BY <1>5, <1>8, ElementsOf, ElementsCounted
<1>10. \A w \in Busy : inflight[w] \in Jobs /\ w \in Workers
  BY <1>2, FieldsTyped DEF Busy
<1>11. \A w \in Workers : \A j \in Jobs : inflight[w] = j => w \in Busy
  BY PoolAssumption DEF Busy
<1>12. {j \in Jobs : answer[j] = "waiting"} = ToSet(queue) \cup {inflight[w] : w \in Busy}
  BY <1>8, <1>9, <1>10, <1>11
<1>13. JobsAccounted
  BY <1>8, <1>9, <1>12 DEF JobsAccounted, Busy
<1>14. NoneStranded
  BY <1>1, FieldsAre DEF NoneStranded, NoJobStranded, Unstranded
<1>15. QED
  BY <1>3, <1>7, <1>13, <1>14

\* What a handler has to leave.
LEMMA Ends ==
    ASSUME PoolInv, NEW p, Becomes(p), Kept(p, mail', {}), Accounted(p, {}), Unstranded(p),
           Others', waiting' => p.pending # {}
    PROVE  PoolInv'
<1>1. p \in Records
  BY DEF Kept
<1>2. p = [queue |-> p.queue, idle |-> p.idle, inflight |-> p.inflight,
           workers |-> p.workers, pending |-> p.pending, counts |-> p.counts,
           crashes |-> p.crashes, answer |-> p.answer, thread |-> p.thread]
  BY <1>1 DEF Records
<1>3. Fields' = p
  BY <1>2 DEF Fields, Becomes
<1>4. expired' \subseteq Jobs
  BY DEF PoolInv, Becomes
<1>5. WaiterHasReason'
  BY DEF WaiterHasReason, Becomes
<1>6. QED
  BY <1>3, <1>4, <1>5 DEF PoolInv

\* The pool begins in its invariant.
LEMMA InitInv ==
    ASSUME PoolInit
    PROVE  PoolInv
<1>1. PICK ws \in SUBSET Workers :
          /\ Cardinality(ws) <= 1
          /\ workers = ws /\ pending = ws
          /\ crashCount = 1 - Cardinality(ws)
          /\ thread = [w \in Workers |-> IF w \in ws THEN "loading" ELSE "gone"]
  BY DEF PoolInit
<1>2. /\ queue = <<>> /\ idle = <<>> /\ inflight = [w \in Workers |-> NoJob]
      /\ destroyed = FALSE /\ expired = {} /\ waiting = FALSE
      /\ mail = [w \in Workers |-> "none"] /\ recycles = 0
      /\ answer = [j \in Jobs |-> "none"]
      /\ parseCounts = [w \in Workers |-> 0]
  BY DEF PoolInit
<1>3. Cardinality(ws) \in Nat
  BY PoolAssumption, FS_Subset, FS_CardinalityType
<1>4. crashCount \in Nat
  BY <1>1, <1>3
<1>5. /\ <<>> \in Seq(Jobs) /\ <<>> \in Seq(Workers)
      /\ ToSet(<<>>) = {} /\ Distinct(<<>>)
  <2>1. <<>> \in Seq(Jobs) /\ <<>> \in Seq(Workers) /\ Len(<<>>) = 0
    BY EmptySeq
  <2>2. QED
    BY <2>1, ElementsOf DEF Distinct
<1>6. Fields \in Records
  BY <1>1, <1>2, <1>4, <1>5, FieldsTyped
<1>7. Cardinality(workers) <= MaxSize
  BY <1>1, <1>3, PoolAssumption
<1>8. ASSUME NEW w \in Workers
      PROVE  Placed(Fields, w) /\ Attached(Fields, mail, w)
  <2>1. /\ inflight[w] = NoJob /\ mail[w] = "none" /\ w \notin ToSet(idle)
        /\ thread[w] = IF w \in ws THEN "loading" ELSE "gone"
    BY <1>1, <1>2, <1>5
  <2>2. QED
    BY <1>1, <2>1, FieldsAre DEF Placed, Attached
<1>9. Kept(Fields, mail, {})
  BY <1>2, <1>5, <1>6, <1>7, <1>8, FieldsAre DEF Kept
<1>10. Accounted(Fields, {})
  <2>1. \A w \in Workers : inflight[w] = NoJob
    BY <1>2
  <2>2. \A j \in Jobs : answer[j] # "waiting" /\ j # NoJob
    BY <1>2, PoolAssumption
  <2>3. QED
    BY <1>2, <1>5, <2>1, <2>2, FieldsAre DEF Accounted
<1>11. Others
  <2>1. 0 \in 0..MaxRecycles
    BY PoolAssumption
  <2>2. QED
    BY <1>2, <2>1 DEF Others
<1>12. Unstranded(Fields) /\ WaiterHasReason
  BY <1>2, FieldsAre DEF Unstranded, WaiterHasReason
<1>13. QED
  BY <1>2, <1>9, <1>10, <1>11, <1>12 DEF PoolInv

-----------------------------------------------------------------------------
(* The steps.  Of each: the invariant holds again, and what was answered.   *)

\* Waiting calls were answered: those in won with a result, others with an error.
AnsweredFrom(a, b, won) ==
    \A j \in Jobs : \/ b[j] = a[j]
                    \/ a[j] = "waiting" /\ b[j] = "error"
                    \/ a[j] = "waiting" /\ b[j] = "result" /\ j \in won

\* A handler that ends with drain().
LEMMA DrainEnds ==
    ASSUME PoolInv, NEW p, NEW q \in Drain(p), Becomes(q),
           Kept(p, mail', {}), Accounted(p, {}), Cleared(mail'),
           Others', waiting' => p.pending # {}
    PROVE  /\ PoolInv' /\ AnsweredFrom(p.answer, answer', {})
           /\ \/ answer' = p.answer
              \/ /\ p.workers = {}
                 /\ \A j \in Jobs :
                       answer'[j] = IF j \in ToSet(p.queue) /\ p.answer[j] = "waiting"
                                    THEN "error" ELSE p.answer[j]
<1>1. /\ Kept(q, mail', {}) /\ Accounted(q, {}) /\ Unstranded(q)
      /\ p.pending \subseteq q.pending
      /\ \/ q.answer = p.answer
         \/ /\ p.workers = {}
            /\ \A j \in Jobs :
                  q.answer[j] = IF j \in ToSet(p.queue) /\ p.answer[j] = "waiting"
                                THEN "error" ELSE p.answer[j]
  BY Drains
<1>2. waiting' => q.pending # {}
  BY <1>1
<1>3. PoolInv'
  BY <1>1, <1>2, Ends
<1>4. answer' = q.answer
  BY DEF Becomes
<1>5. QED
  BY <1>1, <1>3, <1>4 DEF AnsweredFrom

\* A message is delivered.
LEMMA Delivered ==
    ASSUME Others, NEW w \in Workers, mail' = [mail EXCEPT ![w] = "none"]
    PROVE  /\ mail' \in [Workers -> {"none", "loaded"} \cup Jobs] /\ Cleared(mail')
           /\ mail'[w] = "none" /\ \A v \in Workers \ {w} : mail'[v] = mail[v]
BY DEF Others, Cleared

\* Without a waiting call the queue is empty and no worker is on a job.
LEMMA NothingAsked ==
    ASSUME PoolInv, NoneWaiting
    PROVE  queue = <<>> /\ \A w \in Workers : inflight[w] = NoJob
<1>1. /\ \A j \in Jobs : j \notin ToSet(queue) /\ \A w \in Workers : inflight[w] # j
      /\ Fields \in Records
  BY FieldsAre DEF PoolInv, Kept, Accounted, NoneWaiting
<1>2. queue \in Seq(Jobs) /\ inflight \in [Workers -> Jobs \cup {NoJob}]
  BY <1>1, FieldsTyped
<1>3. Len(queue) \in Nat /\ \A i \in 1..Len(queue) : queue[i] \in Jobs /\ queue[i] \in ToSet(queue)
  BY <1>2, ElementsOf, LenProperties
<1>4. Len(queue) = 0
  BY <1>1, <1>3
<1>5. QED
  BY <1>1, <1>2, <1>4, EmptySeq

\* prewarm keeps the invariant and answers nobody.
LEMMA PrewarmStep ==
    ASSUME PoolInv, Prewarm
    PROVE  PoolInv' /\ UNCHANGED <<answer, destroyed>>
<1>1. PICK n \in 0..MaxSize, t \in 0..1 :
          LET p == Spawned(Fields, n, t)
          IN  /\ NoneAsked
              /\ Cardinality(p.workers) = Cardinality(workers) + n
              /\ Cardinality(p.workers) <= MaxSize
              /\ Becomes(p)
              /\ UNCHANGED <<destroyed, waiting, mail, recycles>>
  BY DEF Prewarm
<1> DEFINE p == Spawned(Fields, n, t)
<1>2. /\ n \in Nat /\ t \in Nat /\ Cardinality(Fields.workers) + n <= MaxSize
      /\ Kept(Fields, mail', {}) /\ Cleared(mail') /\ Others'
  BY <1>1, PoolAssumption, FieldsAre DEF PoolInv, Cleared, Others
<1>3. Kept(p, mail', {}) /\ Grown(Fields, p)
  BY <1>2, Spawns
<1>4. Becomes(p) /\ NoneAsked /\ UNCHANGED <<destroyed, waiting>>
  BY <1>1
<1> HIDE DEF p
<1>5. Accounted(p, {})
  BY <1>3, GrownAccounts DEF PoolInv
<1>6. queue = <<>>
  BY <1>4, NothingAsked DEF NoneAsked, NoneWaiting
<1>7. Unstranded(p)
  BY <1>3, <1>6, FieldsAre DEF Grown, Unstranded
<1>8. waiting' => p.pending # {}
  BY <1>3, <1>4, FieldsAre DEF PoolInv, WaiterHasReason, Grown
<1>9. PoolInv'
  BY <1>2, <1>3, <1>4, <1>5, <1>7, <1>8, Ends
<1>10. answer' = answer
  BY <1>3, <1>4, FieldsAre DEF Becomes, Grown
<1>11. QED
  BY <1>4, <1>9, <1>10

\* waitUntilReady keeps the invariant and answers nobody.
LEMMA WaitStep ==
    ASSUME PoolInv, WaitUntilReady
    PROVE  PoolInv' /\ UNCHANGED <<answer, destroyed>>
<1>1. /\ pending # {} /\ waiting' = TRUE
      /\ UNCHANGED <<queue, idle, inflight, workers, pending, parseCounts, crashCount,
                     destroyed, expired, answer, thread, mail, recycles>>
  BY DEF WaitUntilReady
<1>2. Fields' = Fields
  BY <1>1 DEF Fields
<1>3. Others' /\ WaiterHasReason'
  BY <1>1 DEF PoolInv, Others, WaiterHasReason
<1>4. QED
  BY <1>1, <1>2, <1>3 DEF PoolInv

\* The first timeout of a job keeps the invariant and answers nobody.
LEMMA SoftTimeoutStep ==
    ASSUME PoolInv, NEW w \in Workers, SoftTimeout(w)
    PROVE  PoolInv' /\ UNCHANGED <<answer, destroyed>>
<1>1. /\ inflight[w] # NoJob /\ expired' = expired \cup {inflight[w]}
      /\ UNCHANGED <<queue, idle, inflight, workers, pending, parseCounts, crashCount,
                     destroyed, waiting, answer, thread, mail, recycles>>
  BY DEF SoftTimeout, Busy
<1>2. Fields' = Fields
  BY <1>1 DEF Fields
<1>3. Others' /\ WaiterHasReason'
  BY <1>1 DEF PoolInv, Others, WaiterHasReason
<1>4. inflight \in [Workers -> Jobs \cup {NoJob}]
  BY FieldsTyped DEF PoolInv, Kept
<1>5. expired' \subseteq Jobs
  BY <1>1, <1>4 DEF PoolInv
<1>6. QED
  BY <1>1, <1>2, <1>3, <1>5 DEF PoolInv

\* A call: it waits, or is refused at once, and no other is answered.
LEMMA RequestStep ==
    ASSUME PoolInv, NEW j \in Jobs, RequestParse(j)
    PROVE  /\ PoolInv' /\ destroyed' = destroyed /\ answer[j] = "none"
           /\ \E a \in {"waiting", "error"} :
                 (destroyed => a = "error") /\ answer' = [answer EXCEPT ![j] = a]
<1>1. /\ answer[j] = "none" /\ UNCHANGED <<destroyed, waiting, mail, recycles>>
  BY DEF RequestParse
<1>2. Kept(Fields, mail', {}) /\ Cleared(mail') /\ Others' /\ Fields \in Records
  BY <1>1 DEF PoolInv, Cleared, Others, Kept
<1>3. waiting' => pending # {}
  BY <1>1 DEF PoolInv, WaiterHasReason
<1>4. /\ Accounted(Fields, {}) /\ Unstranded(Fields)
      /\ answer \in [Jobs -> {"none", "waiting", "result", "error"}]
  BY <1>2, FieldsTyped DEF PoolInv
<1>5. CASE destroyed
  <2> DEFINE b == [answer EXCEPT ![j] = "error"]
             p == [Fields EXCEPT !.answer = b]
  <2>1. Becomes(p)
    <3>1. Becomes([Fields EXCEPT !.answer[j] = "error"])
      BY <1>5 DEF RequestParse
    <3>2. p = [Fields EXCEPT !.answer[j] = "error"]
      BY FieldsAre
    <3>3. QED
      BY <3>1, <3>2
  <2>2. b \in [Jobs -> {"none", "waiting", "result", "error"}]
    BY <1>4
  <2>3. \A i \in Jobs : b[i] = "waiting" <=> answer[i] = "waiting"
    BY <1>1, <1>4
  <2> HIDE DEF b
  <2>4. /\ p \in Records /\ p.answer = b
        /\ p.queue = queue /\ p.idle = idle /\ p.inflight = inflight
        /\ p.workers = workers /\ p.pending = pending /\ p.thread = thread
    BY <1>2, <2>2, FieldsAre DEF Records
  <2> HIDE DEF p
  <2>5. \A w \in Workers : Placed(Fields, w) /\ Attached(Fields, mail', w)
                             => Placed(p, w) /\ Attached(p, mail', w)
    BY <2>4, FieldsAre DEF Placed, Attached
  <2>6. Kept(p, mail', {})
    BY <1>2, <2>4, <2>5, FieldsAre DEF Kept
  <2>7. Accounted(p, {})
    BY <1>4, <2>3, <2>4, FieldsAre DEF Accounted
  <2>8. Unstranded(p)
    BY <1>4, <2>4, FieldsAre DEF Unstranded
  <2>9. PoolInv'
    BY <1>2, <1>3, <2>1, <2>4, <2>6, <2>7, <2>8, Ends
  <2>10. answer' = [answer EXCEPT ![j] = "error"]
    BY <2>1, <2>4 DEF Becomes, b
  <2>11. QED
    BY <1>1, <2>9, <2>10
<1>6. CASE ~destroyed
  <2> DEFINE b == [answer EXCEPT ![j] = "waiting"]
             u == Append(queue, j)
             p == [Fields EXCEPT !.answer = b, !.queue = u]
  <2>1. PICK q \in Drain(p) : Becomes(q)
    <3>1. \E q \in Drain([Fields EXCEPT !.answer[j] = "waiting", !.queue = Append(@, j)]) :
              Becomes(q)
      BY <1>6 DEF RequestParse
    <3>2. p = [Fields EXCEPT !.answer[j] = "waiting", !.queue = Append(@, j)]
      BY FieldsAre
    <3>3. QED
      BY <3>1, <3>2
  <2>2. b \in [Jobs -> {"none", "waiting", "result", "error"}]
    BY <1>4
  <2>3. \A i \in Jobs : b[i] = IF i = j THEN "waiting" ELSE answer[i]
    BY <1>4
  <2>4. queue \in Seq(Jobs) /\ j \notin ToSet(queue) /\ \A w \in Workers : inflight[w] # j
    BY <1>1, <1>2, <1>4, FieldsAre, FieldsTyped DEF Accounted
  <2>5. u \in Seq(Jobs) /\ ToSet(u) = ToSet(queue) \cup {j} /\ Distinct(u)
    BY <1>4, <2>4, ElementsOfAppend, FieldsAre DEF Accounted
  <2> HIDE DEF b, u
  <2>6. /\ p \in Records /\ p.answer = b /\ p.queue = u
        /\ p.idle = idle /\ p.inflight = inflight
        /\ p.workers = workers /\ p.pending = pending /\ p.thread = thread
    BY <1>2, <2>2, <2>5, FieldsAre DEF Records
  <2> HIDE DEF p
  <2>7. \A w \in Workers : Placed(Fields, w) /\ Attached(Fields, mail', w)
                             => Placed(p, w) /\ Attached(p, mail', w)
    BY <2>6, FieldsAre DEF Placed, Attached
  <2>8. Kept(p, mail', {})
    BY <1>2, <2>6, <2>7, FieldsAre DEF Kept
  <2>9. Accounted(p, {})
    <3>1. /\ \A i \in Jobs : answer[i] = "waiting" <=>
                i \in ToSet(queue) \/ \E w \in Workers : inflight[w] = i
          /\ \A v, w \in Workers : inflight[v] # NoJob /\ inflight[v] = inflight[w] => v = w
          /\ \A w \in Workers : inflight[w] \notin ToSet(queue)
      BY <1>4, FieldsAre DEF Accounted
    <3>2. QED
      BY <2>3, <2>4, <2>5, <2>6, <3>1 DEF Accounted
  <2>10. waiting' => p.pending # {}
    BY <1>3, <2>6
  <2>11. /\ PoolInv'
         /\ \/ answer' = p.answer
            \/ /\ p.workers = {}
               /\ \A i \in Jobs :
                     answer'[i] = IF i \in ToSet(p.queue) /\ p.answer[i] = "waiting"
                                  THEN "error" ELSE p.answer[i]
    BY <1>2, <2>1, <2>8, <2>9, <2>10, DrainEnds
  <2>12. CASE answer' = p.answer
    BY <1>1, <1>6, <2>6, <2>11, <2>12 DEF b
  <2>13. CASE /\ p.workers = {}
              /\ \A i \in Jobs :
                    answer'[i] = IF i \in ToSet(p.queue) /\ p.answer[i] = "waiting"
                                 THEN "error" ELSE p.answer[i]
    <3>1. queue = <<>> /\ ToSet(queue) = {}
      <4>1. queue = <<>>
        BY <1>4, <2>6, <2>13, FieldsAre DEF Unstranded
      <4>2. QED
        BY <2>4, <4>1, ElementsOf
    <3>2. \A i \in Jobs : answer'[i] = IF i = j THEN "error" ELSE answer[i]
      BY <2>3, <2>5, <2>6, <2>13, <3>1
    <3>3. answer' \in [Jobs -> {"none", "waiting", "result", "error"}]
      <4>1. Fields' \in Records
        BY <2>11 DEF PoolInv, Kept
      <4>2. QED
        BY <4>1 DEF Fields, Records
    <3>4. answer' = [answer EXCEPT ![j] = "error"]
      BY <1>4, <3>2, <3>3
    <3>5. QED
      BY <1>1, <2>11, <3>4
  <2>14. QED
    BY <2>11, <2>12, <2>13
<1>7. QED
  BY <1>5, <1>6

\* Every idle worker is given up, and no more new ones come than there were.
LEMMA RecycleAllStep ==
    ASSUME PoolInv, RecycleAll
    PROVE  PoolInv' /\ UNCHANGED <<answer, destroyed>>
<1> DEFINE ids == ToSet(idle)
           r == Terminated(Fields, ids)
           a == r.workers \ ids
           c == [w \in Workers |-> IF w \in ids THEN 0 ELSE r.counts[w]]
           recycled == [r EXCEPT !.workers = a, !.idle = <<>>, !.counts = c]
<1>1. /\ NoneWaiting /\ recycles < MaxRecycles /\ recycles' = recycles + 1
      /\ UNCHANGED <<destroyed, waiting, mail>>
  BY DEF RecycleAll
<1>2. PICK n \in 0..Len(idle), t \in 0..Len(idle) : Becomes(Spawned(recycled, n, t))
  BY DEF RecycleAll
<1>3. /\ Fields \in Records /\ Kept(Fields, mail', {}) /\ Cleared(mail')
      /\ Accounted(Fields, {}) /\ Cardinality(workers) <= MaxSize
  BY <1>1, FieldsAre DEF PoolInv, Cleared, Kept
<1>4. /\ idle \in Seq(Workers) /\ Distinct(idle)
      /\ IsFiniteSet(ids) /\ Cardinality(ids) = Len(idle) /\ ids \subseteq Workers
      /\ workers \subseteq Workers
  BY <1>3, FieldsTyped, FieldsAre, ElementsOf, ElementsCounted DEF Kept
<1>5. queue = <<>> /\ \A w \in Workers : inflight[w] = NoJob
  BY <1>1, NothingAsked
<1> HIDE DEF ids
<1>6. /\ r \in Records
      /\ r.queue = queue /\ r.idle = idle /\ r.inflight = inflight
      /\ r.workers = workers /\ r.pending = pending /\ r.answer = answer
      /\ \A w \in Workers : r.thread[w] = IF w \in ids /\ thread[w] # "gone"
                                        THEN "exiting" ELSE thread[w]
  BY <1>3, Terminates, FieldsAre
<1> HIDE DEF r
<1>7. /\ a \subseteq Workers /\ a = workers \ ids
      /\ c \in [Workers -> Nat]
  <2>1. a \subseteq Workers /\ a = workers \ ids
    BY <1>4, <1>6
  <2>2. c \in [Workers -> Nat]
    BY <1>6 DEF Records
  <2>3. QED
    BY <2>1, <2>2
<1>8. <<>> \in Seq(Workers) /\ ToSet(<<>>) = {} /\ Distinct(<<>>)
  <2>1. <<>> \in Seq(Workers) /\ Len(<<>>) = 0
    BY EmptySeq
  <2>2. QED
    BY <2>1, ElementsOf DEF Distinct
<1> HIDE DEF a, c
<1>9. /\ recycled \in Records /\ recycled.workers = a /\ recycled.idle = <<>>
      /\ recycled.queue = queue /\ recycled.inflight = inflight
      /\ recycled.pending = pending /\ recycled.answer = answer /\ recycled.thread = r.thread
  BY <1>6, <1>7, <1>8 DEF Records
<1> HIDE DEF recycled
<1>10. ids \subseteq workers /\ ids \cap pending = {}
  BY <1>3, <1>4, FieldsAre DEF Kept, Placed, ids
<1>11. /\ Cardinality(a) \in Nat
       /\ Cardinality(a) + Len(idle) <= MaxSize
  <2>1. IsFiniteSet(workers) /\ Cardinality(workers) \in Nat
    BY <1>4, PoolAssumption, FS_Subset, FS_CardinalityType
  <2>2. IsFiniteSet(a) /\ Cardinality(a) \in Nat
    BY <1>7, <2>1, FS_Subset, FS_CardinalityType
  <2>3. workers = a \cup ids /\ a \cap ids = {}
    BY <1>7, <1>10
  <2>4. Cardinality(workers) = Cardinality(a) + Cardinality(ids)
    <3>1. Cardinality(a \cup ids) = Cardinality(a) + Cardinality(ids) - Cardinality(a \cap ids)
      BY <1>4, <2>2, FS_Union
    <3>2. Cardinality(a \cap ids) = 0 /\ Cardinality(ids) \in Nat
      BY <1>4, <2>3, FS_EmptySet, FS_CardinalityType
    <3>3. QED
      BY <2>2, <2>3, <3>1, <3>2
  <2>5. QED
    BY <1>3, <1>4, <2>2, <2>4
<1>12. Kept(recycled, mail', {})
  <2>1. ASSUME NEW w \in Workers PROVE Placed(recycled, w) /\ Attached(recycled, mail', w)
    <3>1. Placed(Fields, w) /\ Attached(Fields, mail', w)
      BY <1>3 DEF Kept
    <3>2. CASE w \in ids
      <4>1. /\ w \notin a /\ w \notin pending /\ recycled.inflight[w] = NoJob
            /\ recycled.thread[w] \in {"gone", "exiting"}
        BY <1>5, <1>6, <1>7, <1>9, <1>10, <3>2
      <4>2. QED
        BY <1>8, <1>9, <4>1 DEF Placed, Attached
    <3>3. CASE w \notin ids
      <4>1. /\ w \in a <=> w \in workers
            /\ recycled.thread[w] = thread[w]
        BY <1>6, <1>7, <1>9, <3>3
      <4>2. w \notin ToSet(Fields.idle)
        BY <3>3, FieldsAre DEF ids
      <4>3. QED
        BY <1>8, <1>9, <3>1, <4>1, <4>2, FieldsAre DEF Placed, Attached
    <3>4. QED
      BY <3>2, <3>3
  <2>2. Cardinality(recycled.workers) <= MaxSize
    BY <1>4, <1>9, <1>11, LenProperties, PoolAssumption
  <2>3. QED
    BY <1>8, <1>9, <2>1, <2>2 DEF Kept
<1> DEFINE p == Spawned(recycled, n, t)
<1>13. Kept(p, mail', {}) /\ Grown(recycled, p)
  <2>1. Len(idle) \in Nat
    BY <1>4, LenProperties
  <2>2. n \in Nat /\ t \in Nat /\ Cardinality(recycled.workers) + n <= MaxSize
    BY <1>9, <1>11, <2>1, PoolAssumption
  <2>3. QED
    BY <1>3, <1>12, <2>2, Spawns
<1>14. Becomes(p)
  BY <1>2
<1> HIDE DEF p
<1>15. Accounted(p, {})
  BY <1>3, <1>9, <1>13, FieldsAre DEF Accounted, Grown
<1>16. Unstranded(p)
  BY <1>5, <1>9, <1>13 DEF Grown, Unstranded
<1>17. waiting' => p.pending # {}
  BY <1>1, <1>9, <1>13 DEF PoolInv, WaiterHasReason, Grown
<1>18. Others'
  <2>1. recycles' \in 0..MaxRecycles
    BY <1>1, PoolAssumption DEF PoolInv, Others
  <2>2. QED
    BY <1>1, <2>1 DEF PoolInv, Others
<1>19. PoolInv'
  BY <1>13, <1>14, <1>15, <1>16, <1>17, <1>18, Ends
<1>20. answer' = answer
  BY <1>9, <1>13, <1>14 DEF Becomes, Grown
<1>21. QED
  BY <1>1, <1>19, <1>20

\* destroy() leaves no call unsettled and no worker.
LEMMA DestroyStep ==
    ASSUME PoolInv, Destroy
    PROVE  /\ PoolInv' /\ destroyed' = TRUE /\ ~destroyed
           /\ answer' = [j \in Jobs |-> IF answer[j] = "waiting" THEN "error" ELSE answer[j]]
<1> DEFINE js == ToSet(queue) \cup {inflight[w] : w \in Busy}
           s == Settle(Fields, js, "error")
           p == [s EXCEPT !.queue = <<>>, !.idle = <<>>, !.workers = {}, !.pending = {},
                          !.inflight = [w \in Workers |-> NoJob],
                          !.counts = [w \in Workers |-> 0],
                          !.thread = [w \in Workers |-> "gone"]]
<1>1. /\ ~destroyed /\ destroyed' = TRUE /\ waiting' = FALSE
      /\ mail' = [w \in Workers |-> "none"] /\ recycles' = recycles
      /\ Becomes(p)
  BY DEF Destroy
<1>2. Fields \in Records /\ Accounted(Fields, {})
  BY DEF PoolInv, Kept
<1> HIDE DEF js
<1>3. /\ s \in Records
      /\ \A j \in Jobs : s.answer[j] = IF j \in js /\ answer[j] = "waiting"
                                     THEN "error" ELSE answer[j]
  BY <1>2, Settles, FieldsAre
<1> HIDE DEF s
<1>4. /\ <<>> \in Seq(Jobs) /\ <<>> \in Seq(Workers)
      /\ ToSet(<<>>) = {} /\ Distinct(<<>>)
  <2>1. <<>> \in Seq(Jobs) /\ <<>> \in Seq(Workers) /\ Len(<<>>) = 0
    BY EmptySeq
  <2>2. QED
    BY <2>1, ElementsOf DEF Distinct
<1>5. /\ p \in Records /\ p.queue = <<>> /\ p.idle = <<>> /\ p.workers = {}
      /\ p.pending = {} /\ p.answer = s.answer
      /\ p.inflight = [w \in Workers |-> NoJob]
      /\ p.thread = [w \in Workers |-> "gone"]
  BY <1>3, <1>4 DEF Records
<1> HIDE DEF p
<1>6. \A j \in Jobs : answer[j] = "waiting" => j \in js
  <2>1. \A j \in Jobs : answer[j] = "waiting" =>
            j \in ToSet(queue) \/ \E w \in Workers : inflight[w] = j
    BY <1>2, FieldsAre DEF Accounted
  <2>2. \A j \in Jobs : \A w \in Workers : inflight[w] = j => w \in Busy
    BY PoolAssumption DEF Busy
  <2>3. QED
    BY <2>1, <2>2 DEF js
<1>7. \A j \in Jobs : s.answer[j] = IF answer[j] = "waiting" THEN "error" ELSE answer[j]
  BY <1>3, <1>6
<1>8. Kept(p, mail', {})
  <2>1. ASSUME NEW w \in Workers PROVE Placed(p, w) /\ Attached(p, mail', w)
    <3>1. /\ p.inflight[w] = NoJob /\ p.thread[w] = "gone" /\ mail'[w] = "none"
          /\ w \notin ToSet(p.idle) /\ w \notin p.workers /\ w \notin p.pending
      BY <1>1, <1>4, <1>5
    <3>2. QED
      BY <3>1 DEF Placed, Attached
  <2>2. Cardinality(p.workers) <= MaxSize
    BY <1>5, FS_EmptySet, PoolAssumption
  <2>3. QED
    BY <1>4, <1>5, <2>1, <2>2 DEF Kept
<1>9. Accounted(p, {})
  <2>1. \A w \in Workers : p.inflight[w] = NoJob
    BY <1>5
  <2>2. \A j \in Jobs : p.answer[j] # "waiting" /\ j # NoJob
    BY <1>5, <1>7, PoolAssumption
  <2>3. QED
    BY <1>4, <1>5, <2>1, <2>2 DEF Accounted
<1>10. Unstranded(p)
  BY <1>5 DEF Unstranded
<1>11. Others'
  BY <1>1 DEF PoolInv, Others
<1>12. PoolInv'
  BY <1>1, <1>8, <1>9, <1>10, <1>11, Ends
<1>13. answer' = s.answer /\ s.answer \in [Jobs -> {"none", "waiting", "result", "error"}]
  BY <1>1, <1>3, <1>5 DEF Becomes, Records
<1>14. answer' = [j \in Jobs |-> IF answer[j] = "waiting" THEN "error" ELSE answer[j]]
  BY <1>7, <1>13
<1>15. QED
  BY <1>1, <1>12, <1>14

\* A step of a thread touches nothing of the pool but that thread.
LEMMA ThreadSteps ==
    ASSUME PoolInv, NEW w \in Workers, NEW s, UNCHANGED ThreadVars,
           thread' = [thread EXCEPT ![w] = s],
           mail' \in [Workers -> {"none", "loaded"} \cup Jobs],
           \A v \in Workers \ {w} : mail'[v] = mail[v],
           s \in {"free", "dying"}, thread[w] # "gone",
           mail'[w] # mail[w] => /\ w \notin ToSet(idle)
                                 /\ mail'[w] = "loaded" /\ w \in workers => w \in pending
    PROVE  PoolInv' /\ UNCHANGED <<answer, destroyed>>
<1>1. /\ queue' = queue /\ idle' = idle /\ inflight' = inflight
      /\ workers' = workers /\ pending' = pending
      /\ parseCounts' = parseCounts /\ crashCount' = crashCount
      /\ destroyed' = destroyed /\ expired' = expired
      /\ waiting' = waiting /\ answer' = answer /\ recycles' = recycles
  BY DEF ThreadVars
<1>2. Fields \in Records /\ Kept(Fields, mail, {})
  BY DEF PoolInv, Kept
<1>3. thread \in [Workers -> {"gone", "loading", "free", "busy", "dying", "exiting"}]
  BY <1>2, FieldsTyped
<1>4. thread' \in [Workers -> {"gone", "loading", "free", "busy", "dying", "exiting"}]
  BY <1>3
<1> DEFINE p == Fields'
<1>5. /\ p.queue = queue /\ p.idle = idle /\ p.inflight = inflight
      /\ p.workers = workers /\ p.pending = pending /\ p.answer = answer
      /\ p.thread = thread'
  BY <1>1 DEF Fields
<1>6. p \in Records
  BY <1>1, <1>2, <1>4 DEF Fields, Records
<1> HIDE DEF p
<1>7. ASSUME NEW v \in Workers PROVE Placed(p, v) /\ Attached(p, mail', v)
  <2>1. Placed(Fields, v) /\ Attached(Fields, mail, v)
    BY <1>2 DEF Kept
  <2>2. Placed(p, v)
    BY <1>5, <2>1, FieldsAre DEF Placed
  <2>3. /\ v \in workers => thread[v] # "gone"
        /\ thread[v] = "loading" /\ v \in workers => v \in pending
        /\ thread[v] = "busy" => inflight[v] # NoJob
        /\ mail[v] # "none" => thread[v] \notin {"loading", "busy"}
        /\ v \in ToSet(idle) => mail[v] = "none"
        /\ mail[v] = "loaded" /\ v \in workers => v \in pending
    BY <2>1, FieldsAre DEF Attached
  <2>4. CASE v = w
    <3>1. p.thread[v] \in {"free", "dying"}
      BY <1>3, <1>5, <2>4
    <3>2. v \in ToSet(idle) => mail'[v] = "none"
      BY <2>3, <2>4
    <3>3. mail'[v] = "loaded" /\ v \in workers => v \in pending
      BY <2>3, <2>4
    <3>4. QED
      BY <1>5, <2>2, <3>1, <3>2, <3>3 DEF Attached
  <2>5. CASE v # w
    <3>1. p.thread[v] = thread[v] /\ mail'[v] = mail[v]
      BY <1>3, <1>5, <2>5
    <3>2. QED
      BY <1>5, <2>2, <2>3, <3>1 DEF Attached
  <2>6. QED
    BY <2>2, <2>4, <2>5
<1>8. Kept(p, mail', {})
  BY <1>2, <1>5, <1>6, <1>7, FieldsAre DEF Kept
<1>9. Accounted(p, {}) /\ Unstranded(p)
  BY <1>5, FieldsAre DEF PoolInv, Accounted, Unstranded
<1>10. Others' /\ WaiterHasReason' /\ expired' \subseteq Jobs
  BY <1>1 DEF PoolInv, Others, WaiterHasReason
<1>11. PoolInv'
  BY <1>8, <1>9, <1>10 DEF PoolInv, p
<1>12. QED
  BY <1>1, <1>11

\* What a thread does by itself keeps the invariant and answers nobody.
LEMMA ThreadStep ==
    ASSUME PoolInv, NEW w \in Workers, Thread(w)
    PROVE  PoolInv' /\ UNCHANGED <<answer, destroyed>>
<1>1. /\ Attached(Fields, mail, w) /\ Placed(Fields, w)
      /\ mail \in [Workers -> {"none", "loaded"} \cup Jobs]
      /\ inflight \in [Workers -> Jobs \cup {NoJob}]
  BY FieldsTyped DEF PoolInv, Kept, Others
<1>2. /\ thread[w] = "loading" /\ w \in workers => w \in pending
      /\ thread[w] = "busy" => inflight[w] # NoJob
      /\ w \in pending => w \notin ToSet(idle)
      /\ inflight[w] # NoJob => w \notin ToSet(idle)
      /\ w \in ToSet(idle) => w \in workers
  BY <1>1, FieldsAre DEF Placed, Attached
<1>3. CASE ThreadLoads(w)
  <2>1. /\ thread[w] = "loading" /\ thread' = [thread EXCEPT ![w] = "free"]
        /\ mail' = [mail EXCEPT ![w] = "loaded"] /\ UNCHANGED ThreadVars
    BY <1>3 DEF ThreadLoads
  <2>2. mail' \in [Workers -> {"none", "loaded"} \cup Jobs]
    BY <1>1, <2>1
  <2>3. \A v \in Workers \ {w} : mail'[v] = mail[v]
    BY <1>1, <2>1
  <2>4. w \notin ToSet(idle) /\ (w \in workers => w \in pending)
    BY <1>2, <2>1
  <2>5. QED
    BY <2>1, <2>2, <2>3, <2>4, ThreadSteps
<1>4. CASE ThreadParses(w)
  <2>1. /\ thread[w] = "busy" /\ thread' = [thread EXCEPT ![w] = "free"]
        /\ mail' = [mail EXCEPT ![w] = inflight[w]] /\ UNCHANGED ThreadVars
    BY <1>4 DEF ThreadParses
  <2>2. inflight[w] \in Jobs /\ w \notin ToSet(idle)
    BY <1>1, <1>2, <2>1
  <2>3. mail' \in [Workers -> {"none", "loaded"} \cup Jobs] /\ mail'[w] = inflight[w]
    BY <1>1, <2>1, <2>2
  <2>4. \A v \in Workers \ {w} : mail'[v] = mail[v]
    BY <1>1, <2>1
  <2>5. mail'[w] # "loaded"
    BY <2>2, <2>3, PoolAssumption
  <2>6. QED
    BY <2>1, <2>2, <2>3, <2>4, <2>5, ThreadSteps
<1>5. CASE ThreadDies(w)
  <2>1. /\ thread[w] \in {"loading", "free", "busy"}
        /\ thread' = [thread EXCEPT ![w] = "dying"]
        /\ mail' = mail /\ UNCHANGED ThreadVars
    BY <1>5 DEF ThreadDies
  <2>2. QED
    BY <1>1, <2>1, ThreadSteps
<1>6. QED
  BY <1>3, <1>4, <1>5 DEF Thread

\* The grammars of a worker are loaded.
LEMMA GrammarsLoadedStep ==
    ASSUME PoolInv, NEW w \in Workers, GrammarsLoaded(w)
    PROVE  PoolInv' /\ AnsweredFrom(answer, answer', {}) /\ destroyed' = destroyed
<1>1. /\ mail[w] = "loaded" /\ mail' = [mail EXCEPT ![w] = "none"]
      /\ UNCHANGED <<destroyed, recycles>>
  BY DEF GrammarsLoaded
<1>2. /\ mail' \in [Workers -> {"none", "loaded"} \cup Jobs] /\ Cleared(mail')
      /\ mail'[w] = "none" /\ \A v \in Workers \ {w} : mail'[v] = mail[v]
  BY <1>1, Delivered DEF PoolInv
<1>3. /\ Fields \in Records /\ Kept(Fields, mail, {}) /\ Accounted(Fields, {})
      /\ Unstranded(Fields) /\ Distinct(idle) /\ waiting \in BOOLEAN
      /\ waiting => pending # {}
  BY FieldsAre DEF PoolInv, Kept, Others, WaiterHasReason
<1>4. \A v \in Workers : Placed(Fields, v) /\ Attached(Fields, mail, v)
  BY <1>3 DEF Kept
<1>5. CASE w \in workers
  <2> DEFINE b == pending \ {w}
             u == Append(idle, w)
             p == [Fields EXCEPT !.pending = b, !.idle = u]
  <2>1. /\ waiting' = (waiting /\ p.pending # {})
        /\ \E q \in Drain(p) : Becomes(q)
    <3>1. p = [Fields EXCEPT !.pending = @ \ {w}, !.idle = Append(@, w)]
      BY FieldsAre
    <3>2. QED
      BY <1>5, <3>1 DEF GrammarsLoaded, ReadyWaiters
  <2>2. w \in pending /\ w \notin ToSet(idle) /\ inflight[w] = NoJob
    BY <1>1, <1>4, <1>5, FieldsAre DEF Placed, Attached
  <2>3. /\ u \in Seq(Workers) /\ ToSet(u) = ToSet(idle) \cup {w} /\ Distinct(u)
        /\ b \subseteq Workers
    BY <1>3, <2>2, ElementsOfAppend, FieldsTyped
  <2>4. \A v \in Workers : v \in b <=> v \in pending /\ v # w
    OBVIOUS
  <2> HIDE DEF b, u
  <2>5. /\ p \in Records /\ p.idle = u /\ p.pending = b
        /\ p.queue = queue /\ p.inflight = inflight /\ p.workers = workers
        /\ p.answer = answer /\ p.thread = thread
    BY <1>3, <2>3, FieldsAre DEF Records
  <2> HIDE DEF p
  <2>6. ASSUME NEW v \in Workers PROVE Placed(p, v) /\ Attached(p, mail', v)
    <3>1. Placed(Fields, v) /\ Attached(Fields, mail, v)
      BY <1>4
    <3>2. CASE v = w
      <4>1. /\ v \in p.workers /\ v \notin p.pending /\ v \in ToSet(p.idle)
            /\ p.inflight[v] = NoJob /\ mail'[v] = "none"
        BY <1>2, <1>5, <2>2, <2>3, <2>4, <2>5, <3>2
      <4>2. p.thread[v] \notin {"gone", "loading", "busy"}
        BY <1>1, <1>5, <2>2, <2>5, <3>1, <3>2, FieldsAre DEF Attached
      <4>3. QED
        BY <4>1, <4>2 DEF Placed, Attached
    <3>3. CASE v # w
      <4>1. /\ v \in p.pending <=> v \in pending
            /\ v \in ToSet(p.idle) <=> v \in ToSet(idle)
            /\ mail'[v] = mail[v]
        BY <1>2, <2>3, <2>4, <2>5, <3>3
      <4>2. QED
        BY <2>5, <3>1, <4>1, FieldsAre DEF Placed, Attached
    <3>4. QED
      BY <3>2, <3>3
  <2>7. Kept(p, mail', {})
    BY <1>3, <2>3, <2>5, <2>6, FieldsAre DEF Kept
  <2>8. Accounted(p, {})
    BY <1>3, <2>5, FieldsAre DEF Accounted
  <2>9. Others' /\ (waiting' => p.pending # {})
    BY <1>1, <1>2, <1>3, <2>1 DEF PoolInv, Others
  <2>10. PoolInv' /\ AnsweredFrom(p.answer, answer', {})
    BY <1>2, <2>1, <2>7, <2>8, <2>9, DrainEnds
  <2>11. QED
    BY <1>1, <2>5, <2>10
<1>6. CASE w \notin workers
  <2>1. Becomes(Fields) /\ waiting' = waiting
    BY <1>6 DEF GrammarsLoaded
  <2>2. ASSUME NEW v \in Workers PROVE Attached(Fields, mail', v)
    BY <1>2, <1>4, <1>6 DEF Attached
  <2>3. Kept(Fields, mail', {})
    BY <1>3, <1>4, <2>2 DEF Kept
  <2>4. Others' /\ (waiting' => Fields.pending # {})
    BY <1>1, <1>2, <1>3, <2>1, FieldsAre DEF PoolInv, Others
  <2>5. PoolInv'
    BY <1>3, <2>1, <2>3, <2>4, Ends
  <2>6. answer' = answer
    BY <2>1, FieldsAre DEF Becomes
  <2>7. QED
    BY <1>1, <2>5, <2>6 DEF AnsweredFrom
<1>7. QED
  BY <1>5, <1>6

\* A worker is given up for a new one: the pool has the same calls as before, but
\* for the job of that worker.
LEMMA Replaces ==
    ASSUME NEW p, NEW m, NEW w \in Workers, Kept(p, m, {w}), Cleared(m),
           NEW q \in SpawnOne(Removed(p, w))
    PROVE  /\ Kept(q, m, {}) /\ q.answer = p.answer /\ p.pending \ {w} \subseteq q.pending
           /\ \A lost : Accounted(p, lost)
                       => Accounted(q, lost \cup ({p.inflight[w]} \ {NoJob}))
<1> DEFINE r == Removed(p, w)
<1>1. /\ Kept(r, m, {})
      /\ r.queue = p.queue /\ r.answer = p.answer
      /\ r.inflight = [p.inflight EXCEPT ![w] = NoJob]
      /\ r.workers = p.workers \ {w} /\ r.pending = p.pending \ {w}
  BY Removes
<1> HIDE DEF r
<1>2. Kept(q, m, {}) /\ Grown(r, q)
  BY <1>1, SpawnsOne DEF r
<1>3. ASSUME NEW lost, Accounted(p, lost)
      PROVE  Accounted(q, lost \cup ({p.inflight[w]} \ {NoJob}))
  <2>1. p \in Records
    BY DEF Kept
  <2>2. Accounted(r, lost \cup ({p.inflight[w]} \ {NoJob}))
    BY <1>1, <1>3, <2>1, RemovesJob
  <2>3. QED
    BY <1>2, <2>2, GrownAccounts
<1>4. q.answer = p.answer /\ p.pending \ {w} \subseteq q.pending
  BY <1>1, <1>2 DEF Grown
<1>5. QED
  BY <1>2, <1>3, <1>4

\* The result of a job that is still in flight, or one that comes too late.
LEMMA ParseResultStep ==
    ASSUME PoolInv, NEW w \in Workers, ParseResult(w)
    PROVE  PoolInv' /\ AnsweredFrom(answer, answer', {mail[w]}) /\ destroyed' = destroyed
<1>1. /\ mail[w] \in Jobs /\ mail' = [mail EXCEPT ![w] = "none"]
      /\ UNCHANGED <<destroyed, waiting, recycles>>
  BY DEF ParseResult
<1>2. /\ mail' \in [Workers -> {"none", "loaded"} \cup Jobs] /\ Cleared(mail')
      /\ mail'[w] = "none" /\ \A v \in Workers \ {w} : mail'[v] = mail[v]
  BY <1>1, Delivered DEF PoolInv
<1>3. /\ Fields \in Records /\ Kept(Fields, mail, {}) /\ Accounted(Fields, {})
      /\ Unstranded(Fields) /\ Distinct(idle)
      /\ waiting => pending # {}
  BY FieldsAre DEF PoolInv, Kept, WaiterHasReason
<1>4. \A v \in Workers : Placed(Fields, v) /\ Attached(Fields, mail, v)
  BY <1>3 DEF Kept
<1>5. Others'
  BY <1>1, <1>2 DEF PoolInv, Others
<1>6. CASE inflight[w] = mail[w]
  <2> DEFINE i == [inflight EXCEPT ![w] = NoJob]
             done == [Fields EXCEPT !.inflight = i]
             u == Append(idle, w)
             freed == [done EXCEPT !.idle = u]
  <2>1. PICK p : /\ p \in SpawnOne(Removed(done, w)) \/ p = freed
                 /\ \E q \in Drain(Settle(p, {mail[w]}, "result")) : Becomes(q)
    <3> DEFINE d == [Fields EXCEPT !.inflight[w] = NoJob]
    <3>1. \E p \in IF parseCounts[w] >= RecycleInterval THEN Recycle(d, w)
                    ELSE {[d EXCEPT !.idle = Append(@, w)]} :
              \E q \in Drain(Settle(p, {mail[w]}, "result")) : Becomes(q)
      BY <1>6 DEF ParseResult
    <3>2. d = done
      BY FieldsAre
    <3>3. done.idle = idle
      BY <1>3, FieldsAre DEF Records
    <3> HIDE DEF d, done
    <3>4. \A p : p \in (IF parseCounts[w] >= RecycleInterval THEN Recycle(d, w)
                    ELSE {[d EXCEPT !.idle = Append(@, w)]})
                => p \in SpawnOne(Removed(done, w)) \/ p = freed
      BY <3>2, <3>3 DEF Recycle
    <3>5. QED
      BY <3>1, <3>4
  <2>2. /\ inflight[w] \in Jobs /\ inflight[w] # NoJob /\ w \in workers
        /\ w \notin pending /\ w \notin ToSet(idle)
    BY <1>1, <1>4, <1>6, PoolAssumption, FieldsAre DEF Placed
  <2>3. thread[w] \notin {"gone", "loading", "busy"}
    <3>1. mail[w] # "none"
      BY <1>1, PoolAssumption
    <3>2. QED
      BY <1>4, <2>2, <3>1, FieldsAre DEF Attached
  <2>4. /\ i \in [Workers -> Jobs \cup {NoJob}]
        /\ \A v \in Workers : i[v] = IF v = w THEN NoJob ELSE inflight[v]
    BY <1>3, FieldsTyped
  <2>5. u \in Seq(Workers) /\ ToSet(u) = ToSet(idle) \cup {w} /\ Distinct(u)
    BY <1>3, <2>2, ElementsOfAppend, FieldsTyped
  <2>6. i = [Fields.inflight EXCEPT ![w] = NoJob]
    BY FieldsAre
  <2> HIDE DEF i, u
  <2>7. /\ done \in Records /\ done.inflight = i
        /\ done.queue = queue /\ done.idle = idle /\ done.workers = workers
        /\ done.pending = pending /\ done.answer = answer /\ done.thread = thread
    BY <1>3, <2>4, FieldsAre DEF Records
  <2> HIDE DEF done
  <2>8. /\ freed \in Records /\ freed.inflight = i
        /\ freed.queue = queue /\ freed.idle = u /\ freed.workers = workers
        /\ freed.pending = pending /\ freed.answer = answer /\ freed.thread = thread
    BY <2>5, <2>7 DEF Records
  <2> HIDE DEF freed
  <2>9. Cardinality(workers) <= MaxSize
    BY <1>3, FieldsAre DEF Kept
  <2>10. ASSUME NEW v \in Workers \ {w}
         PROVE  /\ Placed(done, v) /\ Attached(done, mail', v)
                /\ Placed(freed, v) /\ Attached(freed, mail', v)
    <3>1. Placed(Fields, v) /\ Attached(Fields, mail, v)
      BY <1>4
    <3>2. mail'[v] = mail[v] /\ i[v] = inflight[v] /\ (v \in ToSet(u) <=> v \in ToSet(idle))
      BY <1>2, <2>4, <2>5
    <3>3. Placed(done, v) /\ Attached(done, mail', v)
      BY <2>7, <3>1, <3>2, FieldsAre DEF Placed, Attached
    <3>4. Placed(freed, v) /\ Attached(freed, mail', v)
      BY <2>8, <3>1, <3>2, FieldsAre DEF Placed, Attached
    <3>5. QED
      BY <3>3, <3>4
  <2>11. Kept(done, mail', {w})
    BY <1>3, <2>7, <2>9, <2>10 DEF Kept
  <2>12. Accounted(done, {mail[w]}) /\ Accounted(freed, {mail[w]})
    <3>1. {} \cup ({Fields.inflight[w]} \ {NoJob}) = {mail[w]}
      BY <1>6, <2>2, FieldsAre
    <3>2. Accounted(done, {mail[w]})
      <4>1. /\ done.queue = Fields.queue /\ done.answer = Fields.answer
            /\ done.inflight = [Fields.inflight EXCEPT ![w] = NoJob]
        BY <2>6, <2>7, FieldsAre
      <4>2. Accounted(done, {} \cup ({Fields.inflight[w]} \ {NoJob}))
        BY <1>3, <4>1, RemovesJob
      <4>3. QED
        BY <3>1, <4>2
    <3>3. Accounted(freed, {mail[w]})
      BY <2>7, <2>8, <3>2 DEF Accounted
    <3>4. QED
      BY <3>2, <3>3
  <2>13. /\ Kept(p, mail', {}) /\ Accounted(p, {mail[w]}) /\ p.answer = answer
         /\ pending \subseteq p.pending
    <3>1. CASE p \in SpawnOne(Removed(done, w))
      <4>1. done.inflight[w] = NoJob
        BY <2>4, <2>7
      <4>2. {mail[w]} \cup ({done.inflight[w]} \ {NoJob}) = {mail[w]}
        BY <4>1
      <4>3. /\ Kept(p, mail', {}) /\ p.answer = done.answer
            /\ done.pending \ {w} \subseteq p.pending
            /\ \A lost : Accounted(done, lost)
                        => Accounted(p, lost \cup ({done.inflight[w]} \ {NoJob}))
        BY <1>2, <2>11, <3>1, Replaces
      <4>4. Accounted(p, {mail[w]})
        BY <2>12, <4>2, <4>3
      <4>5. QED
        BY <2>2, <2>7, <4>3, <4>4
    <3>2. CASE p = freed
      <4>1. Placed(freed, w) /\ Attached(freed, mail', w)
        <5>1. /\ w \in freed.workers /\ w \notin freed.pending /\ w \in ToSet(freed.idle)
              /\ freed.inflight[w] = NoJob /\ mail'[w] = "none"
              /\ freed.thread[w] \notin {"gone", "loading", "busy"}
          BY <1>2, <2>2, <2>3, <2>4, <2>5, <2>8
        <5>2. QED
          BY <5>1 DEF Placed, Attached
      <4>2. Kept(freed, mail', {})
        BY <2>5, <2>8, <2>9, <2>10, <4>1 DEF Kept
      <4>3. QED
        BY <2>8, <2>12, <3>2, <4>2
    <3>3. QED
      BY <2>1, <3>1, <3>2
  <2> DEFINE s == Settle(p, {mail[w]}, "result")
  <2>14. p \in Records /\ {mail[w]} \cap Jobs = {mail[w]}
    BY <1>1, <2>13 DEF Kept
  <2>15. Kept(s, mail', {}) /\ Accounted(s, {})
    BY <2>13, <2>14, SettlesKept, SettlesLost
  <2>16. /\ s.pending = p.pending
         /\ \A j \in Jobs : s.answer[j] = IF j \in {mail[w]} /\ p.answer[j] = "waiting"
                                        THEN "result" ELSE p.answer[j]
    BY <2>14, Settles
  <2>17. \E q \in Drain(s) : Becomes(q)
    BY <2>1
  <2> HIDE DEF s
  <2>18. waiting' => s.pending # {}
    BY <1>1, <1>3, <2>13, <2>16
  <2>19. PoolInv' /\ AnsweredFrom(s.answer, answer', {})
    BY <1>2, <1>5, <2>15, <2>17, <2>18, DrainEnds
  <2>20. AnsweredFrom(answer, answer', {mail[w]})
    BY <2>13, <2>16, <2>19 DEF AnsweredFrom
  <2>21. QED
    BY <1>1, <2>19, <2>20
<1>7. CASE inflight[w] # mail[w]
  <2>1. Becomes(Fields)
    BY <1>7 DEF ParseResult
  <2>2. ASSUME NEW v \in Workers PROVE Attached(Fields, mail', v)
    <3>1. Attached(Fields, mail, v) /\ (mail'[v] = mail[v] \/ mail'[v] = "none")
      BY <1>2, <1>4
    <3>2. QED
      BY <3>1 DEF Attached
  <2>3. Kept(Fields, mail', {})
    BY <1>3, <1>4, <2>2 DEF Kept
  <2>4. waiting' => Fields.pending # {}
    BY <1>1, <1>3, FieldsAre
  <2>5. PoolInv'
    BY <1>3, <1>5, <2>1, <2>3, <2>4, Ends
  <2>6. answer' = answer
    BY <2>1, FieldsAre DEF Becomes
  <2>7. QED
    BY <1>1, <2>5, <2>6 DEF AnsweredFrom
<1>8. QED
  BY <1>6, <1>7

\* The end of a thread is noticed, of which no message is left.
LEMMA WorkerGoneStep ==
    ASSUME PoolInv, NEW w \in Workers, NEW s \in {"exiting", "gone"}, mail[w] = "none",
           WorkerGone([Fields EXCEPT !.thread[w] = s], w),
           UNCHANGED <<destroyed, mail, recycles>>
    PROVE  PoolInv' /\ AnsweredFrom(answer, answer', {}) /\ destroyed' = destroyed
<1> DEFINE x == [thread EXCEPT ![w] = s]
           p == [Fields EXCEPT !.thread = x]
<1>1. WorkerGone(p, w)
  <2>1. p = [Fields EXCEPT !.thread[w] = s]
    BY FieldsAre
  <2>2. QED
    BY <2>1
<1>2. /\ Fields \in Records /\ Kept(Fields, mail, {}) /\ Accounted(Fields, {})
      /\ Unstranded(Fields) /\ Distinct(idle) /\ Cardinality(workers) <= MaxSize
      /\ waiting \in BOOLEAN /\ (waiting => pending # {})
  BY FieldsAre DEF PoolInv, Kept, WaiterHasReason, Others
<1>3. \A v \in Workers : Placed(Fields, v) /\ Attached(Fields, mail, v)
  BY <1>2 DEF Kept
<1>4. mail' = mail /\ Cleared(mail')
  BY DEF Cleared
<1>5. /\ x \in [Workers -> {"gone", "loading", "free", "busy", "dying", "exiting"}]
      /\ \A v \in Workers : x[v] = IF v = w THEN s ELSE thread[v]
  BY <1>2, FieldsTyped
<1> HIDE DEF x
<1>6. /\ p \in Records /\ p.thread = x
      /\ p.queue = queue /\ p.idle = idle /\ p.inflight = inflight
      /\ p.workers = workers /\ p.pending = pending /\ p.answer = answer
  BY <1>2, <1>5, FieldsAre DEF Records
<1> HIDE DEF p
<1>7. ASSUME NEW v \in Workers \ {w} PROVE Placed(p, v) /\ Attached(p, mail', v)
  <2>1. Placed(Fields, v) /\ Attached(Fields, mail, v)
    BY <1>3
  <2>2. p.thread[v] = thread[v]
    BY <1>5, <1>6
  <2>3. QED
    BY <1>4, <1>6, <2>1, <2>2, FieldsAre DEF Placed, Attached
<1>8. Kept(p, mail', {w}) /\ Accounted(p, {}) /\ Unstranded(p)
  <2>1. Kept(p, mail', {w})
    BY <1>2, <1>6, <1>7 DEF Kept
  <2>2. Accounted(p, {}) /\ Unstranded(p)
    BY <1>2, <1>6, FieldsAre DEF Accounted, Unstranded
  <2>3. QED
    BY <2>1, <2>2
<1>9. CASE w \notin workers
  <2>1. Becomes(p) /\ waiting' = waiting
    BY <1>1, <1>9 DEF WorkerGone
  <2>2. Placed(p, w) /\ Attached(p, mail', w)
    <3>1. Placed(Fields, w)
      BY <1>3
    <3>2. p.thread[w] \in {"exiting", "gone"}
      BY <1>5, <1>6
    <3>3. QED
      BY <1>4, <1>6, <1>9, <3>1, <3>2, FieldsAre DEF Placed, Attached
  <2>3. Kept(p, mail', {})
    BY <1>7, <1>8, <2>2 DEF Kept
  <2>4. Others' /\ (waiting' => p.pending # {})
    BY <1>2, <1>6, <2>1 DEF PoolInv, Others
  <2>5. PoolInv'
    BY <1>8, <2>1, <2>3, <2>4, Ends
  <2>6. answer' = answer
    BY <1>6, <2>1 DEF Becomes
  <2>7. QED
    BY <2>5, <2>6 DEF AnsweredFrom
<1>10. CASE w \in workers
  <2> DEFINE r == Removed(p, w)
             k == [r EXCEPT !.crashes = @ + 1]
             l == Settle(k, {inflight[w]}, "error")
             lost == {} \cup ({p.inflight[w]} \ {NoJob})
  <2>1. PICK q \in SpawnOne(l) :
            waiting' = (waiting /\ q.pending # {}) /\ \E z \in Drain(q) : Becomes(z)
    BY <1>1, <1>10 DEF WorkerGone, ReadyWaiters
  <2>2. /\ Kept(r, mail', {})
        /\ r.queue = p.queue /\ r.answer = p.answer
        /\ r.inflight = [p.inflight EXCEPT ![w] = NoJob]
    <3>1. Kept(p, mail', {w})
      BY <1>8
    <3>2. QED
      BY <3>1, Removes
  <2> HIDE DEF r
  <2>3. Accounted(r, lost)
    BY <1>6, <1>8, <2>2, RemovesJob
  <2>4. Kept(k, mail', {}) /\ Accounted(k, lost) /\ k.answer = r.answer
    BY <2>2, <2>3, Crashes
  <2> HIDE DEF k
  <2>5. {inflight[w]} \cap Jobs = lost
    <3>1. inflight[w] \in Jobs \cup {NoJob} /\ NoJob \notin Jobs
      BY <1>2, FieldsTyped, PoolAssumption
    <3>2. QED
      BY <1>6, <3>1
  <2> HIDE DEF lost
  <2>6. k \in Records
    BY <2>4 DEF Kept
  <2>7. Kept(l, mail', {}) /\ Accounted(l, {})
    BY <2>4, <2>5, <2>6, SettlesKept, SettlesLost
  <2>8. \A j \in Jobs : l.answer[j] = answer[j] \/ (answer[j] = "waiting" /\ l.answer[j] = "error")
    <3>1. k.answer = answer
      BY <1>6, <2>2, <2>4
    <3>2. QED
      BY <2>6, <3>1, Settles
  <2> HIDE DEF l
  <2>9. Kept(q, mail', {}) /\ Grown(l, q)
    BY <1>4, <2>7, SpawnsOne
  <2>10. Accounted(q, {}) /\ q.answer = l.answer
    BY <2>7, <2>9, GrownAccounts DEF Grown
  <2>11. Others' /\ (waiting' => q.pending # {})
    BY <1>2, <2>1 DEF PoolInv, Others
  <2>12. PoolInv' /\ AnsweredFrom(q.answer, answer', {})
    BY <1>4, <2>1, <2>9, <2>10, <2>11, DrainEnds
  <2>13. AnsweredFrom(answer, answer', {})
    BY <2>8, <2>10, <2>12 DEF AnsweredFrom
  <2>14. QED
    BY <2>12, <2>13
<1>11. QED
  BY <1>9, <1>10

\* A job past its grace period fails with its worker.
LEMMA HardTimeoutStep ==
    ASSUME PoolInv, NEW w \in Workers, HardTimeout(w)
    PROVE  PoolInv' /\ AnsweredFrom(answer, answer', {}) /\ destroyed' = destroyed
<1> DEFINE r == Removed(Fields, w)
           l == Settle(r, {inflight[w]}, "error")
           lost == {} \cup ({Fields.inflight[w]} \ {NoJob})
<1>1. /\ inflight[w] # NoJob /\ UNCHANGED <<destroyed, waiting, mail, recycles>>
      /\ \E q \in SpawnOne(l) : \E z \in Drain(q) : Becomes(z)
  BY DEF HardTimeout, Busy
<1>2. PICK q \in SpawnOne(l) : \E z \in Drain(q) : Becomes(z)
  BY <1>1
<1>3. /\ Fields \in Records /\ Kept(Fields, mail', {}) /\ Accounted(Fields, {})
      /\ Cleared(mail') /\ Others' /\ (waiting' => pending # {})
  BY <1>1 DEF PoolInv, Kept, Cleared, Others, WaiterHasReason
<1>4. w \notin pending /\ inflight[w] \in Jobs
  <2>1. Placed(Fields, w)
    BY <1>3 DEF Kept
  <2>2. QED
    BY <1>1, <1>3, <2>1, FieldsAre, FieldsTyped DEF Placed
<1>5. /\ Kept(r, mail', {})
      /\ r.queue = Fields.queue /\ r.answer = Fields.answer
      /\ r.inflight = [Fields.inflight EXCEPT ![w] = NoJob]
      /\ r.pending = Fields.pending \ {w}
  <2>1. Kept(Fields, mail', {w})
    BY <1>3, KeptBut
  <2>2. QED
    BY <2>1, Removes
<1> HIDE DEF r
<1>6. Accounted(r, lost) /\ r \in Records
  BY <1>3, <1>5, RemovesJob DEF Kept
<1>7. {inflight[w]} \cap Jobs = lost
  BY <1>1, <1>4, FieldsAre
<1> HIDE DEF lost
<1>8. Kept(l, mail', {}) /\ Accounted(l, {})
  BY <1>5, <1>6, <1>7, SettlesKept, SettlesLost
<1>9. /\ l.pending = pending
      /\ \A j \in Jobs : l.answer[j] = answer[j] \/ (answer[j] = "waiting" /\ l.answer[j] = "error")
  <2>1. r.answer = answer /\ r.pending = pending
    BY <1>4, <1>5, FieldsAre
  <2>2. QED
    BY <1>6, <2>1, Settles
<1> HIDE DEF l
<1>10. Kept(q, mail', {}) /\ Grown(l, q)
  BY <1>3, <1>8, SpawnsOne
<1>11. Accounted(q, {}) /\ q.answer = l.answer /\ pending \subseteq q.pending
  BY <1>8, <1>9, <1>10, GrownAccounts DEF Grown
<1>12. waiting' => q.pending # {}
  BY <1>3, <1>11
<1>13. PoolInv' /\ AnsweredFrom(q.answer, answer', {})
  BY <1>2, <1>3, <1>10, <1>11, <1>12, DrainEnds
<1>14. AnsweredFrom(answer, answer', {})
  BY <1>9, <1>11, <1>13 DEF AnsweredFrom
<1>15. QED
  BY <1>1, <1>13, <1>14

\* What the pool answers is what the service allows.
LEMMA AnswersAllowed ==
    ASSUME PoolInv, PoolInv', NEW won, AnsweredFrom(answer, answer', {won}),
           destroyed' = destroyed
    PROVE  Service!Answer
<1>1. answer' \in [Jobs -> {"none", "waiting", "result", "error"}]
  <2>1. Fields' \in Records
    BY DEF PoolInv, Kept
  <2>2. QED
    BY <2>1 DEF Fields, Records
<1>2. \A j \in Jobs : j \in Service!Waiting <=> answer[j] = "waiting"
  BY DEF Service!Waiting
<1>3. \A j \in Jobs \ Service!Waiting : answer'[j] = answer[j]
  BY <1>2 DEF AnsweredFrom
<1>4. \A j \in Service!Waiting :
          j \in Jobs /\ answer'[j] # "none" /\ (answer'[j] = "result" => j = won)
  BY <1>2 DEF AnsweredFrom, Service!Waiting
<1>5. QED
  BY <1>1, <1>3, <1>4 DEF Service!Answer

\* Errors only are allowed where one result is.
LEMMA ErrorsAllowed ==
    ASSUME AnsweredFrom(answer, answer', {}), NEW won
    PROVE  AnsweredFrom(answer, answer', {won})
BY DEF AnsweredFrom

\* Every step keeps the invariant and is one that the service may take.
LEMMA PoolStep ==
    ASSUME PoolInv, [PoolNext]_poolVars
    PROVE  PoolInv' /\ [Service!Next]_Service!svcVars
<1>1. ASSUME PoolInv', UNCHANGED <<answer, destroyed>>
      PROVE  PoolInv' /\ [Service!Next]_Service!svcVars
  BY <1>1 DEF Service!svcVars
<1>2. ASSUME PoolInv', AnsweredFrom(answer, answer', {}), destroyed' = destroyed
      PROVE  PoolInv' /\ [Service!Next]_Service!svcVars
  BY <1>2, ErrorsAllowed, AnswersAllowed DEF Service!Next
<1>3. CASE Prewarm
  BY <1>1, <1>3, PrewarmStep
<1>4. CASE WaitUntilReady
  BY <1>1, <1>4, WaitStep
<1>5. CASE RecycleAll
  BY <1>1, <1>5, RecycleAllStep
<1>6. CASE Destroy
  <2>1. /\ PoolInv' /\ destroyed' = TRUE /\ ~destroyed
        /\ answer' = [j \in Jobs |-> IF answer[j] = "waiting" THEN "error" ELSE answer[j]]
    BY <1>6, DestroyStep
  <2>2. answer' = [j \in Jobs |-> IF j \in Service!Waiting THEN "error" ELSE answer[j]]
    BY <2>1 DEF Service!Waiting
  <2>3. Service!Close
    BY <2>1, <2>2 DEF Service!Close
  <2>4. QED
    BY <2>1, <2>3 DEF Service!Next
<1>7. ASSUME NEW j \in Jobs, RequestParse(j)
      PROVE  PoolInv' /\ [Service!Next]_Service!svcVars
  <2>1. /\ PoolInv' /\ destroyed' = destroyed /\ answer[j] = "none"
        /\ \E a \in {"waiting", "error"} :
              (destroyed => a = "error") /\ answer' = [answer EXCEPT ![j] = a]
    BY <1>7, RequestStep
  <2>2. Service!Request(j)
    BY <2>1 DEF Service!Request
  <2>3. QED
    BY <2>1, <2>2 DEF Service!Next
<1>8. ASSUME NEW w \in Workers, GrammarsLoaded(w)
      PROVE  PoolInv' /\ [Service!Next]_Service!svcVars
  BY <1>2, <1>8, GrammarsLoadedStep
<1>9. ASSUME NEW w \in Workers, ParseResult(w)
      PROVE  PoolInv' /\ [Service!Next]_Service!svcVars
  <2>1. PoolInv' /\ AnsweredFrom(answer, answer', {mail[w]}) /\ destroyed' = destroyed
    BY <1>9, ParseResultStep
  <2>2. Service!Answer
    BY <2>1, AnswersAllowed
  <2>3. QED
    BY <2>1, <2>2 DEF Service!Next
<1>10. ASSUME NEW w \in Workers, ErrorEvent(w) \/ ExitEvent(w)
       PROVE  PoolInv' /\ [Service!Next]_Service!svcVars
  <2>1. PICK s \in {"exiting", "gone"} :
            /\ mail[w] = "none" /\ WorkerGone([Fields EXCEPT !.thread[w] = s], w)
            /\ UNCHANGED <<destroyed, mail, recycles>>
    BY <1>10 DEF ErrorEvent, ExitEvent
  <2>2. PoolInv' /\ AnsweredFrom(answer, answer', {}) /\ destroyed' = destroyed
    BY <2>1, WorkerGoneStep
  <2>3. QED
    BY <1>2, <2>2
<1>11. ASSUME NEW w \in Workers, SoftTimeout(w)
       PROVE  PoolInv' /\ [Service!Next]_Service!svcVars
  BY <1>1, <1>11, SoftTimeoutStep
<1>12. ASSUME NEW w \in Workers, HardTimeout(w)
       PROVE  PoolInv' /\ [Service!Next]_Service!svcVars
  BY <1>2, <1>12, HardTimeoutStep
<1>13. ASSUME NEW w \in Workers, Thread(w)
       PROVE  PoolInv' /\ [Service!Next]_Service!svcVars
  BY <1>1, <1>13, ThreadStep
<1>14. CASE UNCHANGED poolVars
  <2>1. Fields' = Fields /\ UNCHANGED <<answer, destroyed>>
    BY <1>14 DEF poolVars, Fields
  <2>2. PoolInv'
    BY <1>14, <2>1 DEF poolVars, PoolInv, Others, WaiterHasReason
  <2>3. QED
    BY <1>1, <2>1, <2>2
<1>15. QED
  BY <1>3, <1>4, <1>5, <1>6, <1>7, <1>8, <1>9, <1>10, <1>11, <1>12, <1>13, <1>14
     DEF PoolNext, User, Event

-----------------------------------------------------------------------------
(* The theorems.                                                           *)

\* The inductive invariant of the pool holds throughout.
LEMMA PoolInvariance == PoolSpec => []PoolInv
<1>1. PoolInit => PoolInv
  BY InitInv
<1>2. PoolInv /\ [PoolNext]_poolVars => PoolInv'
  BY PoolStep
<1>3. QED
  BY <1>1, <1>2, PTL DEF PoolSpec

\* Every variable of the pool keeps its type, and the pool its size: a worker that is
\* replaced is never counted twice.
THEOREM PoolTypeCorrect == PoolSpec => []PoolTypeOK
<1>1. PoolInv => PoolTypeOK
  BY InvImplies
<1>2. QED
  BY <1>1, PoolInvariance, PTL

\* No crash, recycling, timeout or failed start of a worker loses or doubles a call
\* of requestParse, in a pool of any size under any number of calls.
THEOREM NoJobIsLost == PoolSpec => []JobsAccounted
<1>1. PoolInv => JobsAccounted
  BY InvImplies
<1>2. QED
  BY <1>1, PoolInvariance, PTL

\* Between two handlers no call waits beside an idle worker, and no call and no
\* waiter for readiness waits when no worker is left that could end the wait.
THEOREM NobodyIsStranded == PoolSpec => []NoneStranded
<1>1. PoolInv => NoneStranded
  BY InvImplies
<1>2. QED
  BY <1>1, PoolInvariance, PTL

\* The safety half of the promise of ParseService: a call is answered once at most, a
\* result answers one call, and none is open after destroy().
THEOREM ParsesAsPromised == PoolSpec => Service!Init /\ [][Service!Next]_Service!svcVars
<1>1. PoolInit => Service!Init
  BY DEF PoolInit, Service!Init
<1>2. PoolInv /\ [PoolNext]_poolVars => [Service!Next]_Service!svcVars
  BY PoolStep
<1>3. QED
  BY <1>1, <1>2, PoolInvariance, PTL DEF PoolSpec

=============================================================================
