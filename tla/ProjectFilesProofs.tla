-------------------------- MODULE ProjectFilesProofs --------------------------
(* The safety properties of the files that processes share, in two parts:   *)
(* of FileLock, the write lock of the index, and of DatabaseOpen, the       *)
(* database itself.  Each part has a specification of its own, and both are *)
(* for any set of processes.                                                *)
EXTENDS FileLock, DatabaseOpen, TLAPS

\* held is set exactly from the end of acquire to the end of release.
HeldDuringOperation ==
    \A p \in Procs :
        /\ held[p] => sysCall[p] \in {"working", "readBack", "unlinkOwn"}
        /\ sysCall[p] \in {"readBack", "unlinkOwn"} => held[p]
        /\ sysCall[p] = "working" => (held[p] <=> op[p] = "sync")

\* A holder whose lock file is at the path has its pid in it.
HeldLockIsWritten == \A p \in Procs : owner = p /\ held[p] => written

\* Until the lock of a live process is removed, the file is the holder's.
LockOfHolder == broken \/ \A p \in Procs : Holds(p) => owner = p

LockIInv ==
    /\ LockTypeOK
    /\ HeldDuringOperation
    /\ HeldLockIsWritten
    /\ LockNotLeaked
    /\ LockOfHolder

-----------------------------------------------------------------------------
\* Everything is idle and there is no lock file at first.
LEMMA LockInitIInv == LockInit => LockIInv
  BY FileLockAssumption DEF LockInit, LockIInv, LockTypeOK, Calls, HeldDuringOperation,
     HeldLockIsWritten, LockNotLeaked, LockOfHolder, Holds, Alive

\* A step of acquire, of release, of an operation or of the environment keeps
\* the invariant.
LEMMA LockStepIInv == LockIInv /\ [LockNext]_lockVars => LockIInv'
<1> SUFFICES ASSUME LockIInv, [LockNext]_lockVars PROVE LockIInv'
  OBVIOUS
<1> USE FileLockAssumption DEF LockIInv, LockTypeOK, Calls, HeldDuringOperation,
        HeldLockIsWritten, LockNotLeaked, LockOfHolder, Holds, Alive, NextCall,
        NoLockFile, fileVars
<1>1. ASSUME NEW p \in Procs, Begin(p) PROVE LockIInv'
  BY <1>1 DEF Begin
<1>2. ASSUME NEW p \in Procs, Read(p) PROVE LockIInv'
  BY <1>2 DEF Read
<1>3. ASSUME NEW p \in Procs, Judge(p) PROVE LockIInv'
  BY <1>3 DEF Judge
<1>4. ASSUME NEW p \in Procs, Unlink(p) PROVE LockIInv'
  BY <1>4 DEF Unlink, RemovesLock
<1>5. ASSUME NEW p \in Procs, UnlinkQuietly(p) PROVE LockIInv'
  BY <1>5 DEF UnlinkQuietly, RemovesLock
<1>6. ASSUME NEW p \in Procs, Create(p) PROVE LockIInv'
  <2>1. CASE owner = NoFile
    <3>1. LockTypeOK'
      BY <2>1, <1>6, ZenonT(30) DEF Create
    <3>2. HeldDuringOperation'
      BY <2>1, <1>6 DEF Create
    <3>3. HeldLockIsWritten'
      BY <2>1, <1>6 DEF Create
    <3>4. LockNotLeaked'
      BY <2>1, <1>6 DEF Create
    <3>5. LockOfHolder'
      BY <2>1, <1>6 DEF Create
    <3> QED
      BY <3>1, <3>2, <3>3, <3>4, <3>5
  <2>2. CASE owner # NoFile
    BY <2>2, <1>6 DEF Create
  <2> QED
    BY <2>1, <2>2
<1>7. ASSUME NEW p \in Procs, Write(p) PROVE LockIInv'
  BY <1>7 DEF Write
<1>8. ASSUME NEW p \in Procs, Finish(p) PROVE LockIInv'
  BY <1>8 DEF Finish
<1>9. ASSUME NEW p \in Procs, ReadBack(p) PROVE LockIInv'
  <2>1. CASE held[p] /\ owner = p /\ written
    BY <2>1, <1>9 DEF ReadBack, AfterRelease
  <2>2. CASE ~(held[p] /\ owner = p /\ written)
    <3>1. LockTypeOK'
      BY <2>2, <1>9, ZenonT(30) DEF ReadBack, AfterRelease
    <3>2. HeldDuringOperation'
      BY <2>2, <1>9 DEF ReadBack, AfterRelease
    <3>3. HeldLockIsWritten'
      BY <2>2, <1>9 DEF ReadBack, AfterRelease
    <3>4. LockNotLeaked'
      BY <2>2, <1>9 DEF ReadBack, AfterRelease
    <3>5. LockOfHolder'
      BY <2>2, <1>9 DEF ReadBack, AfterRelease
    <3> QED
      BY <3>1, <3>2, <3>3, <3>4, <3>5
  <2> QED
    BY <2>1, <2>2
<1>10. ASSUME NEW p \in Procs, UnlinkOwn(p) PROVE LockIInv'
  BY <1>10 DEF UnlinkOwn, AfterRelease
<1>11. ASSUME NEW p \in Procs, Crash(p) PROVE LockIInv'
  BY <1>11 DEF Crash
<1>12. ASSUME Age PROVE LockIInv'
  BY <1>12 DEF Age
<1>13. ASSUME UNCHANGED lockVars PROVE LockIInv'
  BY <1>13 DEF lockVars
<1> QED
  BY <1>1, <1>2, <1>3, <1>4, <1>5, <1>6, <1>7, <1>8, <1>9, <1>10, <1>11,
     <1>12, <1>13 DEF LockNext, Acquire, Release

-----------------------------------------------------------------------------
\* Two processes hold the write lock only after an acquire removed the lock of
\* a live process.
THEOREM Exclusive == LockSpec => []ExclusiveUnlessBroken
<1>1. LockIInv => ExclusiveUnlessBroken
  BY DEF LockIInv, LockOfHolder, ExclusiveUnlessBroken
<1> QED
  BY <1>1, LockInitIInv, LockStepIInv, PTL DEF LockSpec

\* The lock file of a live process belongs to an operation that holds it.
THEOREM NotLeaked == LockSpec => []LockNotLeaked
<1>1. LockIInv => LockNotLeaked
  BY DEF LockIInv
<1> QED
  BY <1>1, LockInitIInv, LockStepIInv, PTL DEF LockSpec

\* The variables keep their types.
THEOREM LockTypeCorrect == LockSpec => []LockTypeOK
<1>1. LockIInv => LockTypeOK
  BY DEF LockIInv
<1> QED
  BY <1>1, LockInitIInv, LockStepIInv, PTL DEF LockSpec

-----------------------------------------------------------------------------
(* The database.                                                            *)

Made(s) == Tables[s] \subseteq tables /\ Parts[s] \subseteq parts

\* The database of an older release: nobody creates it, its parts are those up to
\* the greatest version, and who migrates it comes after a version recorded.
OldDatabase ==
    ~created =>
        /\ file /\ tables = AllTables
        /\ \A m \in Migrations : m \in parts <=> \E v \in versions : m <= v
        /\ \E v \in versions : 1 <= v
        /\ \A p \in Processes :
             /\ pc[p] \notin {"checked", "making", "recording"}
             /\ pc[p] = "migrating" => \E v \in versions : at[p] <= v + 1

\* The database of this release: what its creators have executed is there, and
\* migration 2, which comes first, can never be applied to it.
NewDatabase ==
    created =>
        /\ versions \subseteq {1, Current}
        /\ Current \in versions => \A s \in Statements : Made(s)
        /\ "refs" \in tables => 2 \in parts
        /\ \A p \in Processes :
             /\ pc[p] = "making" =>
                  at[p] \in Statements /\ \A s \in Statements : s < at[p] => Made(s)
             /\ pc[p] = "recording" => \A s \in Statements : Made(s)
             /\ pc[p] = "migrating" => at[p] = 2

Placed ==
    \A p \in Processes :
        /\ pc[p] = "migrating" => at[p] \in Migrations
        /\ pc[p] = "open" => Current \in versions

IInv == TypeOK /\ OldDatabase /\ NewDatabase /\ Placed /\ RefusalMeansProgress

-----------------------------------------------------------------------------
\* The statements of schema.sql, one by one.
LEMMA StatementValues ==
    /\ Tables[1] = {"versions"} /\ Tables[2] = {} /\ Tables[3] = {"nodes"}
    /\ Tables[4] = {"edges"} /\ Tables[5] = {"refs"} /\ Tables[6] = {}
    /\ Parts[1] = {} /\ Parts[2] = {} /\ Parts[3] = {5, 6}
    /\ Parts[4] = {4} /\ Parts[5] = {2, 8} /\ Parts[6] = {3, 7}
  BY DEF Tables, Parts, Statements

\* All of them together make the current schema.
LEMMA AllMadeIsCurrent ==
    ASSUME TypeOK, \A s \in Statements : Made(s)
    PROVE  parts = Migrations /\ tables = AllTables
<1>1. {2, 3, 4, 5, 6, 7, 8} \subseteq parts
  BY StatementValues DEF Made, Statements
<1>2. AllTables \subseteq tables
  BY StatementValues DEF Made, Statements, AllTables
<1>3. Migrations = {2, 3, 4, 5, 6, 7, 8}
  BY DEF Migrations, Current
<1> QED
  BY <1>1, <1>2, <1>3 DEF TypeOK

\* The tables that migrations alter.
LEMMA Altered ==
    /\ \A m \in Migrations : Alters[m] \subseteq AllTables
    /\ "refs" \in Alters[2]
  BY DEF Alters, Migrations, AllTables, Current

\* No database, or that of an older release.
LEMMA InitIInv == Init => IInv
<1> SUFFICES ASSUME Init PROVE IInv
  OBVIOUS
<1>1. TypeOK
  <2>1. /\ file \in BOOLEAN /\ created \in BOOLEAN
        /\ tables \subseteq AllTables
        /\ parts \subseteq Migrations /\ versions \subseteq 1..Current
    <3>1. CASE file = FALSE
      BY <3>1 DEF Init
    <3>2. CASE file # FALSE
      <4>1. PICK upTo \in 1..Current : \E by \in 1..upTo :
               /\ file = TRUE /\ created = FALSE
               /\ tables = AllTables /\ parts = 2..upTo
               /\ versions = {1} \cup by..upTo
        BY <3>2 DEF Init
      <4>2. PICK by \in 1..upTo : versions = {1} \cup by..upTo
        BY <4>1
      <4>3. Current = 8 /\ Migrations = 2..8
        BY DEF Migrations, Current
      <4>4. parts \subseteq Migrations
        BY <4>1, <4>3
      <4>5. versions \subseteq 1..Current
        BY <4>2, <4>3
      <4> QED
        BY <4>1, <4>4, <4>5
    <3> QED
      BY <3>1, <3>2
  <2>2. pc \in [Processes -> {"out", "checked", "making", "recording", "reading",
                             "migrating", "open"}]
    BY DEF Init
  <2>3. at \in [Processes -> 0..Current + 1] /\ refused = {}
    BY DEF Init, Current
  <2> QED
    BY <2>1, <2>2, <2>3 DEF TypeOK
<1>2. OldDatabase
  BY DEF Init, OldDatabase, Migrations, Current
<1>3. NewDatabase
  BY DEF Init, NewDatabase, Current, Statements
<1> QED
  BY <1>1, <1>2, <1>3 DEF Init, IInv, Placed, RefusalMeansProgress

\* A statement of a creator keeps the invariant.
LEMMA ExecSchemaKeeps ==
    ASSUME IInv, NEW p \in Processes, ExecSchema(p) PROVE IInv'
<1> USE DEF IInv, ExecSchema, Goto, dbVars
<1>1. created /\ created' = created
  BY DEF OldDatabase
<1>2. PICK i \in Statements : i = at[p]
  BY <1>1 DEF NewDatabase
<1>3. CASE at[p] = 2 /\ 1 \in versions
  <2>1. TypeOK'
    <3>1. pc' \in [Processes -> {"out", "checked", "making", "recording", "reading",
                                "migrating", "open"}]
      BY <1>3 DEF TypeOK
    <3>2. at' \in [Processes -> 0..Current + 1]
      BY <1>3 DEF TypeOK, Current
    <3> QED
      BY <1>3, <3>1, <3>2 DEF TypeOK
  <2>2. NewDatabase'
    BY <1>1, <1>3, ZenonT(30) DEF NewDatabase, Made, TypeOK
  <2> QED
    BY <1>1, <1>3, <2>1, <2>2 DEF OldDatabase, Placed, RefusalMeansProgress, TypeOK
<1>4. CASE ~(at[p] = 2 /\ 1 \in versions)
  <2>1. /\ tables' = tables \cup Tables[i] /\ parts' = parts \cup Parts[i]
        /\ versions' \in {versions, versions \cup {1}}
        /\ at' = [at EXCEPT ![p] = @ + 1]
        /\ pc' = [pc EXCEPT ![p] = IF i = 6 THEN "recording" ELSE "making"]
    BY <1>2, <1>4
  <2>2. Tables[i] \subseteq AllTables /\ Parts[i] \subseteq Migrations
    BY <1>2, StatementValues DEF Statements, AllTables, Migrations, Current
  <2>3. TypeOK'
    BY <1>1, <1>2, <1>4, <2>1, <2>2 DEF TypeOK, Statements, Current
  <2>4. \A s \in Statements : Made(s) => Made(s)'
    BY <2>1 DEF Made
  <2>5. Made(i)'
    BY <1>2, <2>1 DEF Made
  <2>6. "refs" \in tables' => 2 \in parts'
    BY <1>1, <1>2, <2>1, StatementValues DEF NewDatabase, Statements
  <2>7. at'[p] = i + 1 /\ \A s \in Statements : s < i + 1 => Made(s)'
    BY <1>1, <1>2, <2>1, <2>4, <2>5 DEF NewDatabase, Statements, TypeOK
  <2>8. pc'[p] = "recording" => \A s \in Statements : Made(s)'
    BY <1>2, <2>1, <2>7 DEF Statements, TypeOK
  <2>9. pc'[p] = "making" => i + 1 \in Statements
    BY <1>2, <2>1 DEF Statements, TypeOK
  <2>10. Current \in versions' => Current \in versions
    BY <2>1 DEF Current
  <2>11. versions' \subseteq {1, Current}
    BY <1>1, <2>1 DEF NewDatabase
  <2>12. pc'[p] \in {"making", "recording"}
    BY <2>1 DEF TypeOK
  <2>13. ASSUME NEW q \in Processes
         PROVE  /\ pc'[q] = "making" =>
                     at'[q] \in Statements /\ \A s \in Statements : s < at'[q] => Made(s)'
                /\ pc'[q] = "recording" => \A s \in Statements : Made(s)'
                /\ pc'[q] = "migrating" => at'[q] = 2
    <3>1. CASE q = p
      BY <3>1, <2>7, <2>8, <2>9, <2>12
    <3>2. CASE q # p
      BY <3>2, <1>1, <2>1, <2>4 DEF NewDatabase, TypeOK
    <3> QED
      BY <3>1, <3>2
  <2>14. NewDatabase'
    BY <1>1, <2>4, <2>6, <2>10, <2>11, <2>13 DEF NewDatabase
  <2>15. Placed'
    BY <2>1, <2>12 DEF Placed, TypeOK
  <2> QED
    BY <1>1, <1>4, <2>3, <2>14, <2>15 DEF OldDatabase, RefusalMeansProgress
<1> QED
  BY <1>3, <1>4

\* A migration keeps the invariant: it is never applied to a new database.
LEMMA MigrateKeeps ==
    ASSUME IInv, NEW p \in Processes, Migrate(p) PROVE IInv'
<1> USE DEF IInv, Migrate, Goto
<1>1. at[p] \in Migrations
  BY DEF Placed
<1>2. ~created
  BY Altered DEF NewDatabase, Applies, AddsColumns
<1>3. TypeOK'
  <2>1. parts' \subseteq Migrations /\ versions' \subseteq 1..Current
    <3>1. at[p] \in 1..Current
      BY <1>1 DEF Migrations, Current
    <3> QED
      BY <1>1, <3>1 DEF TypeOK
  <2>2. pc' \in [Processes -> {"out", "checked", "making", "recording", "reading",
                              "migrating", "open"}]
    BY DEF TypeOK
  <2>3. at' \in [Processes -> 0..Current + 1]
    BY <1>1 DEF TypeOK, Migrations, Current
  <2> QED
    BY <2>1, <2>2, <2>3 DEF TypeOK
<1>4. \A m \in Migrations : m \in parts' <=> \E v \in versions' : m <= v
  <2> SUFFICES ASSUME NEW m \in Migrations
               PROVE  m \in parts' <=> \E v \in versions' : m <= v
    OBVIOUS
  <2>1. PICK w \in versions : at[p] <= w + 1
    BY <1>2 DEF OldDatabase
  <2>2. m \in Nat /\ at[p] \in Nat /\ w \in Nat
    BY <1>1, <2>1 DEF Migrations, TypeOK, Current
  <2>3. CASE m = at[p]
    BY <2>2, <2>3
  <2>4. CASE m # at[p]
    <3>1. m <= at[p] => m <= w
      BY <2>1, <2>2, <2>4
    <3>2. m \in parts <=> \E v \in versions : m <= v
      BY <1>2 DEF OldDatabase
    <3> QED
      BY <2>1, <2>4, <3>1, <3>2
  <2> QED
    BY <2>3, <2>4
<1>5. \A q \in Processes : pc'[q] = "migrating" => \E v \in versions' : at'[q] <= v + 1
  BY <1>1, <1>2 DEF OldDatabase, TypeOK, Migrations, Current
<1>6. OldDatabase'
  BY <1>2, <1>4, <1>5 DEF OldDatabase, TypeOK
<1>7. Placed'
  BY <1>1 DEF Placed, TypeOK, Migrations, Current
<1> QED
  BY <1>2, <1>3, <1>6, <1>7 DEF NewDatabase, RefusalMeansProgress

\* A refusal keeps the invariant: in the database of an older release a migration
\* throws only because its column or its version is there already.
LEMMA RefuseKeeps ==
    ASSUME IInv, NEW p \in Processes, Refuse(p) PROVE IInv'
<1> USE DEF IInv, Refuse, Goto, dbVars
<1>1. TypeOK'
  BY DEF TypeOK, Current
<1>2. OldDatabase' /\ NewDatabase' /\ Placed'
  BY DEF OldDatabase, NewDatabase, Placed, TypeOK, Made
<1>3. ~created => Overtaken(p)
  BY Altered DEF Placed, OldDatabase, Applies, Overtaken, AllTables, Migrations, Current
<1> QED
  BY <1>1, <1>2, <1>3 DEF RefusalMeansProgress

\* So do the others.
LEMMA StepIInv == IInv /\ [Next]_vars => IInv'
<1> SUFFICES ASSUME IInv, [Next]_vars PROVE IInv'
  OBVIOUS
<1>1. ASSUME NEW p \in Processes, CheckAbsent(p) \/ CheckPresent(p) \/ Leave(p) PROVE IInv'
  <2> USE <1>1 DEF CheckAbsent, CheckPresent, Leave, Goto, dbVars, IInv
  <2>1. TypeOK'
    <3>1. pc' \in [Processes -> {"out", "checked", "making", "recording", "reading",
                                "migrating", "open"}]
      BY DEF TypeOK
    <3>2. at' \in [Processes -> 0..Current + 1]
      BY DEF TypeOK, Current
    <3> QED
      BY <3>1, <3>2 DEF TypeOK
  <2>2. OldDatabase'
    BY DEF OldDatabase, TypeOK
  <2>3. NewDatabase'
    BY ZenonT(30) DEF NewDatabase, TypeOK, Made
  <2> QED
    BY <2>1, <2>2, <2>3 DEF Placed, RefusalMeansProgress, TypeOK
<1>2. ASSUME NEW p \in Processes, CreateFile(p) PROVE IInv'
  <2> USE <1>2 DEF CreateFile, Goto, IInv
  <2>1. TypeOK'
    BY DEF TypeOK, Current
  <2>2. OldDatabase'
    BY DEF OldDatabase, TypeOK
  <2>3. NewDatabase'
    BY DEF NewDatabase, TypeOK, Made, Statements
  <2> QED
    BY <2>1, <2>2, <2>3 DEF Placed, RefusalMeansProgress, TypeOK
<1>3. ASSUME NEW p \in Processes, ExecSchema(p) PROVE IInv'
  BY <1>3, ExecSchemaKeeps
<1>4. ASSUME NEW p \in Processes, RecordCurrent(p) PROVE IInv'
  <2> USE <1>4 DEF RecordCurrent, Goto, IInv
  <2>1. TypeOK'
    BY DEF TypeOK, Current
  <2>2. OldDatabase'
    BY DEF OldDatabase
  <2>3. NewDatabase'
    BY DEF NewDatabase, OldDatabase, TypeOK, Made
  <2> QED
    BY <2>1, <2>2, <2>3 DEF Placed, RefusalMeansProgress, TypeOK
<1>5. ASSUME NEW p \in Processes, ReadVersion(p) PROVE IInv'
  <2> USE <1>5 DEF ReadVersion, Goto, dbVars, IInv
  <2>1. PICK v \in versions \cup {0} :
           /\ \A w \in versions : w <= v
           /\ at' = [at EXCEPT ![p] = IF v = 0 THEN 2 ELSE v + 1]
           /\ pc' = [pc EXCEPT ![p] = IF v < Current THEN "migrating" ELSE "open"]
    OBVIOUS
  <2>2. v \in 0..Current
    BY DEF TypeOK, Current
  <2>3. TypeOK'
    BY <2>1, <2>2 DEF TypeOK, Current
  <2>4. OldDatabase'
    BY <2>1, <2>2 DEF OldDatabase, TypeOK, Current
  <2>5. NewDatabase'
    BY <2>1, <2>2 DEF NewDatabase, TypeOK, Made, Current
  <2>6. Placed'
    BY <2>1, <2>2 DEF Placed, TypeOK, Current, Migrations
  <2> QED
    BY <2>3, <2>4, <2>5, <2>6 DEF RefusalMeansProgress
<1>6. ASSUME NEW p \in Processes, Migrate(p) PROVE IInv'
  BY <1>6, MigrateKeeps
<1>7. ASSUME NEW p \in Processes, Refuse(p) PROVE IInv'
  BY <1>7, RefuseKeeps
<1>8. CASE UNCHANGED vars
  BY <1>8 DEF vars, dbVars, IInv, TypeOK, OldDatabase, NewDatabase, Placed,
     RefusalMeansProgress, Made
<1> QED
  BY <1>1, <1>2, <1>3, <1>4, <1>5, <1>6, <1>7, <1>8 DEF Next

\* The inductive invariant implies what is recorded of the schema.
LEMMA IInvSchema == IInv => SchemaIsAsRecorded
<1> SUFFICES ASSUME IInv PROVE SchemaIsAsRecorded
  OBVIOUS
<1>1. Current \in versions => parts = Migrations /\ tables = AllTables
  <2>1. CASE created
    BY <2>1, AllMadeIsCurrent DEF IInv, NewDatabase
  <2>2. CASE ~created
    <3>1. \A m \in Migrations : m <= Current
      BY DEF Migrations, Current
    <3>2. Current \in versions => Migrations \subseteq parts
      BY <2>2, <3>1 DEF IInv, OldDatabase
    <3> QED
      BY <2>2, <3>2 DEF IInv, OldDatabase, TypeOK
  <2> QED
    BY <2>1, <2>2
<1> QED
  BY <1>1 DEF IInv, OldDatabase, Placed, SchemaIsAsRecorded

-----------------------------------------------------------------------------
\* For any number of processes that create, open and migrate the database and
\* die at any statement, what is recorded of the schema is there, and whoever has
\* the database open has the current one.
THEOREM SchemaCorrect == Spec => []SchemaIsAsRecorded
<1>1. Init => IInv
  BY InitIInv
<1>2. IInv /\ [Next]_vars => IInv'
  BY StepIInv
<1>3. IInv => SchemaIsAsRecorded
  BY IInvSchema
<1> QED
  BY <1>1, <1>2, <1>3, PTL DEF Spec

\* For any number of processes, a migration of an older release's database throws
\* only when another process has recorded it.
THEOREM AttemptsProgress == Spec => []RefusalMeansProgress
<1>1. IInv => RefusalMeansProgress
  BY DEF IInv
<1> QED
  BY <1>1, InitIInv, StepIInv, PTL DEF Spec

=============================================================================
