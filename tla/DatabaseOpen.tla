----------------------------- MODULE DatabaseOpen -----------------------------
(***************************************************************************)
(* How the database of a project comes to have the current schema: it is   *)
(* created by `codegraph init` (CodeGraph.init, createDirectory and        *)
(* DatabaseConnection.initialize) or it was left by an older release and   *)
(* is migrated by whoever opens it (DatabaseConnection.open, with          *)
(* src/db/migrations.ts).  The CLI, daemons, proxies and git hooks do both *)
(* at any time, under no lock but SQLite's, and may die at any statement.  *)
(*                                                                         *)
(* What a migration adds to the schema is its number; `initialize` creates *)
(* the same parts statement by statement, each a transaction of its own.   *)
(* The repair of bulk windows that ends an open is IndexRun's.             *)
(***************************************************************************)
EXTENDS Naturals

CONSTANT Processes

Current == 8                        \* CURRENT_SCHEMA_VERSION
Migrations == 2..Current
AddsColumns == {2, 5, 6}            \* ALTER TABLE ... ADD COLUMN, unguarded

\* The tables that the statements of a migration need.
Alters == [m \in Migrations |->
    CASE m \in {3, 5, 6} -> {"nodes"} [] m = 7 -> {"edges"}
      [] m = 2 -> {"edges", "refs"}   [] m = 8 -> {"refs"} [] m = 4 -> {}]

\* schema.sql, in its order: the versions table, its first row, the tables and
\* the indexes, with the parts of the migrations that each makes needless.
Statements == 1..6
Tables == [s \in Statements |->
    CASE s = 1 -> {"versions"} [] s = 3 -> {"nodes"} [] s = 4 -> {"edges"}
      [] s = 5 -> {"refs"} [] s \in {2, 6} -> {}]
Parts == [s \in Statements |->
    CASE s = 3 -> {5, 6} [] s = 4 -> {4} [] s = 5 -> {2, 8} [] s = 6 -> {3, 7}
      [] s \in {1, 2} -> {}]

AllTables == {"versions", "nodes", "edges", "refs"}

VARIABLES
    file,         \* codegraph.db exists
    tables, parts,
    versions,     \* rows of schema_versions
    created,      \* by `initialize`, not by an older release
    pc,           \* per process: "out", "checked", "making", "recording",
                  \* "reading", "migrating", "open"
    at,           \* the statement or the migration that comes next
    refused       \* history: an opening was refused although nobody had overtaken
                  \* it, over a "half" or a "whole" current schema

dbVars == <<file, tables, parts, versions>>
vars == <<dbVars, created, pc, at, refused>>

TypeOK ==
    /\ file \in BOOLEAN /\ created \in BOOLEAN
    /\ tables \subseteq AllTables /\ parts \subseteq Migrations /\ versions \subseteq 1..Current
    /\ pc \in [Processes -> {"out", "checked", "making", "recording", "reading",
                             "migrating", "open"}]
    /\ at \in [Processes -> 0..Current + 1]
    /\ refused \subseteq {"half", "whole"}

\* No database, or one that release `by` made and release `upTo` opened last.
Init ==
    /\ \/ /\ file = FALSE /\ created = TRUE
          /\ tables = {} /\ parts = {} /\ versions = {}
       \/ \E upTo \in 1..Current : \E by \in 1..upTo :
            /\ file = TRUE /\ created = FALSE
            /\ tables = AllTables /\ parts = 2..upTo /\ versions = {1} \cup by..upTo
    /\ pc = [p \in Processes |-> "out"] /\ at = [p \in Processes |-> 0]
    /\ refused = {}

Goto(p, label) == pc' = [pc EXCEPT ![p] = label]

-----------------------------------------------------------------------------
(* Creation.                                                                *)

\* init() and createDirectory() find no database.
CheckAbsent(p) ==
    /\ pc[p] = "out" /\ ~file
    /\ Goto(p, "checked")
    /\ UNCHANGED <<dbVars, created, at, refused>>

CreateFile(p) ==
    /\ pc[p] = "checked"
    /\ file' = TRUE
    /\ Goto(p, "making") /\ at' = [at EXCEPT ![p] = 1]
    /\ UNCHANGED <<tables, parts, versions, created, refused>>

\* One statement of schema.sql.  Tables and indexes that exist are left alone; the
\* first row of the versions is inserted without looking.
ExecSchema(p) ==
    /\ pc[p] = "making"
    /\ \/ /\ at[p] = 2 /\ 1 \in versions
          /\ Goto(p, "out") /\ at' = [at EXCEPT ![p] = 0]
          /\ UNCHANGED <<tables, parts, versions>>
       \/ /\ ~(at[p] = 2 /\ 1 \in versions)
          /\ tables' = tables \cup Tables[at[p]]
          /\ parts' = parts \cup Parts[at[p]]
          /\ versions' = IF at[p] = 2 THEN versions \cup {1} ELSE versions
          /\ at' = [at EXCEPT ![p] = @ + 1]
          /\ Goto(p, IF at[p] = 6 THEN "recording" ELSE "making")
    /\ UNCHANGED <<file, created, refused>>

\* Mutant: the version is recorded with the first row.
RecordCurrentEarly(p) ==
    /\ \/ pc[p] = "recording" /\ Goto(p, "open") /\ UNCHANGED versions
       \/ /\ pc[p] = "making" /\ at[p] = 3 /\ Current \notin versions
          /\ versions' = versions \cup {Current} /\ UNCHANGED pc
    /\ UNCHANGED <<file, tables, parts, created, at, refused>>

\* INSERT OR IGNORE of the current version, unless it is there.
RecordCurrent(p) ==
    /\ pc[p] = "recording"
    /\ versions' = versions \cup {Current}
    /\ Goto(p, "open")
    /\ UNCHANGED <<file, tables, parts, created, at, refused>>

-----------------------------------------------------------------------------
(* Opening.                                                                 *)

\* isInitialized() finds the file.
CheckPresent(p) ==
    /\ pc[p] = "out" /\ file
    /\ Goto(p, "reading")
    /\ UNCHANGED <<dbVars, created, at, refused>>

\* getCurrentVersion(): the greatest version, or 0.
ReadVersion(p) ==
    /\ pc[p] = "reading"
    /\ \E v \in versions \cup {0} :
         /\ \A w \in versions : w <= v
         /\ at' = [at EXCEPT ![p] = IF v = 0 THEN 2 ELSE v + 1]
         /\ Goto(p, IF v < Current THEN "migrating" ELSE "open")
    /\ UNCHANGED <<dbVars, created, refused>>

\* Would up() and recordMigration() of m succeed?
Applies(m) ==
    /\ Alters[m] \subseteq tables /\ "versions" \in tables
    /\ m \in AddsColumns => m \notin parts
    /\ m \notin versions

\* Mutant: the versions are recorded when all migrations are done.
MigrateRecordsLast(p) ==
    /\ pc[p] = "migrating" /\ Applies(at[p])
    /\ parts' = parts \cup {at[p]}
    /\ versions' = IF at[p] = Current THEN versions \cup 2..Current ELSE versions
    /\ at' = [at EXCEPT ![p] = @ + 1]
    /\ Goto(p, IF at[p] = Current THEN "open" ELSE "migrating")
    /\ UNCHANGED <<file, tables, created, refused>>

\* The transaction of one migration.
Migrate(p) ==
    /\ pc[p] = "migrating" /\ Applies(at[p])
    /\ parts' = parts \cup {at[p]} /\ versions' = versions \cup {at[p]}
    /\ at' = [at EXCEPT ![p] = @ + 1]
    /\ Goto(p, IF at[p] = Current THEN "open" ELSE "migrating")
    /\ UNCHANGED <<file, tables, created, refused>>

\* Another process has recorded this migration.
Overtaken(p) == \E v \in versions : v >= at[p]

\* It throws, is rolled back, and open() throws with it.
Refuse(p) ==
    /\ pc[p] = "migrating" /\ ~Applies(at[p])
    /\ refused' = IF Overtaken(p) THEN refused
                  ELSE refused \cup {IF parts = Migrations THEN "whole" ELSE "half"}
    /\ Goto(p, "out") /\ at' = [at EXCEPT ![p] = 0]
    /\ UNCHANGED <<dbVars, created>>

-----------------------------------------------------------------------------

\* The process closes the database or dies, or a statement throws for another
\* reason: SQLite is busy for five seconds, or the disk is full.
Leave(p) ==
    /\ pc[p] # "out"
    /\ Goto(p, "out") /\ at' = [at EXCEPT ![p] = 0]
    /\ UNCHANGED <<dbVars, created, refused>>

Next == \E p \in Processes :
    \/ CheckAbsent(p) \/ CreateFile(p) \/ ExecSchema(p) \/ RecordCurrent(p)
    \/ CheckPresent(p) \/ ReadVersion(p) \/ Migrate(p) \/ Refuse(p) \/ Leave(p)

Spec == Init /\ [][Next]_vars

-----------------------------------------------------------------------------
(* Properties.                                                              *)

\* A version is recorded only when the schema has all that belongs to it, and in
\* the database of an older release the schema has no more than is recorded: an
\* upgrade that dies leaves a database that the next one can go on with.  So
\* whoever has the database open works on the current schema, whatever other
\* processes created or migrated it meanwhile (migrations.ts:161-178).
SchemaIsAsRecorded ==
    /\ ~created => \A m \in Migrations :
         m \in parts <=> \E v \in versions : m <= v
    /\ Current \in versions => parts = Migrations /\ tables = AllTables
    /\ \A p \in Processes : pc[p] = "open" => Current \in versions

\* When a migration of an older release's database throws, another process has
\* recorded it: attempts that collide do not all fail, and whatever a process
\* that died left behind, the next one goes on with it.
RefusalMeansProgress == ~created => refused = {}

\* "A database initialized from the current schema can still have an older
\* recorded version" (migrations.ts:112-114): when `initialize` dies before it has
\* recorded the version, the database is refused from then on.
OlderRecordIsTolerated == "whole" \notin refused

=============================================================================
