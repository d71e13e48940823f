-------------------------------- MODULE Engine --------------------------------
(***************************************************************************)
(* The engine that the sessions of one MCP server process share            *)
(* (src/mcp/engine.ts), with the sessions' lazy initialisation             *)
(* (src/mcp/session.ts) and the gate that holds tool calls back while the  *)
(* index catches up (class ToolHandler, src/mcp/tools.ts).                 *)
(*                                                                         *)
(* One project is served.  What interleaves on the event loop are the      *)
(* awaits: of the project's opening, of the client's roots, of the gate,   *)
(* and of the catch-up sync, which shares the write lock with the watcher  *)
(* and with other processes.  Instances of CodeGraph are numbered in the   *)
(* order they are opened; the gate of an instance has its number.          *)
(***************************************************************************)
EXTENDS Naturals, FiniteSets

CONSTANTS
    Sessions,       \* the connections of the daemon; direct mode has one
    ToolCalls       \* their tools/call requests: pairs of a session and a number

MaxOpens == 1 + Cardinality(Sessions) + Cardinality(ToolCalls)
Instances == 1..MaxOpens
None == 0

ASSUME EngineAssumption ==
    /\ IsFiniteSet(Sessions) /\ IsFiniteSet(ToolCalls)
    /\ ToolCalls \subseteq Sessions \X Nat

VARIABLES
    \* sessions
    sessions,     \* those this process has
    greeted,      \* sessions whose initialize was handled
    resolve,      \* resolvePromise: "none" or resolved, "roots", "init"
    rootsAttempted,
    call,         \* per call: "none", "init" (retryInitIfNeeded), "gate", "runs", "answered"
    waits,        \* the gate it awaits
    admitted,     \* calls whose gate let them pass with a notice: catchUpAdmission
    missed,       \* per call whose tool runs: the edits its reads of the index may miss
    \* engine and tool handler
    hint,         \* a project path is known: explicitProjectPath or projectPath
    initPromise,  \* doInitialize awaits CodeGraph.open
    opened,       \* how many instances were opened
    cg,           \* the default instance
    watched,      \* the instance whose watcher runs, None if it is off or failed
    cached,       \* projectCache holds an instance of the same project
    gate,         \* catchUpState; its status, of which the notice speaks, is left out
    released,     \* gates whose release promise is resolved
    \* index and tree
    lock,         \* who holds the write lock: an instance, None, or "other"
    sync,         \* catch-up syncs that have not returned: "holds" or "shut out" of the lock
    behind,       \* edits the index misses: see Edits
    pending,      \* the watcher has an entry of pendingFiles
    \* history
    overtaken,    \* an opening completed when there was a default instance
    blessed,      \* a sync counts as complete that was shut out of the lock or skipped a file
    misled,       \* edits of files shown stale by an answer without a notice
    unwarned      \* an answer named no pending file, and missed an edit of one

sessionVars == <<sessions, greeted, resolve, rootsAttempted>>
callVars == <<call, waits, admitted, missed>>
instanceVars == <<hint, initPromise, opened, cg, watched, cached>>
gateVars == <<gate, released>>
indexVars == <<lock, sync, behind, pending>>
historyVars == <<overtaken, blessed, misled, unwarned>>
engineVars == <<sessionVars, callVars, instanceVars, gateVars, indexVars, historyVars>>

\* Of an edit that the index misses, no record is kept ("untold": it was made
\* while nobody watched, or its file was let go), its event has not arrived and
\* may never ("unheard"), or the watcher has its file pending ("heard").  What a
\* tool read may also be of before a sync ("synced").
Edits == {"untold", "unheard", "heard"}
Missable == Edits \cup {"synced"}

CallStates == {"none", "init", "gate", "runs", "answered"}

EngineTypeOK ==
    /\ sessions \subseteq Sessions /\ greeted \subseteq sessions
    /\ resolve \in [Sessions -> {"none", "roots", "init"}]
    /\ rootsAttempted \subseteq sessions
    /\ call \in [ToolCalls -> CallStates]
    /\ waits \in [ToolCalls -> 0..MaxOpens]
    /\ admitted \subseteq ToolCalls /\ missed \in [ToolCalls -> SUBSET Missable]
    /\ {hint, initPromise, cached, pending} \subseteq BOOLEAN
    /\ opened \in 0..MaxOpens /\ {cg, watched, gate} \subseteq 0..opened
    /\ released \subseteq 1..opened
    /\ lock \in 0..opened \cup {MaxOpens + 1}
    /\ sync \in [Instances -> {"none", "holds", "shut out"}]
    /\ behind \subseteq Edits
    /\ {overtaken, blessed, unwarned} \subseteq BOOLEAN /\ misled \subseteq Missable

Other == MaxOpens + 1     \* another process, as the holder of the lock

\* The daemon starts the initialisation itself, and so does direct mode with a
\* --path; direct mode without one waits for its client.
EngineInit ==
    /\ \E one \in Sessions, daemon \in BOOLEAN : sessions = IF daemon THEN Sessions ELSE {one}
    /\ hint \in {h \in BOOLEAN : h \/ Cardinality(sessions) = 1}
    /\ initPromise \in {p \in BOOLEAN : p => hint}
    /\ greeted = {} /\ resolve = [s \in Sessions |-> "none"] /\ rootsAttempted = {}
    /\ call = [c \in ToolCalls |-> "none"] /\ waits = [c \in ToolCalls |-> None]
    /\ admitted = {} /\ missed = [c \in ToolCalls |-> {}]
    /\ opened = 0 /\ cg = None /\ watched = None /\ cached = FALSE
    /\ gate = None /\ released = {}
    /\ lock = None /\ sync = [i \in Instances |-> "none"]
    /\ behind \in SUBSET {"untold"} /\ pending = FALSE
    /\ overtaken = FALSE /\ blessed = FALSE /\ misled = {} /\ unwarned = FALSE

-----------------------------------------------------------------------------
(* Opening the project                                                      *)

\* Mutant: whoever waits for the gate before it is left there.
SetGateSilently(i) ==
    /\ gate' = i
    /\ UNCHANGED released

\* setCatchUpGate: the gate of instance i replaces the one before it, whose
\* waiters wake up.
SetCatchUpGate(i) ==
    /\ gate' = i
    /\ released' = released \cup ({gate} \ {None})

\* An instance becomes the default one and starts its catch-up sync, which takes
\* the lock or is shut out.  Watching is tried once, with the first instance: it
\* may be unwanted or disabled, and the platform may refuse it.
Opened ==
    LET i == opened + 1 IN
    /\ opened' = i /\ cg' = i
    /\ watched' \in IF opened = 0 THEN {None, i} ELSE {watched}
    /\ SetCatchUpGate(i)
    /\ lock' = IF lock = None THEN i ELSE lock
    /\ sync' = [sync EXCEPT ![i] = IF lock = None THEN "holds" ELSE "shut out"]
    /\ overtaken' = (overtaken \/ cg # None)
    /\ UNCHANGED <<behind, pending, cached, blessed, misled, unwarned>>

NotOpened == UNCHANGED <<opened, cg, watched, cached, gateVars, indexVars, historyVars>>

\* ensureInitialized for session s: nothing to do, join the initialisation under
\* way, or start one, which ends at once when no .codegraph/ is found.
EnsureInitialized(s) ==
    \/ /\ cg # None
       /\ resolve' = [resolve EXCEPT ![s] = "none"]
       /\ UNCHANGED <<hint, initPromise>>
    \/ /\ cg = None /\ initPromise
       /\ resolve' = [resolve EXCEPT ![s] = "init"]
       /\ UNCHANGED <<hint, initPromise>>
    \/ /\ cg = None /\ ~initPromise
       /\ hint' = TRUE
       /\ initPromise' \in BOOLEAN
       /\ resolve' = [resolve EXCEPT ![s] = IF initPromise' THEN "init" ELSE "none"]

\* The rest of doInitialize: the project was opened, or opening it failed.
DoInitialize ==
    /\ initPromise
    /\ initPromise' = FALSE
    /\ resolve' = [s \in Sessions |-> IF resolve[s] = "init" THEN "none" ELSE resolve[s]]
    /\ Opened \/ NotOpened
    /\ UNCHANGED <<sessions, greeted, rootsAttempted, callVars, hint>>

-----------------------------------------------------------------------------
(* Sessions                                                                 *)

\* handleInitialize; a daemon's session has an explicit path, that of direct
\* mode may have none.
HandleInitialize(s) ==
    /\ s \in sessions \ greeted
    /\ greeted' = greeted \cup {s}
    /\ \/ EnsureInitialized(s)
       \/ /\ Cardinality(sessions) = 1
          /\ UNCHANGED <<resolve, hint, initPromise>>
    /\ UNCHANGED <<sessions, rootsAttempted, callVars, opened, cg, watched, cached,
                   gateVars, indexVars, historyVars>>

\* The client answers roots/list, or five seconds pass.
RootsAnswered(s) ==
    /\ resolve[s] = "roots"
    /\ EnsureInitialized(s)
    /\ UNCHANGED <<sessions, greeted, rootsAttempted, callVars, opened, cg, watched, cached,
                   gateVars, indexVars, historyVars>>

HandleToolsCall(c) ==
    /\ c[1] \in greeted /\ call[c] = "none"
    /\ call' = [call EXCEPT ![c] = "init"]
    /\ UNCHANGED <<sessionVars, waits, admitted, missed, instanceVars, gateVars, indexVars,
                   historyVars>>

\* retryInitializeSync: no instance is there, and one is opened, or not.
RetryInitializeSync == Opened \/ NotOpened

\* The call asks for the gate: awaitCatchUpBudget.
ToGate(c) ==
    /\ call' = [call EXCEPT ![c] = "gate"]
    /\ waits' = [waits EXCEPT ![c] = gate']
    /\ UNCHANGED <<admitted, missed>>

\* retryInitIfNeeded, resumed by a call whose resolvePromise is settled.
RetryInitIfNeeded(c) ==
    LET s == c[1] IN
    /\ call[c] = "init" /\ resolve[s] = "none"
    /\ UNCHANGED <<sessions, greeted>>
    /\ \/ /\ cg # None
          /\ NotOpened /\ ToGate(c)
          /\ UNCHANGED <<resolve, rootsAttempted, hint, initPromise>>
       \/ /\ cg = None /\ ~hint /\ s \notin rootsAttempted
          /\ rootsAttempted' = rootsAttempted \cup {s}
          /\ \/ resolve' = [resolve EXCEPT ![s] = "roots"] /\ UNCHANGED <<hint, initPromise>>
             \/ EnsureInitialized(s)
          /\ NotOpened /\ UNCHANGED callVars
       \/ /\ cg = None /\ (hint \/ s \in rootsAttempted)
          /\ RetryInitializeSync /\ ToGate(c)
          /\ UNCHANGED <<resolve, rootsAttempted, hint, initPromise>>

-----------------------------------------------------------------------------
(* The gate and the answers                                                 *)

\* The interaction budget of the gate expires.
BudgetExpires ==
    /\ gate # None /\ gate \notin released
    /\ released' = released \cup {gate}
    /\ UNCHANGED <<sessionVars, callVars, instanceVars, gate, indexVars, historyVars>>

Awake(c) == call[c] = "gate" /\ (waits[c] = None \/ waits[c] \in released)

\* A newer gate has replaced the one the call awaited.
AwaitNextGate(c) ==
    /\ Awake(c) /\ gate \notin {None, waits[c]}
    /\ waits' = [waits EXCEPT ![c] = gate]
    /\ UNCHANGED <<sessionVars, call, admitted, missed, instanceVars, gateVars, indexVars,
                   historyVars>>

\* The gate lets the call pass and its tool starts to read the index; without a
\* default instance there is only a project that the call itself names by path,
\* opened into the cache, or an error.
RunTool(c) ==
    /\ Awake(c) /\ gate \in {None, waits[c]}
    /\ IF cg = None
       THEN /\ call' = [call EXCEPT ![c] = "answered"]
            /\ \E opens \in BOOLEAN : cached' = (cached \/ opens)
            /\ UNCHANGED <<admitted, missed>>
       ELSE /\ call' = [call EXCEPT ![c] = "runs"]
            /\ admitted' = IF gate = None THEN admitted ELSE admitted \cup {c}
            /\ missed' = [missed EXCEPT ![c] = behind]
            /\ UNCHANGED cached
    /\ UNCHANGED <<sessionVars, waits, hint, initPromise, opened, cg, watched, gateVars,
                   indexVars, historyVars>>

\* Mutant: pending files are looked for with the instance that answered.
NoticedByItself(e, admission, instance) ==
    admission \/ (e = "heard" /\ pending /\ watched = instance)

\* Does an answer with the file of edit e in it carry a notice?  The gate's
\* notice speaks of everything; a pending file is looked for when the tool is
\* done, with the default instance, also when another instance of its project
\* answered.
Noticed(e, admission, instance) ==
    admission \/ (e = "heard" /\ pending /\ watched = cg)

\* The tool is done: it read from the default instance, or, when the call names
\* the project by its path, from a cached one if that was opened first.  Files
\* that the answer does not name get no notice.  An edit whose event has not
\* arrived cannot have one.
Answer(c) ==
    /\ call[c] = "runs"
    /\ call' = [call EXCEPT ![c] = "answered"]
    /\ admitted' = admitted \ {c} /\ missed' = [missed EXCEPT ![c] = {}]
    /\ \E byPath \in {FALSE, cached}, named \in SUBSET missed[c] :
         LET instance == IF byPath THEN None ELSE cg
             unmarked == {e \in missed[c] \ {"unheard"} : ~Noticed(e, c \in admitted, instance)}
         IN /\ misled' = misled \cup (named \cap unmarked)
            /\ unwarned' = (unwarned \/ ("heard" \in missed[c] \ named /\ c \notin admitted))
    /\ UNCHANGED <<sessionVars, waits, instanceVars, gateVars, indexVars, overtaken, blessed>>

-----------------------------------------------------------------------------
(* Syncs                                                                    *)

Free(i) == lock' = IF lock = i THEN None ELSE lock

\* The promise of the sync of instance i is resolved.
Complete(i) ==
    /\ released' = released \cup {i}
    /\ gate' = IF gate = i THEN None ELSE gate

\* It is rejected: SyncIncompleteError, or another error.
Fail(i) ==
    /\ released' = released \cup {i}
    /\ UNCHANGED gate

\* The sync indexed what was edited before it began, and perhaps more; when
\* nobody watches, edits it came too early for stay untold.  A file that it
\* cannot read it skips, and counts as complete.
CatchUpDone(i) ==
    /\ sync[i] = "holds"
    /\ sync' = [sync EXCEPT ![i] = "none"] /\ Free(i)
    /\ behind' \in SUBSET behind
    /\ \/ ("untold" \in behind' => watched = None) /\ Complete(i) /\ UNCHANGED blessed
       \/ "untold" \in behind' /\ Complete(i) /\ blessed' = TRUE
       \/ Fail(i) /\ UNCHANGED blessed
    /\ UNCHANGED <<sessionVars, callVars, instanceVars, pending, overtaken, misled, unwarned>>

\* Shut out of the lock, sync() returns zeros, which nobody looks at.
CatchUpSkipped(i) ==
    /\ sync[i] = "shut out"
    /\ sync' = [sync EXCEPT ![i] = "none"]
    /\ Complete(i)
    /\ blessed' = TRUE
    /\ UNCHANGED <<sessionVars, callVars, instanceVars, lock, behind, pending, overtaken,
                   misled, unwarned>>

Running == {c \in ToolCalls : call[c] = "runs"}

\* A file is changed, perhaps after a running tool has read about it.
Edit ==
    LET e == IF watched = None THEN "untold" ELSE "unheard" IN
    /\ behind' = behind \cup {e}
    /\ missed' = [c \in ToolCalls |-> IF c \in Running THEN missed[c] \cup {e} ELSE missed[c]]
    /\ UNCHANGED <<sessionVars, call, waits, admitted, instanceVars, gateVars, lock, sync,
                   pending, historyVars>>

\* What was not heard of is, once the event arrives.
Heard(edits) == IF "unheard" \in edits THEN (edits \ {"unheard"}) \cup {"heard"} ELSE edits

\* The event arrives and the watcher records the file; meanwhile another sync
\* may have indexed it.
Hear ==
    /\ "unheard" \in behind \cup UNION {missed[c] : c \in ToolCalls}
    /\ behind' = Heard(behind)
    /\ missed' = [c \in ToolCalls |-> Heard(missed[c])]
    /\ pending' = TRUE
    /\ UNCHANGED <<sessionVars, call, waits, admitted, instanceVars, gateVars, lock, sync,
                   historyVars>>

\* What was pending no longer is.
Dropped(edits, kind) ==
    IF "heard" \in edits THEN (edits \ {"heard"}) \cup {kind} ELSE edits

\* The watcher syncs its pending files, and drops them; a file that cannot be
\* read is skipped, and let go.
WatcherSyncs ==
    /\ pending /\ lock = None
    /\ pending' = FALSE
    /\ \/ /\ behind' = behind \ {"heard"} /\ UNCHANGED blessed
          /\ missed' = [c \in ToolCalls |-> Dropped(missed[c], "synced")]
       \/ /\ "heard" \in behind
          /\ behind' = Dropped(behind, "untold") /\ blessed' = TRUE
          /\ missed' = [c \in ToolCalls |-> Dropped(missed[c], "untold")]
    /\ UNCHANGED <<sessionVars, call, waits, admitted, instanceVars, gateVars, lock, sync,
                   overtaken, misled, unwarned>>

\* Another process indexes.
OtherLocks ==
    /\ \/ lock = None /\ lock' = Other
       \/ lock = Other /\ lock' = None
    /\ UNCHANGED <<sessionVars, callVars, instanceVars, gateVars, sync, behind, pending, historyVars>>

-----------------------------------------------------------------------------

Server ==
    \/ DoInitialize \/ BudgetExpires
    \/ \E s \in Sessions : HandleInitialize(s) \/ RootsAnswered(s)
    \/ \E c \in ToolCalls : \/ HandleToolsCall(c) \/ RetryInitIfNeeded(c)
                           \/ AwaitNextGate(c) \/ RunTool(c) \/ Answer(c)

Syncs ==
    \/ Edit \/ Hear \/ WatcherSyncs \/ OtherLocks
    \/ \E i \in Instances : CatchUpDone(i) \/ CatchUpSkipped(i)

EngineNext == Server \/ Syncs

\* Opening ends, the client answers or times out, timers fire, a settled promise
\* resumes who awaits it and a tool returns.  A catch-up sync need never return,
\* and an event need never arrive.
EngineFairness ==
    /\ WF_engineVars(DoInitialize) /\ WF_engineVars(BudgetExpires)
    /\ \A s \in Sessions : WF_engineVars(RootsAnswered(s))
    /\ \A c \in ToolCalls : /\ WF_engineVars(RetryInitIfNeeded(c))
                            /\ WF_engineVars(AwaitNextGate(c) \/ RunTool(c))
                            /\ WF_engineVars(Answer(c))

EngineSpec == EngineInit /\ [][EngineNext]_engineVars /\ EngineFairness

-----------------------------------------------------------------------------
(* Properties                                                               *)

\* The watcher was not wanted, is disabled, or could not be started.
Deaf == opened # 0 /\ watched = None

\* An answer of the default project shows no stale file in silence.  While the
\* catch-up sync runs, after its budget, and after it failed, every answer says
\* so, and a pending file that the answer names gets a notice; also when gates
\* replace one another and when calls name the project by its path.  An edit of
\* which there is no record may be shown unmarked when nobody watches and when a
\* sync counts as complete that was shut out of the lock or skipped a file; and
\* either kind when two openings overlapped, since then the watched instance is
\* not the default one.
StaleAnswersAreMarked ==
    /\ "untold" \in misled => blessed \/ overtaken \/ Deaf
    /\ "heard" \in misled => overtaken

\* Every tools/call is answered, although its gate may be replaced while it
\* waits and the sync behind the gate may never return.
EveryCallAnswered == \A c \in ToolCalls : call[c] # "none" ~> call[c] = "answered"

\* What the class comment of MCPEngine says: sessions "never double-open the
\* SQLite file".
NeverDoubleOpen == opened <= 1

\* What the comment of withStalenessNotice says of pending files which the answer
\* does not name: "they do not affect this result".  A pending file may hold a
\* new caller, which the index does not have and the answer does not name.
SilenceIsHarmless == ~unwarned

\* What the same comment says the notice is for: "files referenced in this
\* response".  The response may be of before a sync, and the pending files are
\* looked for after it.
NoticeCoversTheRead == "synced" \notin misled

=============================================================================
