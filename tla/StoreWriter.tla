----------------------------- MODULE StoreWriter -----------------------------
(***************************************************************************)
(* The store writer of a fresh index: its client on the main thread        *)
(* (src/extraction/store-writer.ts) and the worker thread that owns a      *)
(* second connection to the database (src/extraction/store-worker.ts).     *)
(*                                                                         *)
(* Messages to the worker form a queue, and so do its answers.  When the   *)
(* thread dies its 'error' event may overtake answers that are still       *)
(* queued, but Node delivers both before the 'exit' event.  A bundle is    *)
(* the number of its file.                                                 *)
(***************************************************************************)
EXTENDS Naturals, Sequences

CONSTANT Window          \* STORE_WRITER_WINDOW: bundles sent and not settled

ASSUME StoreWriterAssumption == Window \in Nat \ {0}

VARIABLES
    thread,       \* the worker: "none", "running", "died", "stopped" or "exited" (seen)
    errored,      \* its 'error' event is under way
    connected,    \* the worker has opened the database
    inbox,        \* messages the worker has not handled
    answers,      \* messages to the main thread, not handled
    stored,       \* bundles the database holds, in the order of insertion
    firstError,
    outstanding,
    below,        \* belowWaiters: the caller awaits waitBelow
    drained,      \* the caller's drain(): "none", "waiting", "resolved", "rejected"
    closing       \* close() was called and awaits the exit

writerVars == <<thread, errored, connected, inbox, answers, stored,
                firstError, outstanding, below, drained, closing>>

Open == [type |-> "open"]
Bundle(f) == [type |-> "bundle", file |-> f]
Drain == [type |-> "drain"]
Close == [type |-> "close"]

WriterInit ==
    /\ thread = "none" /\ errored = FALSE /\ connected = FALSE
    /\ inbox = <<>> /\ answers = <<>> /\ stored = <<>>
    /\ firstError = FALSE /\ outstanding = 0
    /\ below = FALSE /\ drained = "none" /\ closing = FALSE

-----------------------------------------------------------------------------
(* What the caller does.                                                    *)

\* new StoreWriter(...)
Start ==
    /\ thread' = "running" /\ inbox' = <<Open>>
    /\ UNCHANGED <<errored, connected, answers, stored, firstError, outstanding,
                   below, drained, closing>>

Refused == firstError \/ thread = "exited"

\* send(bundle), then waitBelow(Window)
Send(f) ==
    /\ ~Refused
    /\ outstanding' = outstanding + 1
    /\ inbox' = Append(inbox, Bundle(f))
    /\ below' = (outstanding' >= Window)
    /\ UNCHANGED <<thread, errored, connected, answers, stored, firstError,
                   drained, closing>>

AskDrain ==
    /\ IF Refused THEN drained' = "rejected" /\ UNCHANGED inbox
                  ELSE drained' = "waiting" /\ inbox' = Append(inbox, Drain)
    /\ UNCHANGED <<thread, errored, connected, answers, stored, firstError,
                   outstanding, below, closing>>

AskClose ==
    /\ IF thread = "exited" THEN UNCHANGED <<inbox, closing>>
                            ELSE inbox' = Append(inbox, Close) /\ closing' = TRUE
    /\ UNCHANGED <<thread, errored, connected, answers, stored, firstError,
                   outstanding, below, drained>>

\* The five seconds that close() waits are over.
Terminate ==
    /\ closing /\ thread = "running"
    /\ thread' = "died" /\ inbox' = <<>>
    /\ UNCHANGED <<errored, connected, answers, stored, firstError, outstanding,
                   below, drained, closing>>

-----------------------------------------------------------------------------
(* The worker handles one message; ok says whether SQLite did what it asks. *)

Reply(type) == answers' = Append(answers, type)

HandleOpen(ok) ==
    /\ Head(inbox).type = "open"
    /\ connected' = ok
    /\ Reply(IF ok THEN "ready" ELSE "error")
    /\ UNCHANGED <<stored, thread>>

HandleBundle(ok) ==
    /\ Head(inbox).type = "bundle"
    /\ ok => connected
    /\ stored' = IF ok THEN Append(stored, Head(inbox).file) ELSE stored
    /\ Reply(IF ok THEN "ack" ELSE "error")
    /\ UNCHANGED <<connected, thread>>

HandleDrain ==
    /\ Head(inbox).type = "drain"
    /\ Reply("drained")
    /\ UNCHANGED <<connected, stored, thread>>

\* process.exit(0)
HandleClose ==
    /\ Head(inbox).type = "close"
    /\ thread' = "stopped"
    /\ UNCHANGED <<connected, stored, answers>>

WorkerStep(ok) ==
    /\ thread = "running" /\ inbox # <<>>
    /\ \/ HandleOpen(ok) \/ HandleBundle(ok)
       \/ ok /\ (HandleDrain \/ HandleClose)
    /\ inbox' = Tail(inbox)
    /\ UNCHANGED <<errored, firstError, outstanding, below, drained, closing>>

\* The thread runs out of memory, or throws outside of the handler.
WorkerDies ==
    /\ thread = "running"
    /\ thread' = "died" /\ errored' = TRUE /\ inbox' = <<>>
    /\ UNCHANGED <<connected, answers, stored, firstError, outstanding, below,
                   drained, closing>>

-----------------------------------------------------------------------------
(* What the client does on the events of the worker.                        *)

\* Mutant: a caller that waits for room is not woken.
FailAllKeepsWaiters ==
    /\ firstError' = TRUE /\ outstanding' = 0 /\ below' = below
    /\ drained' = IF drained = "waiting" THEN "rejected" ELSE drained

SettleOne ==
    /\ outstanding' = IF outstanding > 0 THEN outstanding - 1 ELSE 0
    /\ below' = (below /\ outstanding' >= Window)

\* Mutant: a drain that comes back has drained.
OnAnswerTrustsDrain ==
    /\ answers # <<>>
    /\ answers' = Tail(answers)
    /\ \/ /\ Head(answers) = "ready"
          /\ UNCHANGED <<firstError, outstanding, below, drained>>
       \/ /\ Head(answers) = "ack" /\ SettleOne
          /\ UNCHANGED <<firstError, drained>>
       \/ /\ Head(answers) = "error" /\ SettleOne
          /\ firstError' = TRUE
          /\ UNCHANGED drained
       \/ /\ Head(answers) = "drained"
          /\ drained' = IF drained = "waiting" THEN "resolved" ELSE drained
          /\ UNCHANGED <<firstError, outstanding, below>>
    /\ UNCHANGED <<thread, errored, connected, inbox, stored, closing>>

FailAll ==
    /\ firstError' = TRUE /\ outstanding' = 0 /\ below' = FALSE
    /\ drained' = IF drained = "waiting" THEN "rejected" ELSE drained

OnAnswer ==
    /\ answers # <<>>
    /\ answers' = Tail(answers)
    /\ \/ /\ Head(answers) = "ready"
          /\ UNCHANGED <<firstError, outstanding, below, drained>>
       \/ /\ Head(answers) = "ack" /\ SettleOne
          /\ UNCHANGED <<firstError, drained>>
       \/ /\ Head(answers) = "error" /\ SettleOne
          /\ firstError' = TRUE
          /\ UNCHANGED drained
       \/ /\ Head(answers) = "drained"
          /\ drained' = CASE drained # "waiting" -> drained
                          [] firstError -> "rejected"
                          [] OTHER -> "resolved"
          /\ UNCHANGED <<firstError, outstanding, below>>
    /\ UNCHANGED <<thread, errored, connected, inbox, stored, closing>>

OnError ==
    /\ errored
    /\ errored' = FALSE
    /\ FailAll
    /\ UNCHANGED <<thread, connected, inbox, answers, stored, closing>>

\* An exit with code 0 is a failure only for a caller that waits.
OnExit ==
    /\ thread \in {"died", "stopped"} /\ answers = <<>> /\ ~errored
    /\ thread' = "exited" /\ closing' = FALSE
    /\ IF thread = "died" \/ drained = "waiting" \/ below
       THEN FailAll
       ELSE UNCHANGED <<firstError, outstanding, below, drained>>
    /\ UNCHANGED <<errored, connected, inbox, answers, stored>>

ClientStep == OnAnswer \/ OnError \/ OnExit

=============================================================================
