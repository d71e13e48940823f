------------------------------- MODULE WalValve -------------------------------
(***************************************************************************)
(* The checkpoint valve that bounds the write-ahead log of a bulk index    *)
(* (src/db/wal-valve.ts), over the log itself, which is SQLite's.          *)
(*                                                                         *)
(* A commit appends one frame, or, when every frame is backfilled, starts  *)
(* the log again at the top of a file that never shrinks.  A PASSIVE       *)
(* checkpoint runs on a thread of its own and backfills the frames of the  *)
(* snapshot it took when it began; that snapshot is also the "log" of the  *)
(* row it returns, whatever was appended since.                            *)
(***************************************************************************)
EXTENDS Naturals

CONSTANTS
    OldFrames,             \* what the log holds when the valve is made
    Soft,                  \* softBytes, in frames; the hard cap is twice that
    MaxPasses              \* MAX_PAUSED_BACKFILL_PASSES

ASSUME WalValveAssumption ==
    OldFrames \in Nat /\ Soft \in Nat /\ MaxPasses \in Nat \ {0}

Hard == 2 * Soft           \* HARD_CAP_MULTIPLIER

VARIABLES
    frames,       \* frames of the log since it was last started
    copied,       \* of these, the backfilled ones
    size,         \* size of the file
    baseline,     \* sizeAtLastFullBackfill
    timer,        \* the valve polls
    inflight,     \* "none", or who awaits the checkpoint: "fire" or "pause"
    snapshot,     \* the frames the checkpoint saw when it began
    row,          \* what it returned: "none" yet, "full", "part" or "null"
    pause,        \* backfillFully is running
    passes,       \* its passes so far
    gaveUp        \* the last one ended otherwise than by a full backfill

logVars == <<frames, copied, size>>
passVars == <<inflight, snapshot, row>>
pauseVars == <<pause, passes, gaveUp>>
valveVars == <<logVars, baseline, timer, passVars, pauseVars>>

Larger(m, n) == IF m < n THEN n ELSE m

ValveInit ==
    /\ frames = OldFrames /\ copied = 0 /\ size = OldFrames /\ baseline = 0
    /\ timer = FALSE /\ inflight = "none" /\ snapshot = 0 /\ row = "none"
    /\ pause = FALSE /\ passes = 0 /\ gaveUp = FALSE

Backlog == frames - copied
Growth == size - baseline

-----------------------------------------------------------------------------
(* The log.                                                                 *)

\* A transaction of any connection.  A checkpoint that is running when the
\* log starts again has nothing left to copy.
Commit ==
    /\ IF copied = frames
       THEN frames' = 1 /\ copied' = 0 /\ snapshot' = 0
       ELSE frames' = frames + 1 /\ UNCHANGED <<copied, snapshot>>
    /\ size' = Larger(size, frames')
    /\ UNCHANGED <<baseline, timer, inflight, row, pauseVars>>

Begin(who) ==
    /\ inflight' = who /\ snapshot' = frames /\ row' = "none"

\* The checkpoint ends; a reader may have kept it from the last frame.
CheckpointEnds(result) ==
    /\ inflight # "none" /\ row = "none"
    /\ row' = result
    /\ copied' = CASE result = "full" -> Larger(copied, snapshot)
                   [] result = "part" /\ snapshot > copied -> snapshot - 1
                   [] OTHER -> copied
    /\ result = "part" => snapshot > copied
    /\ UNCHANGED <<frames, size, baseline, timer, inflight, snapshot, pauseVars>>

-----------------------------------------------------------------------------
(* The valve.                                                               *)

\* check(), on the timer
Check ==
    /\ timer /\ ~pause /\ inflight = "none" /\ Growth > Soft
    /\ Begin("fire")
    /\ UNCHANGED <<logVars, baseline, timer, pauseVars>>

Rebase == baseline' = IF row = "full" THEN size ELSE baseline

\* The checkpoint that check() fired is answered.
Fired ==
    /\ inflight = "fire" /\ row # "none"
    /\ Rebase
    /\ inflight' = "none" /\ row' = "none" /\ snapshot' = 0
    /\ UNCHANGED <<logVars, timer, pauseVars>>

\* backfillFully(), from backpressure() or foldNow()
Pause ==
    /\ pause' = TRUE /\ passes' = 0
    /\ UNCHANGED <<logVars, baseline, timer, passVars, gaveUp>>

NextPass ==
    /\ pause /\ inflight = "none"
    /\ passes' = passes + 1
    /\ Begin("pause")
    /\ UNCHANGED <<logVars, baseline, timer, pause, gaveUp>>

PassAnswered ==
    /\ pause /\ inflight = "pause" /\ row # "none"
    /\ Rebase
    /\ inflight' = "none" /\ row' = "none" /\ snapshot' = 0
    /\ IF row = "part" /\ passes < MaxPasses
       THEN UNCHANGED pauseVars
       ELSE pause' = FALSE /\ passes' = 0 /\ gaveUp' = (row # "full")
    /\ UNCHANGED <<logVars, timer>>

Idle == ~pause /\ inflight = "none"        \* what drain() awaits

=============================================================================
