---------------------------- MODULE ParseService ----------------------------
(***************************************************************************)
(* What ParseWorkerPool (src/extraction/parse-pool.ts) promises its        *)
(* callers, whatever its worker threads do: the promise of requestParse is *)
(* settled exactly once, with a result or an error, and none is left       *)
(* unsettled when destroy() returns.                                       *)
(***************************************************************************)
CONSTANT Jobs   \* the calls of requestParse

VARIABLES
    answer,     \* of each call: "none" before it, "waiting", "result" or "error"
    closed      \* destroy() was called

svcVars == <<answer, closed>>

Waiting == {j \in Jobs : answer[j] = "waiting"}

Init ==
    /\ answer = [j \in Jobs |-> "none"]
    /\ closed = FALSE

\* A call waits for its answer, or is refused at once.
Request(j) ==
    /\ answer[j] = "none"
    /\ \E a \in {"waiting", "error"} :
        /\ closed => a = "error"
        /\ answer' = [answer EXCEPT ![j] = a]
    /\ UNCHANGED closed

\* Waiting calls are answered: one with its result, or several with an error.
Answer ==
    /\ answer' \in [Jobs -> {"none", "waiting", "result", "error"}]
    /\ \A j \in Jobs \ Waiting : answer'[j] = answer[j]
    /\ \A j \in Waiting : answer'[j] # "none"
    /\ \A i, j \in Waiting : answer'[i] = "result" /\ answer'[j] = "result" => i = j
    /\ UNCHANGED closed

Close ==
    /\ ~closed
    /\ closed' = TRUE
    /\ answer' = [j \in Jobs |-> IF j \in Waiting THEN "error" ELSE answer[j]]

Next == Answer \/ Close \/ \E j \in Jobs : Request(j)

\* Every call is answered in the end.
Answered == \A j \in Jobs : j \in Waiting ~> j \notin Waiting

Spec == Init /\ [][Next]_svcVars /\ Answered

=============================================================================
