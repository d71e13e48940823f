---------------------------- MODULE HostService ----------------------------
(***************************************************************************)
(* What the local-handshake proxy (src/mcp/proxy.ts) promises the MCP host *)
(* it serves, wherever its daemon is and whatever becomes of it: every     *)
(* request is answered exactly once for as long as the host stays, and     *)
(* nothing is answered that was not asked.                                 *)
(***************************************************************************)
CONSTANT Requests   \* the ids of the host's requests

VARIABLES
    asked,          \* the requests the host has sent
    answered,       \* those it has an answer to
    hostUp          \* the host is there

hostVars == <<asked, answered, hostUp>>

Init ==
    /\ asked = {} /\ answered = {}
    /\ hostUp = TRUE

\* A request is sent; the handshake and the lists are answered on the spot.
Ask(r) ==
    /\ hostUp /\ r \notin asked
    /\ asked' = asked \cup {r}
    /\ answered' \in {answered, answered \cup {r}}
    /\ UNCHANGED hostUp

\* Requests that wait are answered: one by the daemon, or several at once when
\* the proxy takes over from it.
Answer ==
    /\ hostUp
    /\ answered \subseteq answered' /\ answered' \subseteq asked
    /\ UNCHANGED <<asked, hostUp>>

Leave ==
    /\ hostUp' = FALSE
    /\ UNCHANGED <<asked, answered>>

Next == Answer \/ Leave \/ \E r \in Requests : Ask(r)

Answered == \A r \in Requests : r \in asked ~> (r \in answered \/ ~hostUp)

Spec == Init /\ [][Next]_hostVars /\ Answered

=============================================================================
