-------------------------------- MODULE Proxy --------------------------------
(***************************************************************************)
(* The local-handshake proxy between an MCP host and the shared daemon     *)
(* (runLocalHandshakeProxy, src/mcp/proxy.ts), with the connection, the    *)
(* daemon's session behind it (src/mcp/session.ts) and the engine that     *)
(* serves in-process once the daemon is out of reach.                      *)
(*                                                                         *)
(* A handler of the proxy runs to completion.  What interleaves are lines  *)
(* from the host, lines and the close event of the socket, the connection  *)
(* attempt, and the awaits of handleLocally.  A line is a request or the   *)
(* cancellation of a tools/call; ids are not used twice, as JSON-RPC asks. *)
(***************************************************************************)
EXTENDS Integers, Sequences, SequencesExt, FiniteSets

CONSTANTS
    Inits,      \* ids of initialize requests, which come before the others
    Lists,      \* ids of requests answered at once: tools/list, prompts/list, ...
    Others,     \* ids of ping and of methods that nothing serves
    Calls,      \* ids of tools/call requests
    NoCall      \* not an id

Requests == Inits \cup Lists \cup Others \cup Calls

ASSUME IdsAreDistinct ==
    /\ Inits \cap Lists = {} /\ Inits \cap Others = {} /\ Inits \cap Calls = {}
    /\ Lists \cap Others = {} /\ Lists \cap Calls = {} /\ Others \cap Calls = {}
    /\ NoCall \notin Requests

VARIABLES
    \* the host
    hostUp, asked, cancelled,
    replies,        \* per request, how many answers the host was sent
    \* the proxy
    daemonStatus, pending,
    inflight,       \* keys of the map inflight
    local,          \* per call, where handleLocally is with it
    aborted,        \* calls whose AbortController was aborted, here or in the daemon
    buffered,       \* lines the failed start has still to serve
    serving,        \* the one among them it awaits
    engine,
    \* the socket and the daemon
    conn, toDaemon, fromDaemon, atDaemon,
    \* history
    unheard,        \* calls whose cancellation had no effect although they were not answered
    caught          \* calls that waited when the proxy gave up the daemon

hostVars == <<hostUp, asked, cancelled>>
serveVars == <<replies, local, aborted, unheard, engine>>
sockVars == <<conn, toDaemon, fromDaemon, atDaemon>>
vars == <<hostVars, serveVars, sockVars, daemonStatus, pending, inflight, buffered,
          serving, caught>>

Request(r) == [op |-> "request", id |-> r]
Cancel(c) == [op |-> "cancel", id |-> c]
Lines == {Request(r) : r \in Requests} \cup {Cancel(c) : c \in Calls}

TypeOK ==
    /\ hostUp \in BOOLEAN
    /\ asked \subseteq Requests /\ cancelled \subseteq Calls
    /\ replies \in [Requests -> Nat]
    /\ daemonStatus \in {"connecting", "ready", "failed"}
    /\ pending \in Seq(Lines) /\ (daemonStatus # "connecting" => pending = <<>>)
    /\ inflight \subseteq Requests \ (Inits \cup Lists)
    /\ local \in [Calls -> {"no", "opening", "running"}]
    /\ aborted \subseteq Calls
    /\ buffered \in Seq(Lines) /\ serving \in Calls \cup {NoCall}
    /\ engine \in {"none", "opening", "ready"}
    /\ conn \in {"none", "open", "closed"}
    /\ toDaemon \in Seq(Lines) /\ fromDaemon \in Seq(Requests) /\ atDaemon \subseteq Calls
    /\ unheard \subseteq Calls /\ caught \subseteq Calls

Init ==
    /\ hostUp = TRUE /\ asked = {} /\ cancelled = {}
    /\ replies = [r \in Requests |-> 0]
    /\ daemonStatus = "connecting" /\ pending = <<>> /\ inflight = {}
    /\ local = [c \in Calls |-> "no"] /\ aborted = {}
    /\ buffered = <<>> /\ serving = NoCall /\ engine = "none"
    /\ conn = "none" /\ toDaemon = <<>> /\ fromDaemon = <<>> /\ atDaemon = {}
    /\ unheard = {} /\ caught = {}

-----------------------------------------------------------------------------
(* Serving in-process.  These operators map the variables serveVars, as a  *)
(* record, to their next values.                                           *)

Now == [replies |-> replies, local |-> local, aborted |-> aborted,
        unheard |-> unheard, engine |-> engine]

Becomes(s) ==
    /\ replies' = s.replies /\ local' = s.local /\ aborted' = s.aborted
    /\ unheard' = s.unheard /\ engine' = s.engine

RequestsIn(lines) == {l.id : l \in {m \in lines : m.op = "request"}}
CancelsIn(lines) == {l.id : l \in {m \in lines : m.op = "cancel"}}

Reply(s, rs) == [s EXCEPT !.replies = [r \in Requests |-> @[r] + IF r \in rs THEN 1 ELSE 0]]

\* What an AbortController that nobody registered misses.
Missed(s, cs) == {c \in cs : s.replies[c] = 0}

\* handleLocally up to its first await, for a set of lines that holds no call
\* together with its cancellation: a cancellation aborts the call if it is
\* being served, a call is registered and waits for the engine, a ping and a
\* method that is not served are answered, an initialize was answered before.
HandleLocally(s, lines) ==
    LET cs == CancelsIn(lines)
        hit == {c \in cs : s.local[c] # "no"}
        starts == RequestsIn(lines) \cap Calls
        heard == [s EXCEPT !.aborted = @ \cup hit, !.unheard = @ \cup Missed(s, cs \ hit)]
        started == [heard EXCEPT
            !.local = [c \in Calls |-> IF c \notin starts THEN @[c]
                                       ELSE IF s.engine = "ready" THEN "running" ELSE "opening"],
            !.engine = IF starts # {} /\ @ = "none" THEN "opening" ELSE @]
    IN Reply(started, RequestsIn(lines) \cap Others)

\* The loop of the failed start awaits each line: it goes on to the first call.
IsCall(l) == l.op = "request" /\ l.id \in Calls
UpToCall(ls) ==
    LET k == SelectInSeq(ls, IsCall) IN IF k = 0 THEN Len(ls) ELSE k
Awaited(ls) ==
    LET k == SelectInSeq(ls, IsCall) IN IF k = 0 THEN NoCall ELSE ls[k].id

ServeBuffered(s, ls) ==
    /\ Becomes(HandleLocally(s, ToSet(SubSeq(ls, 1, UpToCall(ls)))))
    /\ buffered' = SubSeq(ls, UpToCall(ls) + 1, Len(ls))
    /\ serving' = Awaited(ls)

-----------------------------------------------------------------------------
(* Lines from the host.                                                    *)

\* trackInflight: an initialize and a notification are not tracked.
Tracked(lines) == RequestsIn(lines) \ Inits

\* routeToDaemon, after the reply the proxy gave itself to the requests in done.
RouteToDaemon(line, done) ==
    /\ CASE daemonStatus = "ready" ->
              /\ inflight' = inflight \cup Tracked({line})
              /\ toDaemon' = IF conn = "open" THEN Append(toDaemon, line) ELSE toDaemon
              /\ Becomes(Reply(Now, done))
              /\ UNCHANGED pending
         [] daemonStatus = "failed" ->
              /\ Becomes(HandleLocally(Reply(Now, done), {line}))
              /\ UNCHANGED <<inflight, toDaemon, pending>>
         [] daemonStatus = "connecting" ->
              /\ pending' = Append(pending, line)
              /\ Becomes(Reply(Now, done))
              /\ UNCHANGED <<inflight, toDaemon>>
    /\ UNCHANGED <<daemonStatus, buffered, serving, conn, fromDaemon, atDaemon, caught>>

\* initialize is answered here and forwarded to prime the daemon.
HostInitializes(r) ==
    /\ hostUp /\ r \in Inits \ asked
    /\ asked' = asked \cup {r}
    /\ RouteToDaemon(Request(r), {r})
    /\ UNCHANGED <<hostUp, cancelled>>

HostLists(r) ==
    /\ hostUp /\ r \in Lists \ asked /\ Inits \subseteq asked
    /\ asked' = asked \cup {r}
    /\ Becomes(Reply(Now, {r}))
    /\ UNCHANGED <<hostUp, cancelled, sockVars, daemonStatus, pending, inflight, buffered,
                   serving, caught>>

HostRequests(r) ==
    /\ hostUp /\ r \in (Others \cup Calls) \ asked /\ Inits \subseteq asked
    /\ asked' = asked \cup {r}
    /\ RouteToDaemon(Request(r), {})
    /\ UNCHANGED <<hostUp, cancelled>>

HostCancels(c) ==
    /\ hostUp /\ c \in asked \ cancelled
    /\ cancelled' = cancelled \cup {c}
    /\ RouteToDaemon(Cancel(c), {})
    /\ UNCHANGED <<hostUp, asked>>

\* stdin ends, or the parent is gone: the process exits.
Shutdown ==
    /\ hostUp
    /\ hostUp' = FALSE
    /\ UNCHANGED <<asked, cancelled, serveVars, sockVars, daemonStatus, pending, inflight,
                   buffered, serving, caught>>

-----------------------------------------------------------------------------
(* The connection.                                                         *)

\* The flushed lines are not tracked.
ConnectedUntracked ==
    /\ hostUp /\ daemonStatus = "connecting"
    /\ daemonStatus' = "ready" /\ conn' = "open"
    /\ toDaemon' = pending /\ pending' = <<>>
    /\ UNCHANGED <<hostVars, serveVars, fromDaemon, atDaemon, inflight, buffered, serving,
                   caught>>

\* The newest line is flushed first.
ConnectedReverses ==
    /\ hostUp /\ daemonStatus = "connecting"
    /\ daemonStatus' = "ready" /\ conn' = "open"
    /\ inflight' = Tracked(ToSet(pending))
    /\ toDaemon' = Reverse(pending) /\ pending' = <<>>
    /\ UNCHANGED <<hostVars, serveVars, fromDaemon, atDaemon, buffered, serving, caught>>

\* getDaemonSocket returned a socket: the buffered lines are flushed to it.
Connected ==
    /\ hostUp /\ daemonStatus = "connecting"
    /\ daemonStatus' = "ready" /\ conn' = "open"
    /\ inflight' = Tracked(ToSet(pending))
    /\ toDaemon' = pending /\ pending' = <<>>
    /\ UNCHANGED <<hostVars, serveVars, fromDaemon, atDaemon, buffered, serving, caught>>

\* It returned none: the buffered lines are served here, one after the other.
StartFailed ==
    /\ hostUp /\ daemonStatus = "connecting"
    /\ daemonStatus' = "failed"
    /\ pending' = <<>>
    /\ caught' = RequestsIn(ToSet(pending)) \cap Calls
    /\ ServeBuffered(Now, pending)
    /\ UNCHANGED <<hostVars, sockVars, inflight>>

\* An answered request stays in flight.
OnDataKeepsInflight ==
    /\ hostUp /\ fromDaemon # <<>>
    /\ Becomes(Reply(Now, {Head(fromDaemon)} \ Inits))
    /\ fromDaemon' = Tail(fromDaemon)
    /\ UNCHANGED <<hostVars, daemonStatus, pending, inflight, buffered, serving, conn,
                   toDaemon, atDaemon, caught>>

\* A line from the daemon is relayed, but for the reply to the initialize that
\* the host has an answer to.
OnData ==
    /\ hostUp /\ fromDaemon # <<>>
    /\ LET r == Head(fromDaemon) IN
         /\ inflight' = inflight \ {r}
         /\ Becomes(Reply(Now, {r} \ Inits))
    /\ fromDaemon' = Tail(fromDaemon)
    /\ UNCHANGED <<hostVars, daemonStatus, pending, buffered, serving, conn, toDaemon,
                   atDaemon, caught>>

\* The loss of the daemon is noticed, and what was in flight is forgotten.
OnDaemonLostForgets ==
    /\ hostUp /\ conn = "closed" /\ fromDaemon = <<>> /\ daemonStatus = "ready"
    /\ daemonStatus' = "failed"
    /\ inflight' = {}
    /\ caught' = inflight \cap Calls
    /\ UNCHANGED <<hostVars, serveVars, sockVars, pending, buffered, serving>>

\* onDaemonLost: what the daemon has not answered is served here, all at once.
OnDaemonLost ==
    /\ hostUp /\ conn = "closed" /\ fromDaemon = <<>> /\ daemonStatus = "ready"
    /\ daemonStatus' = "failed"
    /\ inflight' = {}
    /\ caught' = inflight \cap Calls
    /\ Becomes(HandleLocally(
           [Now EXCEPT !.unheard = @ \cup Missed(Now, cancelled \cap inflight),
                       !.aborted = @ \ inflight],
           {Request(r) : r \in inflight}))
    /\ UNCHANGED <<hostVars, sockVars, pending, buffered, serving>>

-----------------------------------------------------------------------------
(* The engine of the proxy.                                                *)

\* ensureEngine settles, whether a project was opened or not.
EngineReady ==
    /\ hostUp /\ engine = "opening"
    /\ engine' = "ready"
    /\ local' = [c \in Calls |-> IF local[c] = "opening" THEN "running" ELSE local[c]]
    /\ UNCHANGED <<hostVars, replies, aborted, unheard, sockVars, daemonStatus, pending,
                   inflight, buffered, serving, caught>>

\* The tool returns or throws: the host gets a result or an error.
LocalDone(c) ==
    /\ hostUp /\ local[c] = "running"
    /\ LET s == Reply([Now EXCEPT !.local[c] = "no", !.aborted = @ \ {c}], {c}) IN
         IF serving = c THEN ServeBuffered(s, buffered)
         ELSE Becomes(s) /\ UNCHANGED <<buffered, serving>>
    /\ UNCHANGED <<hostVars, sockVars, daemonStatus, pending, inflight, caught>>

-----------------------------------------------------------------------------
(* The daemon's session for this proxy: it takes lines in order and runs   *)
(* calls concurrently.                                                     *)

DaemonReads ==
    /\ conn = "open" /\ toDaemon # <<>>
    /\ LET l == Head(toDaemon) IN
         /\ atDaemon' = IF IsCall(l) THEN atDaemon \cup {l.id} ELSE atDaemon
         /\ fromDaemon' = IF l.op = "request" /\ ~IsCall(l)
                          THEN Append(fromDaemon, l.id) ELSE fromDaemon
         /\ aborted' = IF l.op = "cancel" /\ l.id \in atDaemon
                       THEN aborted \cup {l.id} ELSE aborted
         /\ unheard' = IF l.op = "cancel" /\ l.id \notin atDaemon \cup ToSet(fromDaemon)
                       THEN unheard \cup Missed(Now, {l.id}) ELSE unheard
    /\ toDaemon' = Tail(toDaemon)
    /\ UNCHANGED <<hostVars, replies, local, engine, conn, daemonStatus, pending, inflight,
                   buffered, serving, caught>>

DaemonAnswers(c) ==
    /\ conn = "open" /\ c \in atDaemon
    /\ atDaemon' = atDaemon \ {c}
    /\ aborted' = aborted \ {c}
    /\ fromDaemon' = Append(fromDaemon, c)
    /\ UNCHANGED <<hostVars, replies, local, unheard, engine, conn, toDaemon, daemonStatus,
                   pending, inflight, buffered, serving, caught>>

\* The daemon stops or is killed.  Of its last answers some may get through.
DaemonDies ==
    /\ conn = "open"
    /\ conn' = "closed"
    /\ toDaemon' = <<>> /\ atDaemon' = {}
    /\ \E n \in 0..Len(fromDaemon) : fromDaemon' = SubSeq(fromDaemon, 1, n)
    /\ UNCHANGED <<hostVars, serveVars, daemonStatus, pending, inflight, buffered, serving,
                   caught>>

-----------------------------------------------------------------------------
Host == \/ \E r \in Requests : HostInitializes(r) \/ HostLists(r) \/ HostRequests(r)
        \/ \E c \in Calls : HostCancels(c)
        \/ Shutdown

Next == \/ Host
        \/ Connected \/ StartFailed \/ OnData \/ OnDaemonLost
        \/ EngineReady \/ \E c \in Calls : LocalDone(c)
        \/ DaemonReads \/ DaemonDies \/ \E c \in Calls : DaemonAnswers(c)

\* The attempt to connect is bounded, the event loops run, and a tool call comes
\* to an end or the daemon with it does.
Spec ==
    /\ Init /\ [][Next]_vars
    /\ WF_vars(Connected \/ StartFailed)
    /\ WF_vars(OnData) /\ WF_vars(OnDaemonLost) /\ WF_vars(EngineReady)
    /\ WF_vars(DaemonReads)
    /\ \A c \in Calls : WF_vars(LocalDone(c)) /\ WF_vars(DaemonAnswers(c))

-----------------------------------------------------------------------------
(* Properties.                                                              *)

\* No request is answered twice: what the daemon answered before it was lost is
\* not served again, and its answer to the initialize does not get through.
AnsweredOnce == \A r \in Requests : replies[r] <= 1

\* A request without an answer is in exactly one place that will see to it: among
\* the lines that wait for the daemon, in flight, among the lines the failed start
\* has still to serve, or being served here.
NoRequestLost ==
    LET places(r) == {p \in {"pending", "inflight", "buffered", "local"} :
            CASE p = "pending"  -> Request(r) \in ToSet(pending)
              [] p = "inflight" -> r \in inflight
              [] p = "buffered" -> Request(r) \in ToSet(buffered)
              [] p = "local"    -> r \in Calls /\ local[r] # "no"}
    IN \A r \in asked \ Inits :
           Cardinality(places(r)) = IF replies[r] = 0 THEN 1 ELSE 0

\* A cancellation takes effect on a call that is not answered yet, unless the call
\* was waiting when the proxy gave up the daemon: it never overtakes its call.
CancelIsHeard == unheard \subseteq caught

\* The proxy keeps the promise of HostService.
Service == INSTANCE HostService WITH answered <- {r \in Requests : replies[r] > 0}

ServiceSpec == Service!Spec

=============================================================================
