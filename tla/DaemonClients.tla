----------------------------- MODULE DaemonClients -----------------------------
(***************************************************************************)
(* The clients of one shared daemon, from the moment it listens to the     *)
(* moment its process ends (class Daemon and readClientHello,              *)
(* src/mcp/daemon.ts).  How a process becomes the daemon is DaemonLock.    *)
(*                                                                         *)
(* The handlers of the daemon run to completion.  What interleaves are     *)
(* connections, client hellos, the close events of sockets, deaths of the  *)
(* processes at the other end, three timers and the two awaits: of the     *)
(* hello in handleConnection, of server.close in stop.                     *)
(***************************************************************************)
EXTENDS FiniteSets

CONSTANTS
    Conns,        \* the connections the daemon is offered, each once
    IdleExit,     \* idleTimeoutMs > 0
    Backstop,     \* maxIdleMs > 0
    Sweep         \* CODEGRAPH_DAEMON_CLIENT_SWEEP_MS > 0

ASSUME DaemonClientsAssumption == {IdleExit, Backstop, Sweep} \subseteq BOOLEAN

VARIABLES
    \* the other end
    alive,        \* connections whose proxy process and host process run
    left,         \* connections that were closed at the other end ...
    deaf,         \* ... and those among them whose close event never arrives
    \* the daemon
    phase,        \* "up": listening; "closing": stop awaits server.close; "exited"
    opening,      \* connections whose client hello is being read
    open,         \* connections whose socket is not destroyed
    clients,      \* this.clients
    known,        \* clients whose pids are in clientPeers
    idleTimer,    \* this.idleTimer is armed
    silent,       \* no inbound byte for maxIdleMs: lastActivityAt
    \* history
    late          \* connections whose hello was being read when stop() ran

peerVars == <<alive, left, deaf>>
clientVars == <<peerVars, phase, opening, open, clients, known, idleTimer, silent, late>>

ClientsTypeOK ==
    /\ alive \subseteq Conns /\ left \subseteq Conns /\ deaf \subseteq left
    /\ phase \in {"up", "closing", "exited"}
    /\ opening \subseteq open /\ open \subseteq Conns
    /\ clients \subseteq Conns \ opening /\ known \subseteq Conns
    /\ {idleTimer, silent} \subseteq BOOLEAN
    /\ late \subseteq Conns

\* start() has returned: nobody is connected, and the timer runs.
ClientsInit ==
    /\ alive = {} /\ left = {} /\ deaf = {}
    /\ phase = "up" /\ opening = {} /\ open = {} /\ clients = {} /\ known = {}
    /\ idleTimer = IdleExit /\ silent = FALSE
    /\ late = {}

-----------------------------------------------------------------------------
(* The other end                                                            *)

\* It closes its socket: a version that does not match, a host that left, ...
Leaves(c) ==
    /\ c \in open \ left
    /\ left' = left \cup {c}
    /\ \E lost \in SUBSET {c} : deaf' = deaf \cup lost
    /\ UNCHANGED <<alive, phase, opening, open, clients, known, idleTimer, silent, late>>

\* The proxy or its host dies.  The operating system closes the socket; on a
\* Windows named pipe that may go unnoticed.
Dies(c) ==
    /\ c \in alive
    /\ alive' = alive \ {c}
    /\ left' = left \cup (open \cap {c})
    /\ \E lost \in SUBSET ((open \ left) \cap {c}) : deaf' = deaf \cup lost
    /\ UNCHANGED <<phase, opening, open, clients, known, idleTimer, silent, late>>

\* A request or a notification of a client.
Sends(c) ==
    /\ c \in (clients \cap open) \ left
    /\ silent' = FALSE
    /\ UNCHANGED <<peerVars, phase, opening, open, clients, known, idleTimer, late>>

\* maxIdleMs pass.
Silence ==
    /\ phase = "up"
    /\ silent' = TRUE
    /\ UNCHANGED <<peerVars, phase, opening, open, clients, known, idleTimer, late>>

-----------------------------------------------------------------------------
(* Connections                                                              *)

\* handleConnection: the daemon says hello and waits for the client's.
Accept(c) ==
    /\ phase = "up" /\ c \notin open \cup alive \cup left
    /\ alive' = alive \cup {c}
    /\ open' = open \cup {c} /\ opening' = opening \cup {c}
    /\ UNCHANGED <<left, deaf, phase, clients, known, idleTimer, silent, late>>

\* Mutant: the timer is not armed again.
DropOnly(cs) ==
    /\ clients' = clients \ cs /\ known' = known \ cs
    /\ UNCHANGED idleTimer

\* dropClient and armIdleTimer: the last client that leaves arms the timer,
\* unless the daemon is stopping or never exits for being idle.
Drop(cs) ==
    /\ clients' = clients \ cs
    /\ known' = known \ cs
    /\ idleTimer' = \/ idleTimer
                    \/ cs \cap clients # {} /\ clients \subseteq cs /\ phase = "up" /\ IdleExit

\* Mutant: the timer runs on when a connection that closed is registered.
RegisterAlone(c, pids) ==
    /\ opening' = opening \ {c} /\ clients' = clients \cup {c}
    /\ known' = IF pids THEN known \cup {c} ELSE known
    /\ UNCHANGED idleTimer

\* The continuation of readClientHello, which runs before any other event:
\* the session is counted whatever became of the socket or of the daemon.
Register(c, pids) ==
    /\ opening' = opening \ {c}
    /\ clients' = clients \cup {c}
    /\ known' = IF pids THEN known \cup {c} ELSE known
    /\ idleTimer' = FALSE

\* The client's first line is its hello, or it is not, or nothing came for
\* CLIENT_HELLO_TIMEOUT_MS.
HelloRead(c) ==
    /\ c \in opening
    /\ \E pids \in BOOLEAN : Register(c, pids)
    /\ UNCHANGED <<peerVars, phase, open, silent, late>>

\* The socket closes first.
HelloCut(c) ==
    /\ c \in (opening \cap left) \ deaf
    /\ Register(c, FALSE)
    /\ open' = open \ {c}
    /\ UNCHANGED <<peerVars, phase, silent, late>>

\* The close event of a session's socket.
SocketClosed(c) ==
    /\ c \in (open \cap left) \ (opening \cup deaf)
    /\ open' = open \ {c}
    /\ Drop({c})
    /\ UNCHANGED <<peerVars, phase, opening, silent, late>>

-----------------------------------------------------------------------------
(* Timers and the end                                                       *)

\* stop(): no timer survives, every session's socket is destroyed without its
\* close handler, and the server takes no more connections.
StopDaemon ==
    /\ phase = "up"
    /\ phase' = "closing"
    /\ idleTimer' = FALSE
    /\ open' = open \ clients /\ clients' = {}
    /\ late' = opening
    /\ UNCHANGED <<peerVars, opening, known, silent>>

Signal == StopDaemon

\* The callback of the idle timer; it starts again if it finds a client.
IdleFires ==
    /\ idleTimer
    /\ IF clients = {} THEN StopDaemon ELSE UNCHANGED clientVars

\* The callback of maxIdleTimer.
BackstopFires ==
    /\ Backstop /\ phase = "up"
    /\ clients # {} /\ silent
    /\ StopDaemon

\* Mutant: a peer without known pids passes for dead.
DeadOrUnknown == clients \ (known \cap alive)

\* reapDeadClients: peers that are known and dead.
Dead == (clients \cap known) \ alive

ReapDeadClients ==
    /\ Sweep /\ phase = "up"
    /\ Dead # {}
    /\ open' = open \ Dead
    /\ Drop(Dead)
    /\ UNCHANGED <<peerVars, phase, opening, silent, late>>

\* Every connection has ended: server.close calls back, the engine is stopped,
\* pidfile and socket are removed, and the process exits.
Exit ==
    /\ phase = "closing" /\ open = {}
    /\ phase' = "exited"
    /\ UNCHANGED <<peerVars, opening, open, clients, known, idleTimer, silent, late>>

-----------------------------------------------------------------------------

Peers == \E c \in Conns : Leaves(c) \/ Dies(c) \/ Sends(c)

Sockets == \E c \in Conns : Accept(c) \/ HelloRead(c) \/ HelloCut(c) \/ SocketClosed(c)

Timers == Silence \/ IdleFires \/ BackstopFires \/ ReapDeadClients

ClientsNext == Peers \/ Sockets \/ Timers \/ Signal \/ Exit

\* Timers fire, time passes, and the hello of a connection ends within its
\* timeout.  A close event that is not lost is delivered.  Nothing is assumed
\* of signals or of what the clients do.
ClientsFairness ==
    /\ WF_clientVars(Silence /\ ~silent) /\ WF_clientVars(IdleFires)
    /\ WF_clientVars(BackstopFires) /\ WF_clientVars(ReapDeadClients) /\ WF_clientVars(Exit)
    /\ \A c \in Conns : WF_clientVars(HelloRead(c) \/ HelloCut(c)) /\ WF_clientVars(SocketClosed(c))

ClientsSpec == ClientsInit /\ [][ClientsNext]_clientVars /\ ClientsFairness

-----------------------------------------------------------------------------
(* Properties                                                               *)

\* While the daemon listens, its idle timer runs exactly when it counts no
\* client: whatever the order of hellos, closings and reapings, it is neither
\* left without an end nor ended under a client (armIdleTimer, disarmIdleTimer
\* and their callers).
IdleTimerIsRight ==
    idleTimer <=> phase = "up" /\ IdleExit /\ clients = {}

\* Until it stops, the daemon parts with no client whose peer is there: it
\* left, or its process died (dropClient, reapDeadClients).
LivePeerIsKept ==
    [][\A c \in clients \ clients' : phase' = "up" => c \in left]_clientVars

\* Somebody is connected who can still speak.
InUse == open \ left # {}

\* A daemon that listens and is not used, and is not used again, ends: by its
\* idle timer, or by the backstop when it counts clients whose close event was
\* lost, or arrived before they were clients.  Once it stops only a client that
\* connected and was still being greeted can keep its process.
UnusedDaemonLeaves ==
    /\ (phase = "up" /\ ~InUse /\ IdleExit /\ Backstop) ~> (phase # "up" \/ InUse)
    /\ (phase = "closing") ~> (phase = "exited" \/ late \cap open \cap (deaf \cup (Conns \ left)) # {})

\* What handleConnection says of a close during the hello: "we fall back to the
\* socket-close lifecycle exactly as before (#692)", and SocketTransport.onClose
\* of the close handler: "fired exactly once when the socket closes".
ClientsAreConnected == clients \subseteq open

=============================================================================
