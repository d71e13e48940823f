----------------------------- MODULE DaemonProofs -----------------------------
(* The safety properties of the daemon, in three parts: of DaemonLock, for   *)
(* any set of processes, of DaemonClients, for any set of connections, and of *)
(* Engine, for any sets of sessions and of tool calls.  Each part has a       *)
(* specification of its own.                                                  *)
EXTENDS DaemonLock, DaemonClients, Engine, FiniteSetTheorems, TLAPS

\* Until a live daemon loses its pidfile, the pidfile is that of the one past
\* the lock.
PidfileOfOwner ==
    \/ "pidfile" \in races
    \/ \A p \in Procs : Owns(p) => pidfile = p

\* Until then, a bound socket belongs to a daemon that serves, or was killed
\* while it did.
SocketOfServing ==
    \/ "pidfile" \in races
    \/ socket = Nobody
    \/ pc[socket] \in {"serving", "crashed"}

\* Until then, a daemon that starts to listen has cleared the path.
ListenFindsNothing ==
    \/ "pidfile" \in races
    \/ \A p \in Procs : pc[p] = "listen" => socket = Nobody

\* Until either race, a serving daemon has its socket.
SocketOfDaemon ==
    \/ races # {}
    \/ \A p \in Procs : pc[p] = "serving" => socket = p

\* A process that has not acquired the lock, or has removed it, is not named by
\* the pidfile.
PidfileOfNoOther ==
    \A p \in Procs :
        pc[p] \in {"absent", "unlinkSocketAgain", "exited"} \cup Candidate
            => pidfile # p

IInv ==
    /\ TypeOK
    /\ PidfileOfOwner
    /\ SocketOfServing
    /\ ListenFindsNothing
    /\ SocketOfDaemon
    /\ PidfileOfNoOther

-----------------------------------------------------------------------------
\* Neither file exists at first.
LEMMA InitIInv == Init => IInv
  BY DaemonLockAssumption DEF Init, IInv, TypeOK, Calls, Candidate, Starting,
     Stopping, Gone, PidfileOfOwner, SocketOfServing, ListenFindsNothing,
     SocketOfDaemon, PidfileOfNoOther, Owns

\* Every step keeps the invariant.
LEMMA StepIInv == IInv /\ [Next]_vars => IInv'
<1> SUFFICES ASSUME IInv, [Next]_vars PROVE IInv'
  OBVIOUS
<1> USE DaemonLockAssumption DEF IInv, TypeOK, Calls, Candidate, Starting,
        Stopping, Gone, PidfileOfOwner, SocketOfServing, ListenFindsNothing,
        SocketOfDaemon, PidfileOfNoOther, Owns, Alive, Goto
<1>1. ASSUME NEW p \in Procs, Spawn(p) PROVE IInv'
  BY <1>1 DEF Spawn
<1>2. ASSUME NEW p \in Procs, Link(p) PROVE IInv'
  BY <1>2 DEF Link
<1>3. ASSUME NEW p \in Procs, ReadExisting(p) PROVE IInv'
  BY <1>3 DEF ReadExisting
<1>4. ASSUME NEW p \in Procs, Judge(p) PROVE IInv'
  BY <1>4 DEF Judge
<1>5. ASSUME NEW p \in Procs, ClearRead(p) PROVE IInv'
  BY <1>5 DEF ClearRead
<1>6. ASSUME NEW p \in Procs, ClearUnlink(p) PROVE IInv'
  BY <1>6 DEF ClearUnlink
<1>7. ASSUME NEW p \in Procs, Retry(p) PROVE IInv'
  BY <1>7 DEF Retry
<1>8. ASSUME NEW p \in Procs, UnlinkSocket(p) PROVE IInv'
  BY <1>8 DEF UnlinkSocket
<1>9. ASSUME NEW p \in Procs, Listen(p) PROVE IInv'
  BY <1>9 DEF Listen
<1>10. ASSUME NEW p \in Procs, Stop(p) PROVE IInv'
  BY <1>10 DEF Stop
<1>11. ASSUME NEW p \in Procs, Closed(p) PROVE IInv'
  BY <1>11 DEF Closed
<1>12. ASSUME NEW p \in Procs, CleanupRead(p) PROVE IInv'
  BY <1>12 DEF CleanupRead
<1>13. ASSUME NEW p \in Procs, CleanupUnlink(p) PROVE IInv'
  BY <1>13 DEF CleanupUnlink
<1>14. ASSUME NEW p \in Procs, UnlinkSocketAgain(p) PROVE IInv'
  BY <1>14 DEF UnlinkSocketAgain
<1>15. ASSUME NEW p \in Procs, Crash(p) PROVE IInv'
  BY <1>15 DEF Crash
<1>16. ASSUME UNCHANGED vars PROVE IInv'
  BY <1>16 DEF vars
<1> QED
  BY <1>1, <1>2, <1>3, <1>4, <1>5, <1>6, <1>7, <1>8, <1>9, <1>10, <1>11,
     <1>12, <1>13, <1>14, <1>15, <1>16 DEF Next, Arbitrate, Start, CleanUp

-----------------------------------------------------------------------------
\* Two daemons only after a live one lost its pidfile.
THEOREM OneDaemon == Spec => []OneDaemonUnlessRaced
<1>1. IInv => OneDaemonUnlessRaced
  BY DEF IInv, PidfileOfOwner, OneDaemonUnlessRaced
<1> QED
  BY <1>1, InitIInv, StepIInv, PTL DEF Spec

\* A daemon that starts clears no socket in use, and then listens.
THEOREM StartIsSafe == Spec => []StartFindsNoDaemon
<1>1. IInv => StartFindsNoDaemon
  BY DaemonLockAssumption DEF IInv, TypeOK, PidfileOfOwner, SocketOfServing,
     ListenFindsNothing, StartFindsNoDaemon, Owns, Starting, Alive, Gone
<1> QED
  BY <1>1, InitIInv, StepIInv, PTL DEF Spec

\* A serving daemon keeps its socket but for the two races.
THEOREM Reachable == Spec => []ReachableUnlessRaced
<1>1. IInv => ReachableUnlessRaced
  BY DEF IInv, SocketOfDaemon, ReachableUnlessRaced
<1> QED
  BY <1>1, InitIInv, StepIInv, PTL DEF Spec

\* A graceful exit leaves no pidfile of its own.
THEOREM NoPidfileLeft == Spec => []GracefulExitLeavesNoPidfile
<1>1. IInv => GracefulExitLeavesNoPidfile
  BY DEF IInv, PidfileOfNoOther, GracefulExitLeavesNoPidfile
<1> QED
  BY <1>1, InitIInv, StepIInv, PTL DEF Spec

\* The variables keep their types.
THEOREM TypeCorrect == Spec => []TypeOK
<1>1. IInv => TypeOK
  BY DEF IInv
<1> QED
  BY <1>1, InitIInv, StepIInv, PTL DEF Spec

-----------------------------------------------------------------------------
(* The clients of the daemon that serves.                                   *)

\* A client without a socket has left, and so has one whose process died.
ClientsAccounted ==
    /\ clients \subseteq open \cup left
    /\ open \subseteq alive \cup left

\* What every step keeps.
ClientsInv == ClientsTypeOK /\ ClientsAccounted /\ IdleTimerIsRight

\* What LivePeerIsKept says of a step.
Kept == \A c \in clients \ clients' : phase' = "up" => c \in left

\* At first nobody is connected, and the timer runs if it is to.
LEMMA InitClientsInv == ClientsInit => ClientsInv
<1> USE DaemonClientsAssumption
<1> SUFFICES ASSUME ClientsInit PROVE ClientsInv
  OBVIOUS
<1>1. ClientsTypeOK
  BY DEF ClientsInit, ClientsTypeOK
<1>2. ClientsAccounted
  BY DEF ClientsInit, ClientsAccounted
<1>3. IdleTimerIsRight
  BY Zenon DEF ClientsInit, IdleTimerIsRight
<1> QED
  BY <1>1, <1>2, <1>3 DEF ClientsInv

\* Every step keeps the invariant, and parts with no client whose peer is there.
LEMMA StepClientsInv ==
    ClientsInv /\ [ClientsNext]_clientVars => ClientsInv' /\ Kept
<1> SUFFICES ASSUME ClientsInv, [ClientsNext]_clientVars
             PROVE  ClientsInv' /\ Kept
  OBVIOUS
<1> USE DaemonClientsAssumption DEF ClientsInv, ClientsTypeOK, ClientsAccounted, Kept,
            IdleTimerIsRight, clientVars, peerVars
<1>1. ASSUME NEW c \in Conns, Leaves(c) PROVE ClientsInv' /\ Kept
  BY <1>1 DEF Leaves
<1>2. ASSUME NEW c \in Conns, Dies(c) PROVE ClientsInv' /\ Kept
  BY <1>2 DEF Dies
<1>3. ASSUME NEW c \in Conns, Sends(c) PROVE ClientsInv' /\ Kept
  BY <1>3 DEF Sends
<1>4. ASSUME NEW c \in Conns, Accept(c) PROVE ClientsInv' /\ Kept
  BY <1>4 DEF Accept
<1>5. ASSUME NEW c \in Conns, HelloRead(c) PROVE ClientsInv' /\ Kept
  BY <1>5 DEF HelloRead, Register
<1>6. ASSUME NEW c \in Conns, HelloCut(c) PROVE ClientsInv' /\ Kept
  BY <1>6 DEF HelloCut, Register
<1>7. ASSUME NEW c \in Conns, SocketClosed(c) PROVE ClientsInv' /\ Kept
  BY <1>7 DEF SocketClosed, Drop
<1>8. ASSUME StopDaemon PROVE ClientsInv' /\ Kept
  BY <1>8 DEF StopDaemon
<1>9. ASSUME ReapDeadClients PROVE ClientsInv' /\ Kept
  BY <1>9 DEF ReapDeadClients, Dead, Drop
<1>10. ASSUME Silence PROVE ClientsInv' /\ Kept
  BY <1>10 DEF Silence
<1>11. ASSUME Exit PROVE ClientsInv' /\ Kept
  BY <1>11 DEF Exit
<1>12. ASSUME UNCHANGED clientVars PROVE ClientsInv' /\ Kept
  BY <1>12
<1> QED
  BY <1>1, <1>2, <1>3, <1>4, <1>5, <1>6, <1>7, <1>8, <1>9, <1>10, <1>11, <1>12
  DEF ClientsNext, Peers, Sockets, Timers, Signal,
      IdleFires, BackstopFires

\* Whatever the order of hellos, closings, lost close events and reapings, the
\* idle timer runs exactly while the daemon listens and counts no client
\* (armIdleTimer, disarmIdleTimer and their callers).
THEOREM TimerIsRight == ClientsSpec => []IdleTimerIsRight
<1>1. ClientsInv => IdleTimerIsRight
  BY DEF ClientsInv
<1> QED
  BY <1>1, InitClientsInv, StepClientsInv, PTL DEF ClientsSpec

\* A daemon that listens drops only clients that left or whose process died
\* (dropClient, reapDeadClients).
THEOREM PeerIsKept == ClientsSpec => LivePeerIsKept
<1>1. ClientsInv /\ [ClientsNext]_clientVars
         => [\A c \in clients \ clients' : phase' = "up" => c \in left]_clientVars
  BY StepClientsInv DEF Kept
<1> QED
  BY <1>1, InitClientsInv, StepClientsInv, PTL DEF ClientsSpec, LivePeerIsKept

\* The variables keep their types.
THEOREM ClientsTypeCorrect == ClientsSpec => []ClientsTypeOK
<1>1. ClientsInv => ClientsTypeOK
  BY DEF ClientsInv
<1> QED
  BY <1>1, InitClientsInv, StepClientsInv, PTL DEF ClientsSpec

-----------------------------------------------------------------------------
(* The engine that the sessions of the daemon share.                        *)

\* The project is opened twice at most: by the initialisation under way and by a
\* call that did not wait for it.  The default instance is the last one; if one
\* is watched it is the first.
OpenedTwiceAtMost ==
    /\ opened \in 0..2 /\ (opened = 2 => overtaken /\ ~initPromise)
    /\ cg = opened
    /\ watched \in 0..1 /\ (opened = 0 => watched = None)
    /\ \A i \in Instances : sync[i] # "none" => i <= opened

\* What excuses an answer that shows an edit of which there is no record.
Excused == blessed \/ overtaken \/ Deaf

\* An edit the watcher heard of is pending until the index has it, and without
\* watcher nothing is heard of.
EditsArePending ==
    /\ "heard" \in behind => pending
    /\ pending => watched # None
    /\ watched = None => behind \subseteq {"untold"}

\* Without a gate, the index has every edit of which there is no record.
GateMeansCaughtUp ==
    cg # None /\ gate = None => "untold" \notin behind \/ Excused

\* EngineTypeOK in two parts; a call came from a session that was greeted.
SessionTypes ==
    /\ sessions \subseteq Sessions /\ greeted \subseteq sessions
    /\ resolve \in [Sessions -> {"none", "roots", "init"}]
    /\ rootsAttempted \subseteq sessions
    /\ call \in [ToolCalls -> CallStates]
    /\ waits \in [ToolCalls -> 0..MaxOpens]
    /\ hint \in BOOLEAN /\ initPromise \in BOOLEAN
    /\ \A c \in ToolCalls : call[c] # "none" => c[1] \in greeted

GateTypes ==
    /\ cached \in BOOLEAN /\ pending \in BOOLEAN
    /\ gate \in 0..opened /\ released \subseteq 1..opened
    /\ lock \in 0..opened \cup {MaxOpens + 1}
    /\ sync \in [Instances -> {"none", "holds", "shut out"}]
    /\ behind \subseteq Edits
    /\ overtaken \in BOOLEAN /\ blessed \in BOOLEAN /\ unwarned \in BOOLEAN
    /\ misled \subseteq Missable

\* What a running tool may miss: the file of an edit that was heard of is still
\* pending, and of an edit without a record the gate let nothing pass in silence.
MissedBy(c) ==
    /\ missed[c] # {} => call[c] = "runs"
    /\ "heard" \in missed[c] => pending
    /\ watched = None => missed[c] \subseteq {"untold"}
    /\ "untold" \in missed[c] => c \in admitted \/ Excused

Reads ==
    /\ admitted \subseteq ToolCalls /\ missed \in [ToolCalls -> SUBSET Missable]
    /\ \A c \in ToolCalls : (call[c] = "runs" => cg # None) /\ MissedBy(c)

\* What every step keeps.
EngineInv ==
    /\ Sessions # {}
    /\ SessionTypes /\ GateTypes
    /\ OpenedTwiceAtMost
    /\ EditsArePending
    /\ GateMeansCaughtUp
    /\ Reads
    /\ StaleAnswersAreMarked

\* Both openings have a number.
LEMMA RoomForTwo == Sessions # {} => MaxOpens \in Nat /\ 2 <= MaxOpens
<1> SUFFICES ASSUME Sessions # {} PROVE MaxOpens \in Nat /\ 2 <= MaxOpens
  OBVIOUS
<1>1. Cardinality(Sessions) \in Nat /\ Cardinality(ToolCalls) \in Nat
  BY EngineAssumption, FS_CardinalityType
<1>2. Cardinality(Sessions) # 0
  BY EngineAssumption, FS_EmptySet
<1> QED
  BY <1>1, <1>2 DEF MaxOpens

\* They are EngineTypeOK.
LEMMA EngineTypes ==
    Sessions # {} /\ SessionTypes /\ GateTypes /\ Reads /\ OpenedTwiceAtMost => EngineTypeOK
<1> SUFFICES ASSUME Sessions # {}, SessionTypes, GateTypes, Reads, OpenedTwiceAtMost
             PROVE  EngineTypeOK
  OBVIOUS
<1>1. opened \in 0..MaxOpens /\ opened \in Nat
  BY RoomForTwo DEF OpenedTwiceAtMost
<1>2. cg \in 0..opened /\ watched \in 0..opened
  BY <1>1 DEF OpenedTwiceAtMost, None
<1>3. {cg, watched, gate} \subseteq 0..opened
  BY <1>2 DEF GateTypes
<1>4. {hint, initPromise, cached, pending} \subseteq BOOLEAN
  BY DEF SessionTypes, GateTypes
<1>5. {overtaken, blessed, unwarned} \subseteq BOOLEAN
  BY DEF GateTypes
<1>6. admitted \subseteq ToolCalls /\ missed \in [ToolCalls -> SUBSET Missable]
  BY DEF Reads
<1> QED
  BY <1>1, <1>3, <1>4, <1>5, <1>6 DEF SessionTypes, GateTypes, EngineTypeOK

\* At first nothing is opened.
LEMMA InitEngineInv == EngineInit => EngineInv
<1> SUFFICES ASSUME EngineInit PROVE EngineInv
  OBVIOUS
<1>1. Sessions # {}
  BY DEF EngineInit
<1>2. SessionTypes
  BY <1>1, RoomForTwo DEF EngineInit, SessionTypes, CallStates, None
<1>3. GateTypes
  <2>1. /\ gate \in 0..opened /\ released \subseteq 1..opened
        /\ lock \in 0..opened \cup {MaxOpens + 1}
    BY DEF EngineInit, None
  <2>2. behind \subseteq Edits /\ misled \subseteq Missable
    BY DEF EngineInit, Edits, Missable
  <2> QED
    BY <2>1, <2>2 DEF EngineInit, GateTypes
<1>4. OpenedTwiceAtMost /\ GateMeansCaughtUp /\ StaleAnswersAreMarked
  BY DEF EngineInit, OpenedTwiceAtMost, GateMeansCaughtUp, StaleAnswersAreMarked, None
<1>5. EditsArePending
  BY DEF EngineInit, EditsArePending
<1>6. Reads
  BY DEF EngineInit, Reads, MissedBy
<1> QED
  BY <1>1, <1>2, <1>3, <1>4, <1>5, <1>6 DEF EngineInv

\* The numbers of gates.
LEMMA Numbers ==
    ASSUME EngineInv
    PROVE  /\ MaxOpens \in Nat /\ 2 <= MaxOpens /\ opened \in {0, 1, 2}
           /\ gate \in 0..opened /\ gate \in 0..MaxOpens /\ released \subseteq 1..opened
<1>1. MaxOpens \in Nat /\ 2 <= MaxOpens
  BY RoomForTwo DEF EngineInv
<1>2. opened \in {0, 1, 2}
  BY DEF EngineInv, OpenedTwiceAtMost
<1>3. gate \in 0..opened /\ released \subseteq 1..opened
  BY DEF EngineInv, GateTypes
<1>4. gate \in 0..MaxOpens
  BY <1>1, <1>2, <1>3
<1> QED
  BY <1>1, <1>2, <1>3, <1>4

\* An opening takes the number that comes next; its gate replaces the one before.
LEMMA OpenedStep ==
    ASSUME EngineInv, Opened, opened # 2
    PROVE  /\ GateTypes' /\ EditsArePending' /\ GateMeansCaughtUp' /\ StaleAnswersAreMarked'
           /\ opened' = opened + 1 /\ cg' = opened' /\ watched' \in 0..1
           /\ (watched # None => watched' # None) /\ (cg # None /\ Excused => Excused')
           /\ \A i \in Instances : sync'[i] # "none" => i <= opened'
           /\ opened' = 2 => overtaken'
<1>0. /\ MaxOpens \in Nat /\ 2 <= MaxOpens
      /\ SessionTypes /\ GateTypes /\ OpenedTwiceAtMost
      /\ EditsArePending /\ GateMeansCaughtUp /\ StaleAnswersAreMarked
  BY RoomForTwo DEF EngineInv
<1>1. opened \in {0, 1} /\ opened + 1 \in Instances
  BY <1>0 DEF OpenedTwiceAtMost, Instances
<1>2. /\ opened' = opened + 1 /\ cg' = opened + 1 /\ gate' = opened + 1
      /\ overtaken' = (overtaken \/ cg # None)
      /\ UNCHANGED <<behind, pending, cached, blessed, misled, unwarned>>
  BY DEF Opened, SetCatchUpGate
<1>2a. watched' \in 0..1 /\ (opened # 0 => watched' = watched)
  <2>1. watched' \in IF opened = 0 THEN {0, opened + 1} ELSE {watched}
    BY DEF Opened, None
  <2>2. watched \in 0..1
    BY <1>0 DEF OpenedTwiceAtMost
  <2> QED
    BY <1>1, <2>1, <2>2
<1>2b. watched # None => watched' # None
  BY <1>0, <1>2a DEF OpenedTwiceAtMost
<1>3. opened' \in {1, 2}
  BY <1>1, <1>2
<1>4. released' \subseteq 1..opened'
  <2>1. released \subseteq 1..opened /\ gate \in 0..opened
    BY <1>0 DEF GateTypes
  <2>2. released' = released \cup ({gate} \ {0})
    BY DEF Opened, SetCatchUpGate, None
  <2> QED
    BY <1>1, <1>2, <2>1, <2>2
<1>5. sync' \in [Instances -> {"none", "holds", "shut out"}]
  BY <1>0, <1>1 DEF Opened, GateTypes
<1>6. lock' \in 0..opened' \cup {MaxOpens + 1}
  <2>1. lock \in 0..opened \cup {MaxOpens + 1}
    BY <1>0 DEF GateTypes
  <2>2. lock' = lock \/ lock' = opened + 1
    BY DEF Opened
  <2> QED
    BY <1>1, <1>2, <2>1, <2>2
<1>7. ASSUME NEW i \in Instances, sync'[i] # "none" PROVE i <= opened'
  <2>1. i = opened + 1 \/ sync'[i] = sync[i]
    BY <1>0 DEF Opened, GateTypes
  <2>2. i \in Nat /\ (sync[i] # "none" => i <= opened)
    BY <1>0 DEF OpenedTwiceAtMost, Instances
  <2> QED
    BY <1>1, <1>2, <1>7, <2>1, <2>2
<1>8. overtaken' \in BOOLEAN /\ (overtaken => overtaken') /\ (opened' = 2 => overtaken')
  <2>1. overtaken \in BOOLEAN
    BY <1>0 DEF GateTypes
  <2>2. opened' = 2 => cg # None
    BY <1>0, <1>1, <1>2 DEF OpenedTwiceAtMost, None
  <2> QED
    BY <1>2, <2>1, <2>2, Zenon
<1>9. GateTypes'
  <2>1. gate' \in 0..opened'
    BY <1>1, <1>2
  <2>2. /\ cached' \in BOOLEAN /\ pending' \in BOOLEAN /\ behind' \subseteq Edits
        /\ blessed' \in BOOLEAN /\ unwarned' \in BOOLEAN /\ misled' \subseteq Missable
    BY <1>0, <1>2 DEF GateTypes
  <2> QED
    BY <1>4, <1>5, <1>6, <1>8, <2>1, <2>2 DEF GateTypes
<1>10. EditsArePending'
  BY <1>0, <1>2, <1>2b DEF EditsArePending
<1>13. cg # None /\ Excused => Excused'
  BY <1>1, <1>2, <1>0 DEF Excused
<1>11. GateMeansCaughtUp'
  BY <1>1, <1>2 DEF GateMeansCaughtUp, None
<1>12. StaleAnswersAreMarked'
  <2>1. blessed \/ overtaken => blessed' \/ overtaken'
    BY <1>2, <1>8
  <2>2. Deaf => Deaf' \/ overtaken'
    BY <1>0, <1>1, <1>2 DEF Deaf, OpenedTwiceAtMost, None
  <2> QED
    BY <1>0, <1>2, <1>8, <2>1, <2>2 DEF StaleAnswersAreMarked
<1> QED
  BY <1>2, <1>2a, <1>2b, <1>7, <1>8, <1>9, <1>10, <1>11, <1>12, <1>13

\* What is not about sessions, and the steps that leave it alone.
Rest == GateTypes /\ OpenedTwiceAtMost /\ EditsArePending /\ GateMeansCaughtUp /\ StaleAnswersAreMarked

\* What running tools may miss is kept by steps in which none starts or ends,
\* nothing is edited and nothing is heard of or synced.
LEMMA ReadsKept ==
    ASSUME Reads, UNCHANGED <<admitted, missed>>, pending => pending',
           cg # None => cg' # None, watched # None => watched' # None,
           cg # None /\ Excused => Excused',
           \A c \in ToolCalls : call'[c] = "runs" <=> call[c] = "runs"
    PROVE  Reads'
<1>1. ASSUME NEW c \in ToolCalls PROVE (call'[c] = "runs" => cg' # None) /\ MissedBy(c)'
  <2>1. (call[c] = "runs" => cg # None) /\ MissedBy(c)
    BY DEF Reads
  <2>2. call'[c] = "runs" <=> call[c] = "runs"
    OBVIOUS
  <2> QED
    BY <2>1, <2>2 DEF MissedBy
<1> QED
  BY <1>1 DEF Reads

\* An opening that failed keeps the rest of the invariant.
LEMMA NotOpenedStep ==
    ASSUME EngineInv, NotOpened, initPromise' => initPromise \/ cg = None,
           UNCHANGED <<admitted, missed>>,
           \A c \in ToolCalls : call'[c] = "runs" <=> call[c] = "runs"
    PROVE  Rest' /\ Reads'
<1>1. Rest /\ opened \in 0..2
  BY DEF EngineInv, Rest, OpenedTwiceAtMost
<1>2. OpenedTwiceAtMost'
  BY <1>1 DEF NotOpened, Rest, OpenedTwiceAtMost, None, indexVars, historyVars
<1>3. GateTypes' /\ EditsArePending'
  BY <1>1 DEF NotOpened, Rest, GateTypes, EditsArePending, gateVars, indexVars, historyVars
<1>4. UNCHANGED <<opened, cg, watched, gate, behind, blessed, overtaken, misled>>
  BY DEF NotOpened, gateVars, indexVars, historyVars
<1>5. GateMeansCaughtUp' /\ StaleAnswersAreMarked' /\ (Excused => Excused')
  BY <1>1, <1>4 DEF Rest, GateMeansCaughtUp, StaleAnswersAreMarked, Excused, Deaf
<1>6. Reads'
  <2>1. Reads /\ pending' = pending
    BY DEF EngineInv, NotOpened, indexVars
  <2> QED
    BY <1>4, <1>5, <2>1, ReadsKept
<1> QED
  BY <1>2, <1>3, <1>5, <1>6 DEF Rest

\* So they are by an opening.
LEMMA ReadsOpened ==
    ASSUME EngineInv, Opened, opened # 2, UNCHANGED <<admitted, missed>>,
           \A c \in ToolCalls : call'[c] = "runs" <=> call[c] = "runs"
    PROVE  Reads'
<1>1. Reads /\ pending' = pending /\ opened \in {0, 1}
  BY Numbers DEF EngineInv, Opened
<1>2. cg' # None /\ (watched # None => watched' # None) /\ (cg # None /\ Excused => Excused')
  BY <1>1, OpenedStep DEF None
<1> QED
  BY <1>1, <1>2, ReadsKept

\* What the answers rest on is kept when nothing it speaks of changes.
LEMMA StillTrue ==
    ASSUME EngineInv,
           UNCHANGED <<call, admitted, missed, cg, watched, opened, gate, behind, pending,
                       overtaken, blessed, misled>>
    PROVE  EditsArePending' /\ GateMeansCaughtUp' /\ Reads' /\ StaleAnswersAreMarked' /\ Sessions # {}
<1>1. EditsArePending' /\ GateMeansCaughtUp' /\ StaleAnswersAreMarked' /\ (Excused => Excused')
  BY DEF EngineInv, EditsArePending, GateMeansCaughtUp, StaleAnswersAreMarked, Excused, Deaf
<1> QED
  BY <1>1, ReadsKept DEF EngineInv

\* Every step keeps the invariant.
LEMMA StepEngineInv == EngineInv /\ [EngineNext]_engineVars => EngineInv'
<1> SUFFICES ASSUME EngineInv, [EngineNext]_engineVars PROVE EngineInv'
  OBVIOUS
<1>0. /\ MaxOpens \in Nat /\ 2 <= MaxOpens /\ opened \in {0, 1, 2} /\ Sessions # {}
      /\ gate \in 0..opened /\ gate \in 0..MaxOpens /\ released \subseteq 1..opened
      /\ SessionTypes /\ GateTypes /\ OpenedTwiceAtMost
      /\ EditsArePending /\ GateMeansCaughtUp /\ Reads /\ StaleAnswersAreMarked
  BY Numbers DEF EngineInv
<1> USE <1>0 DEF None, Instances, engineVars, sessionVars, callVars,
        instanceVars, gateVars, indexVars, historyVars
<1>1. ASSUME DoInitialize PROVE EngineInv'
  <2>1. SessionTypes' /\ UNCHANGED <<call, admitted, missed>>
    BY <1>1 DEF DoInitialize, SessionTypes
  <2>2. CASE NotOpened
    BY <1>1, <2>1, <2>2, NotOpenedStep DEF DoInitialize, EngineInv, Rest
  <2>3. CASE Opened
    <3>1. opened # 2 /\ opened \in 0..2 /\ ~initPromise'
      BY <1>1 DEF DoInitialize, OpenedTwiceAtMost
    <3>2. OpenedTwiceAtMost'
      BY <2>3, <3>1, OpenedStep DEF OpenedTwiceAtMost
    <3>3. Reads'
      BY <2>1, <2>3, <3>1, OpenedStep, ReadsOpened
    <3> QED
      BY <2>1, <2>3, <3>1, <3>2, <3>3, OpenedStep DEF EngineInv
  <2> QED
    BY <1>1, <2>2, <2>3 DEF DoInitialize
<1>2. ASSUME BudgetExpires PROVE EngineInv'
  <2>1. released' \subseteq 1..opened
    BY <1>2 DEF BudgetExpires
  <2>2. SessionTypes' /\ OpenedTwiceAtMost'
    BY <1>2 DEF BudgetExpires, SessionTypes, OpenedTwiceAtMost
  <2>4. GateTypes'
    BY <1>2, <2>1 DEF BudgetExpires, GateTypes
  <2>3. UNCHANGED <<call, admitted, missed, cg, watched, opened, gate, behind, pending,
                    overtaken, blessed, misled>>
    BY <1>2 DEF BudgetExpires
  <2> QED
    BY <2>2, <2>3, <2>4, StillTrue DEF EngineInv
<1>3. ASSUME NEW s \in Sessions, HandleInitialize(s) PROVE EngineInv'
  <2>1. SessionTypes' /\ UNCHANGED <<call, admitted, missed>>
    BY <1>3 DEF HandleInitialize, EnsureInitialized, SessionTypes
  <2>2. NotOpened /\ (initPromise' => initPromise \/ cg = None)
    BY <1>3 DEF HandleInitialize, EnsureInitialized, NotOpened
  <2> QED
    BY <2>1, <2>2, NotOpenedStep DEF EngineInv, Rest
<1>4. ASSUME NEW s \in Sessions, RootsAnswered(s) PROVE EngineInv'
  <2>1. SessionTypes' /\ UNCHANGED <<call, admitted, missed>>
    BY <1>4 DEF RootsAnswered, EnsureInitialized, SessionTypes
  <2>2. NotOpened /\ (initPromise' => initPromise \/ cg = None)
    BY <1>4 DEF RootsAnswered, EnsureInitialized, NotOpened
  <2> QED
    BY <2>1, <2>2, NotOpenedStep DEF EngineInv, Rest
<1>5. ASSUME NEW c \in ToolCalls, HandleToolsCall(c) PROVE EngineInv'
  <2>1. SessionTypes' /\ UNCHANGED <<admitted, missed>>
    BY <1>5 DEF HandleToolsCall, SessionTypes, CallStates
  <2>2. NotOpened /\ (initPromise' => initPromise \/ cg = None)
    BY <1>5 DEF HandleToolsCall, NotOpened
  <2>3. \A d \in ToolCalls : call'[d] = "runs" <=> call[d] = "runs"
    BY <1>5 DEF HandleToolsCall, SessionTypes
  <2> QED
    BY <2>1, <2>2, <2>3, NotOpenedStep DEF EngineInv, Rest
<1>6. ASSUME NEW c \in ToolCalls, RetryInitIfNeeded(c) PROVE EngineInv'
  <2>1. c[1] \in Sessions
    BY EngineAssumption
  <2>2. /\ sessions' \subseteq Sessions /\ greeted' \subseteq sessions'
        /\ resolve' \in [Sessions -> {"none", "roots", "init"}]
        /\ hint' \in BOOLEAN /\ initPromise' \in BOOLEAN
    BY <1>6 DEF RetryInitIfNeeded, EnsureInitialized, SessionTypes
  <2>3. sessions' = sessions /\ greeted' = greeted
    BY <1>6 DEF RetryInitIfNeeded
  <2>4. c[1] \in greeted /\ c[1] \in sessions /\ call[c] = "init"
    BY <1>6 DEF RetryInitIfNeeded, SessionTypes
  <2>7. rootsAttempted' = rootsAttempted \/ rootsAttempted' = rootsAttempted \cup {c[1]}
    BY <1>6 DEF RetryInitIfNeeded
  <2>8. rootsAttempted' \subseteq sessions'
    BY <2>7, <2>3, <2>4 DEF SessionTypes
  <2>9. (call' = call /\ waits' = waits /\ UNCHANGED <<admitted, missed>>) \/ ToGate(c)
    BY <1>6 DEF RetryInitIfNeeded
  <2>10. /\ UNCHANGED <<admitted, missed>>
         /\ \A d \in ToolCalls : call'[d] = "runs" <=> call[d] = "runs"
    BY <2>4, <2>9 DEF ToGate, SessionTypes
  <2>11. ASSUME gate' \in 0..MaxOpens PROVE SessionTypes'
    <3>1. CASE call' = call /\ waits' = waits
      BY <2>2, <2>3, <2>8, <3>1 DEF SessionTypes
    <3>2. CASE ToGate(c)
      <4>1. call' \in [ToolCalls -> CallStates] /\ waits' \in [ToolCalls -> 0..MaxOpens]
        BY <2>11, <3>2 DEF ToGate, SessionTypes, CallStates
      <4>2. \A d \in ToolCalls : call'[d] # "none" => d[1] \in greeted'
        BY <2>3, <2>4, <3>2 DEF ToGate, SessionTypes
      <4> QED
        BY <2>2, <2>8, <4>1, <4>2 DEF SessionTypes
    <3> QED
      BY <2>9, <3>1, <3>2
  <2>5. CASE NotOpened /\ (initPromise' => initPromise \/ cg = None)
    <3>1. gate' \in 0..MaxOpens
      BY <2>5 DEF NotOpened
    <3> QED
      BY <2>5, <2>10, <2>11, <3>1, NotOpenedStep DEF EngineInv, Rest
  <2>6. CASE cg = None /\ Opened /\ UNCHANGED initPromise
    <3>1. opened = 0
      BY <2>6 DEF OpenedTwiceAtMost
    <3>2. opened' = 1 /\ Rest'
      BY <2>6, <3>1, OpenedStep DEF Rest, OpenedTwiceAtMost
    <3>3. gate' \in 0..MaxOpens
      <4>1. gate' \in 0..opened'
        BY <3>2 DEF Rest, GateTypes
      <4> QED
        BY <3>2, <4>1
    <3>4. Reads'
      BY <2>6, <2>10, <3>1, OpenedStep, ReadsOpened
    <3> QED
      BY <2>11, <3>2, <3>3, <3>4 DEF EngineInv, Rest
  <2> QED
    BY <1>6, <2>5, <2>6 DEF RetryInitIfNeeded, RetryInitializeSync, EnsureInitialized
<1>7. ASSUME NEW c \in ToolCalls, AwaitNextGate(c) PROVE EngineInv'
  <2>2. SessionTypes' /\ UNCHANGED <<call, admitted, missed>>
    BY <1>7 DEF AwaitNextGate, SessionTypes
  <2>3. NotOpened /\ initPromise' = initPromise
    BY <1>7 DEF AwaitNextGate, NotOpened
  <2> QED
    BY <2>2, <2>3, NotOpenedStep DEF EngineInv, Rest
<1>8. ASSUME NEW c \in ToolCalls, RunTool(c) PROVE EngineInv'
  <2>1. UNCHANGED <<sessions, greeted, resolve, rootsAttempted, waits, hint, initPromise, opened,
                    cg, watched, gate, released, lock, sync, behind, pending, overtaken, blessed,
                    misled, unwarned>>
    BY <1>8 DEF RunTool
  <2>2. SessionTypes'
    <3>1. c[1] \in greeted /\ call[c] = "gate"
      BY <1>8 DEF RunTool, Awake, SessionTypes
    <3>2. call' = [call EXCEPT ![c] = "answered"] \/ call' = [call EXCEPT ![c] = "runs"]
      BY <1>8 DEF RunTool
    <3> QED
      BY <2>1, <3>1, <3>2 DEF SessionTypes, CallStates
  <2>3. GateTypes' /\ OpenedTwiceAtMost' /\ EditsArePending'
    <3>1. cached' \in BOOLEAN
      BY <1>8 DEF RunTool, GateTypes
    <3> QED
      BY <2>1, <3>1 DEF GateTypes, OpenedTwiceAtMost, EditsArePending
  <2>4. GateMeansCaughtUp' /\ StaleAnswersAreMarked' /\ (Excused => Excused')
    BY <2>1 DEF GateMeansCaughtUp, StaleAnswersAreMarked, Excused, Deaf
  <2>5. Reads'
    <3>1. CASE cg = None
      <4>1. /\ UNCHANGED <<admitted, missed>>
            /\ \A d \in ToolCalls : call'[d] = "runs" <=> call[d] = "runs"
        BY <1>8, <3>1 DEF RunTool, Awake, SessionTypes
      <4> QED
        BY <2>1, <2>4, <4>1, ReadsKept
    <3>2. CASE cg # None
      <4>1. /\ call' = [call EXCEPT ![c] = "runs"] /\ missed' = [missed EXCEPT ![c] = behind]
            /\ admitted' = IF gate = None THEN admitted ELSE admitted \cup {c}
        BY <1>8, <3>2 DEF RunTool
      <4>2. admitted' \subseteq ToolCalls /\ missed' \in [ToolCalls -> SUBSET Missable]
        <5>1. behind \subseteq Missable
          BY DEF GateTypes, Edits, Missable
        <5> QED
          BY <4>1, <5>1 DEF Reads
      <4>3. ASSUME NEW d \in ToolCalls, d # c PROVE MissedBy(d)'
        <5>1. call'[d] = call[d] /\ missed'[d] = missed[d] /\ (d \in admitted' <=> d \in admitted)
          BY <4>1, <4>3 DEF SessionTypes, Reads
        <5> QED
          BY <2>1, <2>4, <5>1 DEF Reads, MissedBy
      <4>4. MissedBy(c)'
        <5>1. call'[c] = "runs" /\ missed'[c] = behind /\ (gate = None \/ c \in admitted')
          BY <4>1 DEF SessionTypes, Reads
        <5> QED
          BY <2>1, <2>4, <3>2, <5>1 DEF MissedBy, EditsArePending, GateMeansCaughtUp
      <4> QED
        BY <2>1, <3>2, <4>2, <4>3, <4>4 DEF Reads
    <3> QED
      BY <3>1, <3>2
  <2> QED
    BY <2>2, <2>3, <2>4, <2>5 DEF EngineInv
<1>9. ASSUME NEW c \in ToolCalls, Answer(c) PROVE EngineInv'
  <2>1. UNCHANGED <<sessions, greeted, resolve, rootsAttempted, waits, hint, initPromise, opened,
                    cg, watched, cached, gate, released, lock, sync, behind, pending, overtaken,
                    blessed>>
    BY <1>9 DEF Answer
  <2>2. call[c] = "runs" /\ call' = [call EXCEPT ![c] = "answered"]
        /\ admitted' = admitted \ {c} /\ missed' = [missed EXCEPT ![c] = {}]
    BY <1>9 DEF Answer
  <2>3. SessionTypes' /\ OpenedTwiceAtMost' /\ EditsArePending'
    BY <2>1, <2>2 DEF SessionTypes, OpenedTwiceAtMost, EditsArePending, CallStates
  <2>4. GateMeansCaughtUp' /\ (Excused => Excused')
    BY <2>1 DEF GateMeansCaughtUp, Excused, Deaf
  <2>5. Reads'
    <3>1. ASSUME NEW d \in ToolCalls, d # c
          PROVE  (call'[d] = "runs" => cg' # None) /\ MissedBy(d)'
      <4>1. call'[d] = call[d] /\ missed'[d] = missed[d] /\ (d \in admitted' <=> d \in admitted)
        BY <2>2, <3>1 DEF SessionTypes, Reads
      <4> QED
        BY <2>1, <2>4, <4>1 DEF Reads, MissedBy
    <3>2. call'[c] = "answered" /\ missed'[c] = {}
      BY <2>2 DEF SessionTypes, Reads
    <3>3. (call'[c] = "runs" => cg' # None) /\ MissedBy(c)'
      BY <3>2 DEF MissedBy
    <3>4. admitted' \subseteq ToolCalls /\ missed' \in [ToolCalls -> SUBSET Missable]
      BY <2>2 DEF Reads
    <3> QED
      BY <3>1, <3>3, <3>4 DEF Reads
  <2>6. PICK byPath \in {FALSE, cached}, named \in SUBSET missed[c] :
          LET instance == IF byPath THEN None ELSE cg
              unmarked == {e \in missed[c] \ {"unheard"} : ~Noticed(e, c \in admitted, instance)}
          IN /\ misled' = misled \cup (named \cap unmarked)
             /\ unwarned' = (unwarned \/ ("heard" \in missed[c] \ named /\ c \notin admitted))
    BY <1>9 DEF Answer
  <2>7. ASSUME NEW e \in misled', e \notin misled
        PROVE  /\ e \in missed[c] /\ c \notin admitted
               /\ e = "heard" => ~pending \/ watched # cg
    BY <2>6, <2>7 DEF Noticed
  <2>8. GateTypes'
    <3>1. misled' \subseteq Missable
      <4>1. missed[c] \subseteq Missable /\ misled \subseteq Missable
        BY DEF Reads, GateTypes
      <4> QED
        BY <2>7, <4>1
    <3>2. unwarned' \in BOOLEAN
      BY <2>6 DEF GateTypes
    <3> QED
      BY <2>1, <3>1, <3>2 DEF GateTypes
  <2>9. ASSUME "untold" \in misled' PROVE Excused'
    <3>1. CASE "untold" \in misled
      BY <2>4, <3>1 DEF StaleAnswersAreMarked, Excused
    <3>2. CASE "untold" \notin misled
      <4>1. "untold" \in missed[c] /\ c \notin admitted
        BY <2>7, <2>9, <3>2
      <4> QED
        BY <2>4, <4>1 DEF Reads, MissedBy
    <3> QED
      BY <3>1, <3>2
  <2>10. ASSUME "heard" \in misled' PROVE overtaken'
    <3>1. CASE "heard" \in misled
      BY <2>1, <3>1 DEF StaleAnswersAreMarked
    <3>2. CASE "heard" \notin misled
      <4>1. "heard" \in missed[c] /\ (~pending \/ watched # cg)
        BY <2>7, <2>10, <3>2
      <4>2. pending /\ cg # None
        BY <2>2, <4>1 DEF Reads, MissedBy
      <4>3. watched = 1 /\ cg = 2
        BY <4>1, <4>2 DEF EditsArePending, OpenedTwiceAtMost
      <4> QED
        BY <2>1, <4>3 DEF OpenedTwiceAtMost
    <3> QED
      BY <3>1, <3>2
  <2>11. StaleAnswersAreMarked'
    BY <2>9, <2>10 DEF StaleAnswersAreMarked, Excused
  <2> QED
    BY <2>3, <2>4, <2>5, <2>8, <2>11 DEF EngineInv
<1>10. ASSUME Edit PROVE EngineInv'
  <2>1. UNCHANGED <<sessions, greeted, resolve, rootsAttempted, call, waits, admitted, hint,
                    initPromise, opened, cg, watched, cached, gate, released, lock, sync, pending,
                    overtaken, blessed, misled, unwarned>>
    BY <1>10 DEF Edit
  <2>2. PICK e \in {"untold", "unheard"} :
          /\ e = "untold" <=> watched = None
          /\ behind' = behind \cup {e}
          /\ missed' = [c \in ToolCalls |->
                          IF c \in Running THEN missed[c] \cup {e} ELSE missed[c]]
    BY <1>10, Zenon DEF Edit
  <2>3. SessionTypes' /\ OpenedTwiceAtMost' /\ StaleAnswersAreMarked' /\ (Excused => Excused')
    BY <2>1 DEF SessionTypes, OpenedTwiceAtMost, StaleAnswersAreMarked, Excused, Deaf
  <2>4. GateTypes' /\ EditsArePending'
    BY <2>1, <2>2 DEF GateTypes, EditsArePending, Edits
  <2>5. cg # None /\ watched = None => Excused'
    BY <2>1 DEF Excused, Deaf, OpenedTwiceAtMost
  <2>6. GateMeansCaughtUp'
    BY <2>1, <2>2, <2>3, <2>5 DEF GateMeansCaughtUp
  <2>7. missed' \in [ToolCalls -> SUBSET Missable]
    BY <2>2 DEF Reads, Missable, Edits
  <2>8. ASSUME NEW c \in ToolCalls PROVE (call'[c] = "runs" => cg' # None) /\ MissedBy(c)'
    <3>1. (call[c] = "runs" => cg # None) /\ MissedBy(c)
      BY DEF Reads
    <3>2. missed'[c] = missed[c] \/ (call[c] = "runs" /\ missed'[c] = missed[c] \cup {e})
      BY <2>2 DEF Running
    <3> QED
      BY <2>1, <2>2, <2>3, <2>5, <3>1, <3>2 DEF MissedBy
  <2>9. Reads'
    BY <2>1, <2>7, <2>8 DEF Reads
  <2> QED
    BY <2>3, <2>4, <2>6, <2>9 DEF EngineInv
<1>11. ASSUME Hear PROVE EngineInv'
  <2>1. UNCHANGED <<sessions, greeted, resolve, rootsAttempted, call, waits, admitted, hint,
                    initPromise, opened, cg, watched, cached, gate, released, lock, sync,
                    overtaken, blessed, misled, unwarned>>
    BY <1>11 DEF Hear
  <2>2. /\ behind' = Heard(behind) /\ pending' = TRUE
        /\ missed' = [c \in ToolCalls |-> Heard(missed[c])]
    BY <1>11 DEF Hear
  <2>3. watched # None
    <3>1. "unheard" \in behind \/ \E c \in ToolCalls : "unheard" \in missed[c]
      BY <1>11 DEF Hear
    <3> QED
      BY <3>1 DEF EditsArePending, Reads, MissedBy
  <2>4. SessionTypes' /\ OpenedTwiceAtMost' /\ StaleAnswersAreMarked' /\ (Excused => Excused')
    BY <2>1 DEF SessionTypes, OpenedTwiceAtMost, StaleAnswersAreMarked, Excused, Deaf
  <2>5. behind' \subseteq Edits /\ ("untold" \in behind' => "untold" \in behind)
    BY <2>2 DEF Heard, GateTypes, Edits
  <2>6. GateTypes' /\ EditsArePending' /\ GateMeansCaughtUp'
    BY <2>1, <2>2, <2>3, <2>4, <2>5 DEF GateTypes, EditsArePending, GateMeansCaughtUp
  <2>7. missed' \in [ToolCalls -> SUBSET Missable]
    BY <2>2 DEF Reads, Heard, Missable, Edits
  <2>8. ASSUME NEW c \in ToolCalls PROVE (call'[c] = "runs" => cg' # None) /\ MissedBy(c)'
    <3>1. (call[c] = "runs" => cg # None) /\ MissedBy(c)
      BY DEF Reads
    <3>2. missed'[c] = Heard(missed[c])
      BY <2>2
    <3>3. (missed'[c] # {} => missed[c] # {}) /\ ("untold" \in missed'[c] => "untold" \in missed[c])
      BY <3>2 DEF Heard
    <3> QED
      BY <2>1, <2>2, <2>3, <2>4, <3>1, <3>3 DEF MissedBy
  <2>9. Reads'
    BY <2>1, <2>7, <2>8 DEF Reads
  <2> QED
    BY <2>4, <2>6, <2>9 DEF EngineInv
<1>12. ASSUME WatcherSyncs PROVE EngineInv'
  <2>1. UNCHANGED <<sessions, greeted, resolve, rootsAttempted, call, waits, admitted, hint,
                    initPromise, opened, cg, watched, cached, gate, released, lock, sync,
                    overtaken, misled, unwarned>>
    BY <1>12 DEF WatcherSyncs
  <2>2. /\ pending' = FALSE /\ watched # None /\ (blessed => blessed') /\ blessed' \in BOOLEAN
        /\ behind' \subseteq (behind \ {"heard"}) \cup {"untold"}
        /\ "untold" \in behind' => "untold" \in behind \/ blessed'
    <3>1. pending /\ pending' = FALSE /\ watched # None
      BY <1>12 DEF WatcherSyncs, EditsArePending
    <3>2. \/ blessed' = blessed /\ behind' = behind \ {"heard"}
          \/ blessed' = TRUE /\ behind' = Dropped(behind, "untold")
      BY <1>12, Zenon DEF WatcherSyncs
    <3> QED
      BY <3>1, <3>2 DEF Dropped, GateTypes
  <2>3. PICK kind \in {"synced", "untold"} :
          /\ missed' = [c \in ToolCalls |-> Dropped(missed[c], kind)]
          /\ kind = "untold" => blessed'
    BY <1>12 DEF WatcherSyncs
  <2>4. SessionTypes' /\ OpenedTwiceAtMost' /\ StaleAnswersAreMarked' /\ (Excused => Excused')
    BY <2>1, <2>2 DEF SessionTypes, OpenedTwiceAtMost, StaleAnswersAreMarked, Excused, Deaf
  <2>5. GateTypes' /\ EditsArePending'
    BY <2>1, <2>2 DEF GateTypes, EditsArePending, Edits
  <2>6. GateMeansCaughtUp'
    BY <2>1, <2>2, <2>4 DEF GateMeansCaughtUp, Excused
  <2>7. missed' \in [ToolCalls -> SUBSET Missable]
    BY <2>3 DEF Reads, Dropped, Missable, Edits
  <2>8. ASSUME NEW c \in ToolCalls PROVE (call'[c] = "runs" => cg' # None) /\ MissedBy(c)'
    <3>1. (call[c] = "runs" => cg # None) /\ MissedBy(c)
      BY DEF Reads
    <3>2. missed'[c] = Dropped(missed[c], kind)
      BY <2>3
    <3>3. /\ missed'[c] # {} => missed[c] # {}
          /\ "heard" \notin missed'[c]
          /\ "untold" \in missed'[c] => "untold" \in missed[c] \/ blessed'
      BY <2>3, <3>2 DEF Dropped
    <3> QED
      BY <2>1, <2>2, <2>4, <3>1, <3>3 DEF MissedBy, Excused
  <2>9. Reads'
    BY <2>1, <2>7, <2>8 DEF Reads
  <2> QED
    BY <2>4, <2>5, <2>6, <2>9 DEF EngineInv
<1>13. ASSUME OtherLocks PROVE EngineInv'
  <2>1. lock' \in 0..opened \cup {MaxOpens + 1}
    BY <1>13 DEF OtherLocks, Other, OpenedTwiceAtMost
  <2>2. SessionTypes' /\ GateTypes' /\ OpenedTwiceAtMost'
    BY <1>13, <2>1 DEF OtherLocks, SessionTypes, GateTypes, OpenedTwiceAtMost
  <2>3. UNCHANGED <<call, admitted, missed, cg, watched, opened, gate, behind, pending,
                    overtaken, blessed, misled>>
    BY <1>13 DEF OtherLocks
  <2> QED
    BY <2>2, <2>3, StillTrue DEF EngineInv
<1>14. ASSUME NEW i \in Instances, CatchUpDone(i) PROVE EngineInv'
  <2>1. i \in 1..opened /\ opened \in 1..2
    BY <1>14 DEF CatchUpDone, OpenedTwiceAtMost
  <2>2. UNCHANGED <<sessions, greeted, resolve, rootsAttempted, call, waits, admitted, missed, hint,
                    initPromise, opened, cg, watched, cached, pending, overtaken, misled, unwarned>>
    BY <1>14 DEF CatchUpDone
  <2>3. lock' \in 0..opened \cup {MaxOpens + 1} /\ gate' \in 0..opened /\ released' \subseteq 1..opened
    <3>1. lock \in 0..opened \cup {MaxOpens + 1}
      BY DEF GateTypes
    <3>2. lock' \in {lock, 0} /\ gate' \in {gate, 0} /\ released' = released \cup {i}
      BY <1>14 DEF CatchUpDone, Free, Complete, Fail
    <3> QED
      BY <2>1, <3>1, <3>2
  <2>4. /\ sync' \in [Instances -> {"none", "holds", "shut out"}]
        /\ \A k \in Instances : sync'[k] # "none" => sync'[k] = sync[k]
    BY <1>14 DEF CatchUpDone, GateTypes
  <2>5. behind' \subseteq behind /\ (blessed => blessed') /\ blessed' \in BOOLEAN
    <3>1. behind' \in SUBSET behind
      BY <1>14 DEF CatchUpDone
    <3>2. blessed' = blessed \/ blessed' = TRUE
      BY <1>14, Zenon DEF CatchUpDone
    <3> QED
      BY <3>1, <3>2 DEF GateTypes
  <2>6. SessionTypes' /\ StaleAnswersAreMarked' /\ EditsArePending' /\ (Excused => Excused')
    BY <2>2, <2>5 DEF SessionTypes, EditsArePending, StaleAnswersAreMarked, Excused, Deaf
  <2>7. OpenedTwiceAtMost'
    BY <2>2, <2>4 DEF OpenedTwiceAtMost
  <2>8. GateTypes'
    BY <2>2, <2>3, <2>4, <2>5 DEF GateTypes
  <2>9. gate' = gate \/ "untold" \notin behind' \/ watched = None \/ blessed'
    BY <1>14 DEF CatchUpDone, Complete, Fail
  <2>10. GateMeansCaughtUp'
    BY <2>1, <2>2, <2>5, <2>6, <2>9 DEF GateMeansCaughtUp, Excused, Deaf
  <2>11. Reads'
    BY <2>2, <2>6, ReadsKept
  <2> QED
    BY <2>6, <2>7, <2>8, <2>10, <2>11 DEF EngineInv
<1>15. ASSUME NEW i \in Instances, CatchUpSkipped(i) PROVE EngineInv'
  <2>1. i \in 1..opened /\ opened \in 0..2
    <3>1. sync[i] # "none"
      BY <1>15 DEF CatchUpSkipped
    <3>2. i <= opened
      BY <3>1 DEF OpenedTwiceAtMost
    <3>3. i \in Nat /\ i >= 1
      BY <1>15
    <3> QED
      BY <3>2, <3>3
  <2>2. UNCHANGED <<sessions, greeted, resolve, rootsAttempted, call, waits, admitted, missed, hint,
                    initPromise, opened, cg, watched, cached, lock, behind, pending, overtaken,
                    misled, unwarned>>
    BY <1>15 DEF CatchUpSkipped
  <2>3. gate' \in 0..opened /\ released' \subseteq 1..opened /\ blessed' = TRUE
    <3>1. gate' \in {gate, 0} /\ released' = released \cup {i} /\ blessed' = TRUE
      BY <1>15 DEF CatchUpSkipped, Complete
    <3> QED
      BY <2>1, <3>1
  <2>4. /\ sync' \in [Instances -> {"none", "holds", "shut out"}]
        /\ \A k \in Instances : sync'[k] # "none" => sync'[k] = sync[k]
    BY <1>15 DEF CatchUpSkipped, GateTypes
  <2>5. SessionTypes' /\ StaleAnswersAreMarked' /\ EditsArePending' /\ GateMeansCaughtUp' /\ Excused'
    BY <2>2, <2>3 DEF SessionTypes, EditsArePending, GateMeansCaughtUp, StaleAnswersAreMarked,
       Excused, Deaf
  <2>6. OpenedTwiceAtMost'
    BY <2>2, <2>4 DEF OpenedTwiceAtMost
  <2>7. GateTypes'
    BY <2>2, <2>3, <2>4 DEF GateTypes
  <2>8. Reads'
    BY <2>2, <2>5, ReadsKept
  <2> QED
    BY <2>5, <2>6, <2>7, <2>8 DEF EngineInv
<1>16. ASSUME UNCHANGED engineVars PROVE EngineInv'
  <2>1. SessionTypes' /\ NotOpened /\ UNCHANGED <<initPromise, call, admitted, missed>>
    BY <1>16 DEF SessionTypes, NotOpened
  <2> QED
    BY <2>1, NotOpenedStep DEF EngineInv, Rest
<1> QED
  BY <1>1, <1>2, <1>3, <1>4, <1>5, <1>6, <1>7, <1>8, <1>9, <1>10,
     <1>11, <1>12, <1>13, <1>14, <1>15, <1>16 DEF EngineNext, Server, Syncs

\* An answer of the default project that shows a stale file says so, but for the
\* causes StaleAnswersAreMarked lists: for any number of sessions and calls
\* (setCatchUpGate, awaitCatchUpBudget, withStalenessNotice, doInitialize).
THEOREM StalenessIsMarked == EngineSpec => []StaleAnswersAreMarked
<1>1. EngineInv => StaleAnswersAreMarked
  BY DEF EngineInv
<1> QED
  BY <1>1, InitEngineInv, StepEngineInv, PTL DEF EngineSpec

\* The variables keep their types; among them, two openings at most were made.
THEOREM EngineTypeCorrect == EngineSpec => []EngineTypeOK
<1>1. EngineInv => EngineTypeOK
  BY EngineTypes DEF EngineInv
<1> QED
  BY <1>1, InitEngineInv, StepEngineInv, PTL DEF EngineSpec

=============================================================================
