---------------------------- MODULE WatcherProofs ----------------------------
(***************************************************************************)
(* Proofs about Watcher, for every set of files and directories and every  *)
(* value of the other constants.                                           *)
(***************************************************************************)
EXTENDS Watcher, TLAPS

\* The initial states are well typed.
LEMMA TypeCorrectInit == Init => TypeOK
<1> SUFFICES ASSUME Init PROVE TypeOK
  OBVIOUS
<1>1. 1 \in 0..MaxChanges + 1 /\ 0 \in 0..MaxChanges + 1 /\ changes \in 0..MaxChanges
  BY WatcherAssumption DEF Init
<1>2. index \in [Files -> 0..MaxChanges + 1]
  BY <1>1 DEF Init
<1>3. disk \in [Files -> 0..MaxChanges + 1]
  BY <1>1 DEF Init
<1> QED
  BY <1>1, <1>2, <1>3 DEF Init, TypeOK

\* Every step of the tree, the handlers and the sync preserves the types.
LEMMA TypeCorrectStep == TypeOK /\ [Next]_vars => TypeOK'
<1> SUFFICES ASSUME TypeOK, [Next]_vars PROVE TypeOK'
  OBVIOUS
<1> USE WatcherAssumption DEF TypeOK, fsVars, watcherVars, syncVars, history, Afresh, Mark, SyncEnds
<1>1. ASSUME NEW f \in Files, Write(f) PROVE TypeOK'
  BY <1>1 DEF Write
<1>2. ASSUME NEW f \in Files, Delete(f) PROVE TypeOK'
  BY <1>2 DEF Delete
<1>3. ASSUME NEW f \in Files, OtherSync(f) PROVE TypeOK'
  BY <1>3 DEF OtherSync
<1>4. ASSUME NEW d \in Dirs, RemoveDir(d) PROVE TypeOK'
  BY <1>4 DEF RemoveDir, In
<1>5. ASSUME NEW d \in Dirs, MakeDir(d) PROVE TypeOK'
  BY <1>5 DEF MakeDir
<1>6. CASE Start
  BY <1>6 DEF Start
<1>7. CASE Stop
  BY <1>7 DEF Stop
<1>8. ASSUME NEW f \in Files, HandleFile(f) PROVE TypeOK'
  BY <1>8 DEF HandleFile, SeenNow
<1>9. ASSUME NEW d \in Dirs, HandleMissingDir(d) PROVE TypeOK'
  BY <1>9 DEF HandleMissingDir
<1>10. ASSUME NEW d \in Dirs, HandleDirRecursive(d) PROVE TypeOK'
  BY <1>10 DEF HandleDirRecursive
<1>11. ASSUME NEW d \in Dirs, HandleDirPerDirectory(d) PROVE TypeOK'
  <2> DEFINE marked == IF CanWatch(d) THEN {f \in In(d) : disk[f] # 0} ELSE {}
  <2>1. marked \subseteq Files
    BY DEF In
  <2>2. PICK seen \in SeenNow : Mark(marked, seen)
    BY <1>11 DEF HandleDirPerDirectory
  <2>3. /\ timer' = (timer \/ marked # {})
        /\ report' = [f \in Files |-> IF f \in marked THEN "file" ELSE report[f]]
        /\ events' = events \ {d}
        /\ dirWatchers' \subseteq Dirs /\ attached' \subseteq Dirs
        /\ UNCHANGED <<recursive, changes, disk, dirs, ready, stopped,
                       needsFullScan, syncVars>>
    BY <1>11 DEF HandleDirPerDirectory
  <2> HIDE DEF marked
  <2>4. pending' \in [Files -> {"none", "old", "new"}]
    BY <2>2 DEF SeenNow
  <2> QED
    BY <2>1, <2>2, <2>3, <2>4
<1>12. CASE TimerFires
  BY <1>12 DEF TimerFires, Pending, ScopeDescribesWork
<1>13. CASE SyncBegins
  BY <1>13 DEF SyncBegins
<1>14. CASE SyncLockUnavailable
  BY <1>14 DEF SyncLockUnavailable, Reschedule
<1>15. ASSUME NEW f \in Files, SyncReads(f) PROVE TypeOK'
  BY <1>15 DEF SyncReads
<1>16. ASSUME NEW f \in Files, SyncFileFails(f) PROVE TypeOK'
  BY <1>16 DEF SyncFileFails
<1>17. ASSUME NEW f \in Files, SyncFileSkipped(f) PROVE TypeOK'
  BY <1>17 DEF SyncFileSkipped
<1>18. CASE SyncSucceeds
  BY <1>18 DEF SyncSucceeds, Reschedule
<1>19. CASE SyncIncomplete
  BY <1>19 DEF SyncIncomplete, Reschedule
<1>20. CASE UNCHANGED vars
  BY <1>20 DEF vars
<1> QED
  BY <1>1, <1>2, <1>3, <1>4, <1>5, <1>6, <1>7, <1>8, <1>9, <1>10, <1>11,
     <1>12, <1>13, <1>14, <1>15, <1>16, <1>17, <1>18, <1>19, <1>20
     DEF Next, Environment, Handlers, Sync

\* Every reachable state of the watcher, its sync and the tree is well typed.
THEOREM TypeCorrect == Spec => []TypeOK
  BY TypeCorrectInit, TypeCorrectStep, PTL DEF Spec

-----------------------------------------------------------------------------
(* The safety properties.  NoReportedChangeForgotten is not inductive: that   *)
(* a sync which ends well may drop its old entries follows from              *)
(* IndexingIsHonest, and a watcher that starts has nothing to account for    *)
(* because nothing is reported, and no full scan owed, before it does.  A     *)
(* row may be deleted of a file that has come back since the sync began only  *)
(* because its return was noticed (LateIsNoticed).                            *)

BeforeStart ==
    /\ ~ready => \A f \in Files : report[f] = "none"
    /\ ~ready /\ ~stopped => ~needsFullScan

LateIsNoticed ==
    \A f \in todo \ listed :
        phase = "running" /\ ready /\ disk[f] # 0 /\ report[f] = "file" =>
            f \in events \/ pending[f] = "new" \/ f \in tied

IInv ==
    /\ TypeOK
    /\ BeforeStart
    /\ LateIsNoticed
    /\ WorkIsScheduled
    /\ NoReportedChangeForgotten
    /\ IndexingIsHonest

\* The inductive invariant holds initially.
LEMMA InitIInv == Init => IInv
<1> SUFFICES ASSUME Init PROVE IInv
  OBVIOUS
<1>1. TypeOK
  BY TypeCorrectInit
<1> QED
  BY <1>1 DEF Init, IInv, BeforeStart, WorkIsScheduled, NoReportedChangeForgotten,
     IndexingIsHonest, Pending, Stale, WillTreat, LateIsNoticed, LetGo

\* Every step preserves the inductive invariant.
LEMMA StepIInv == IInv /\ [Next]_vars => IInv'
<1> SUFFICES ASSUME IInv, [Next]_vars PROVE IInv'
  OBVIOUS
<1> DEFINE Safe == /\ BeforeStart /\ WorkIsScheduled /\ LateIsNoticed
                   /\ NoReportedChangeForgotten /\ IndexingIsHonest
<1>0. TypeOK'
  BY TypeCorrectStep DEF IInv
<1> USE DEF IInv, TypeOK, BeforeStart, WorkIsScheduled, NoReportedChangeForgotten,
            IndexingIsHonest, Pending, Stale, WillTreat, fsVars, watcherVars, syncVars,
            LateIsNoticed, LetGo, history, Afresh, Mark, SyncEnds
<1>1. ASSUME NEW f \in Files, Write(f) PROVE Safe'
  BY <1>1 DEF Write, Watched
<1>2. ASSUME NEW f \in Files, Delete(f) PROVE Safe'
  BY <1>2 DEF Delete, Watched
<1>3. ASSUME NEW f \in Files, OtherSync(f) PROVE Safe'
  BY <1>3 DEF OtherSync
<1>4. ASSUME NEW d \in Dirs, RemoveDir(d) PROVE Safe'
  BY <1>4 DEF RemoveDir
<1>5. ASSUME NEW d \in Dirs, MakeDir(d) PROVE Safe'
  BY <1>5 DEF MakeDir
<1>6. ASSUME Start PROVE Safe'
  BY <1>6 DEF Start
<1>7. ASSUME Stop PROVE Safe'
  BY <1>7 DEF Stop
<1>8. ASSUME NEW f \in Files, HandleFile(f) PROVE Safe'
  BY <1>8 DEF HandleFile, SeenNow
<1>9. ASSUME NEW d \in Dirs, HandleMissingDir(d) PROVE Safe'
  BY <1>9, WatcherAssumption DEF HandleMissingDir
<1>10. ASSUME NEW d \in Dirs, HandleDirRecursive(d) PROVE Safe'
  BY <1>10, WatcherAssumption DEF HandleDirRecursive
<1>11. ASSUME NEW d \in Dirs, HandleDirPerDirectory(d) PROVE Safe'
  <2> DEFINE marked == IF CanWatch(d) THEN {f \in In(d) : disk[f] # 0} ELSE {}
  <2>1. marked \subseteq Files /\ d \notin Files
    BY WatcherAssumption DEF In
  <2>2. PICK seen \in SeenNow : Mark(marked, seen)
    BY <1>11 DEF HandleDirPerDirectory
  <2>3. /\ ready
        /\ timer' = (timer \/ marked # {})
        /\ report' = [f \in Files |-> IF f \in marked THEN "file" ELSE report[f]]
        /\ events' = events \ {d}
        /\ UNCHANGED <<recursive, changes, disk, dirs, ready, stopped,
                       needsFullScan, syncVars>>
    BY <1>11 DEF HandleDirPerDirectory
  <2> HIDE DEF marked
  <2>4. seen = "new" \/ (seen = "old" /\ phase # "idle")
    BY <2>2 DEF SeenNow
  <2>5. (BeforeStart /\ WorkIsScheduled /\ LateIsNoticed)'
    BY <2>1, <2>2, <2>3, <2>4
  <2>6. NoReportedChangeForgotten'
    BY <2>1, <2>2, <2>3, <2>4
  <2>7. IndexingIsHonest'
    BY <2>1, <2>2, <2>3, <2>4
  <2> QED
    BY <2>5, <2>6, <2>7
<1>12. ASSUME TimerFires PROVE Safe'
  BY <1>12 DEF TimerFires, ScopeDescribesWork
<1>13. ASSUME SyncBegins PROVE Safe'
  BY <1>13 DEF SyncBegins
<1>14. ASSUME SyncLockUnavailable PROVE Safe'
  BY <1>14 DEF SyncLockUnavailable, Reschedule
<1>15. ASSUME NEW f \in Files, SyncReads(f) PROVE Safe'
  BY <1>15 DEF SyncReads
<1>16. ASSUME NEW f \in Files, SyncFileFails(f) PROVE Safe'
  BY <1>16 DEF SyncFileFails
<1>17. ASSUME NEW f \in Files, SyncFileSkipped(f) PROVE Safe'
  BY <1>17 DEF SyncFileSkipped
<1>18. ASSUME SyncSucceeds PROVE Safe'
  BY <1>18 DEF SyncSucceeds, Reschedule
<1>19. ASSUME SyncIncomplete PROVE Safe'
  BY <1>19 DEF SyncIncomplete, Reschedule
<1>20. ASSUME UNCHANGED vars PROVE Safe'
  BY <1>20 DEF vars
<1> QED
  BY <1>0, <1>1, <1>2, <1>3, <1>4, <1>5, <1>6, <1>7, <1>8, <1>9, <1>10, <1>11, <1>12, <1>13, <1>14, <1>15, <1>16, <1>17, <1>18, <1>19, <1>20
     DEF Next, Environment, Handlers, Sync

\* No change reported to the running watcher is ever forgotten: until the index
\* is right, its event is on the way or the file is in pendingFiles, or it is
\* one that a sync passed over or whose event came in the millisecond of its
\* start.
THEOREM NothingForgotten == Spec => []NoReportedChangeForgotten
<1>1. IInv /\ [Next]_vars => IInv'
  BY StepIInv
<1>2. IInv => NoReportedChangeForgotten
  BY DEF IInv
<1> QED
  BY <1>1, <1>2, InitIInv, PTL DEF Spec

\* What the banner shows as being indexed is in the hands of the sync in flight,
\* short of the same two.
THEOREM IndexingHonest == Spec => []IndexingIsHonest
<1>1. IInv /\ [Next]_vars => IInv'
  BY StepIInv
<1>2. IInv => IndexingIsHonest
  BY DEF IInv
<1> QED
  BY <1>1, <1>2, InitIInv, PTL DEF Spec

\* The watcher never sits on pending work without a timer or a sync.
THEOREM AlwaysScheduled == Spec => []WorkIsScheduled
<1>1. IInv /\ [Next]_vars => IInv'
  BY StepIInv
<1>2. IInv => WorkIsScheduled
  BY DEF IInv
<1> QED
  BY <1>1, <1>2, InitIInv, PTL DEF Spec

=============================================================================
