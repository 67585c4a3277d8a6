------------------------ MODULE ScannerSchedulerProofs ------------------------
(***************************************************************************)
(* Theorems about ScannerScheduler, for any number of instances: its       *)
(* types, that one instance at a time has a live session with the lock,    *)
(* that a scanner that is ON has a loop, and that an instance without the  *)
(* lock begins at most one more scheduled run.                             *)
(***************************************************************************)
EXTENDS ScannerScheduler, TLAPS

(* A live session holds the lock, so two instances never have one each     *)
(* (pg_try_advisory_lock in ScannerSchedulerLease.acquire).                *)
LiveSessionHoldsLock == \A i \in Instance : conn[i] = "live" => lock = i

(* A run is late only after the session was lost, and the one run that may *)
(* be is the refresh behind a full scan: a loop that still has that        *)
(* refresh before it has had none.                                         *)
LateRunIsTheRefresh ==
    \A i \in Instance :
        conn[i] = "live" \/ loop[i] = "fullRefresh" => late[i] = 0

IInv ==
    /\ TypeOK
    /\ LiveSessionHoldsLock
    /\ EnabledHasScheduler
    /\ LateRunIsTheRefresh

-----------------------------------------------------------------------------

LEMMA TypePreserved == IInv /\ [Next]_vars => TypeOK'
<1> SUFFICES ASSUME IInv, [Next]_vars PROVE TypeOK'
  OBVIOUS
<1> USE DEF IInv, TypeOK, InRun, Due
<1>1. CASE UNCHANGED vars
  BY <1>1 DEF vars
<1>2. ASSUME NEW i \in Instance, FullDue(i) \/ RefreshDue(i) PROVE TypeOK'
  BY <1>2 DEF FullDue, RefreshDue
<1>3. ASSUME NEW i \in Instance,
             LoseSession(i) \/ StrandSession(i) \/ EndSession(i)
      PROVE  TypeOK'
  BY <1>3 DEF LoseSession, StrandSession, EndSession, Unlocked
<1>4. ASSUME NEW i \in Instance, Start(i) PROVE TypeOK'
  BY <1>4 DEF Start, Ensured, FirstFull
<1>5. ASSUME NEW i \in Instance, Stop(i) PROVE TypeOK'
  BY <1>5 DEF Stop, Release
<1>6. ASSUME NEW i \in Instance, StartRefused(i) \/ Status(i) \/ RunNow(i)
      PROVE  TypeOK'
  BY <1>6 DEF StartRefused, Status, RunNow
<1>7. ASSUME NEW i \in Instance, Crash(i) PROVE TypeOK'
  <2>1. lock' \in Instance \cup {None} /\ kept' \in BOOLEAN
    BY <1>7 DEF Crash, Unlocked
  <2> QED
    BY <2>1, <1>7 DEF Crash
<1>8. ASSUME NEW i \in Instance, FailClosed(i) PROVE TypeOK'
  BY <1>8 DEF FailClosed
<1>9. ASSUME NEW i \in Instance, IterateFull(i) PROVE TypeOK'
  BY <1>9 DEF IterateFull, Begin, Validated
<1>10. ASSUME NEW i \in Instance, IterateRefresh(i) PROVE TypeOK'
  BY <1>10 DEF IterateRefresh, Begin, Validated
<1>11. ASSUME NEW i \in Instance, EndFull(i) PROVE TypeOK'
  (* The refresh that follows is the first late run, if it is one. *)
  BY <1>11 DEF EndFull, Begin, Rescheduled, LateRunIsTheRefresh
<1>12. ASSUME NEW i \in Instance, EndRefresh(i) PROVE TypeOK'
  BY <1>12 DEF EndRefresh
<1>13. ASSUME NEW i \in Instance, EndDying(i) \/ EndManual(i) PROVE TypeOK'
  BY ZenonT(40), <1>13 DEF EndDying, EndManual, Rescheduled
<1> QED
  BY <1>1, <1>2, <1>3, <1>4, <1>5, <1>6, <1>7, <1>8, <1>9, <1>10, <1>11, <1>12,
     <1>13
  DEF Next, Iterate, EndRun

(* Only start, stop, status, a crash, a session that fails or ends and the *)
(* fail-closed branch touch the lock or a connection.                      *)
LEMMA LockPreserved == IInv /\ [Next]_vars => LiveSessionHoldsLock'
<1> SUFFICES ASSUME IInv, [Next]_vars PROVE LiveSessionHoldsLock'
  OBVIOUS
<1> USE SchedulerAssumption DEF IInv, TypeOK, LiveSessionHoldsLock
<1>1. CASE UNCHANGED <<lock, conn>>
  BY <1>1
<1>2. ASSUME NEW i \in Instance,
             LoseSession(i) \/ StrandSession(i) \/ EndSession(i)
      PROVE  LiveSessionHoldsLock'
  BY <1>2 DEF LoseSession, StrandSession, EndSession, Unlocked
<1>3. ASSUME NEW i \in Instance, Start(i) PROVE LiveSessionHoldsLock'
  BY <1>3 DEF Start, Acquires
<1>4. ASSUME NEW i \in Instance, Stop(i) PROVE LiveSessionHoldsLock'
  BY <1>4 DEF Stop, Release
<1>5. ASSUME NEW i \in Instance, StartRefused(i) \/ Status(i) \/ FailClosed(i)
      PROVE  LiveSessionHoldsLock'
  BY <1>5 DEF StartRefused, Status, FailClosed
<1>6. ASSUME NEW i \in Instance, Crash(i) PROVE LiveSessionHoldsLock'
  BY <1>6 DEF Crash, Unlocked
<1>7. ASSUME NEW i \in Instance,
             \/ FullDue(i) \/ RefreshDue(i) \/ RunNow(i)
             \/ IterateFull(i) \/ IterateRefresh(i) \/ EndRun(i)
      PROVE  UNCHANGED <<lock, conn>>
  BY <1>7 DEF FullDue, RefreshDue, RunNow, IterateFull, IterateRefresh,
              EndRun, EndFull, EndRefresh, EndDying, EndManual
<1> QED
  BY <1>1, <1>2, <1>3, <1>4, <1>5, <1>6, <1>7 DEF Next, Iterate, vars

(* Only start, stop, a crash and the loop itself touch the state or a loop.*)
LEMMA SchedulerPreserved == IInv /\ [Next]_vars => EnabledHasScheduler'
<1> SUFFICES ASSUME IInv, [Next]_vars PROVE EnabledHasScheduler'
  OBVIOUS
<1> USE DEF IInv, TypeOK, EnabledHasScheduler, InRun
<1>1. CASE UNCHANGED <<state, loop>>
  BY <1>1
<1>2. ASSUME NEW i \in Instance, Start(i) PROVE EnabledHasScheduler'
  BY <1>2 DEF Start, Ensured
<1>3. ASSUME NEW i \in Instance, Stop(i) \/ Crash(i) \/ FailClosed(i)
      PROVE  EnabledHasScheduler'
  BY <1>3 DEF Stop, Crash, FailClosed
<1>4. ASSUME NEW i \in Instance, IterateFull(i) \/ IterateRefresh(i)
      PROVE  EnabledHasScheduler'
  BY <1>4 DEF IterateFull, IterateRefresh, Begin
<1>5. ASSUME NEW i \in Instance, EndFull(i) \/ EndRefresh(i)
      PROVE  EnabledHasScheduler'
  BY <1>5 DEF EndFull, EndRefresh, Begin
<1>6. ASSUME NEW i \in Instance,
             \/ FullDue(i) \/ RefreshDue(i)
             \/ LoseSession(i) \/ StrandSession(i) \/ EndSession(i)
             \/ StartRefused(i) \/ Status(i) \/ RunNow(i)
             \/ EndDying(i) \/ EndManual(i)
      PROVE  UNCHANGED <<state, loop>>
  BY <1>6 DEF FullDue, RefreshDue, LoseSession, StrandSession, EndSession,
              StartRefused, Status, RunNow, EndDying, EndManual
<1> QED
  BY <1>1, <1>2, <1>3, <1>4, <1>5, <1>6 DEF Next, Iterate, EndRun, vars

LEMMA LatePreserved == IInv /\ [Next]_vars => LateRunIsTheRefresh'
<1> SUFFICES ASSUME IInv, [Next]_vars PROVE LateRunIsTheRefresh'
  OBVIOUS
<1> USE DEF IInv, TypeOK, LateRunIsTheRefresh, InRun
<1>1. CASE UNCHANGED <<conn, loop, late>>
  BY <1>1
<1>2. ASSUME NEW i \in Instance, Start(i) PROVE LateRunIsTheRefresh'
  BY <1>2 DEF Start, Ensured
<1>3. ASSUME NEW i \in Instance,
             \/ Stop(i) \/ Crash(i) \/ FailClosed(i) \/ StartRefused(i) \/ Status(i)
             \/ LoseSession(i) \/ StrandSession(i)
      PROVE  LateRunIsTheRefresh'
  BY <1>3 DEF Stop, Release, Crash, FailClosed, StartRefused, Status,
              LoseSession, StrandSession
<1>4. ASSUME NEW i \in Instance, IterateFull(i) \/ IterateRefresh(i)
      PROVE  LateRunIsTheRefresh'
  BY <1>4 DEF IterateFull, IterateRefresh, Begin, Validated
<1>5. ASSUME NEW i \in Instance, EndFull(i) \/ EndRefresh(i)
      PROVE  LateRunIsTheRefresh'
  BY <1>5 DEF EndFull, EndRefresh, Begin
<1>6. ASSUME NEW i \in Instance,
             \/ FullDue(i) \/ RefreshDue(i) \/ EndSession(i) \/ RunNow(i)
             \/ EndDying(i) \/ EndManual(i)
      PROVE  UNCHANGED <<conn, loop, late>>
  BY <1>6 DEF FullDue, RefreshDue, EndSession, RunNow, EndDying, EndManual
<1> QED
  BY <1>1, <1>2, <1>3, <1>4, <1>5, <1>6 DEF Next, Iterate, EndRun, vars

(* The inductive invariant holds in every state, so the variables have     *)
(* their types, however starts, stops, crashes, lost sessions and runs     *)
(* interleave.                                                             *)
THEOREM SchedulerInvariant == Spec => []IInv
<1>1. Init => IInv
  <2>1. Init => TypeOK
    <3> SUFFICES ASSUME Init PROVE TypeOK
      OBVIOUS
    <3>1. /\ lock \in Instance \cup {None} /\ kept \in BOOLEAN
          /\ conn \in [Instance -> {"none", "live", "lost"}]
          /\ state \in [Instance -> {"ON", "OFF"}]
      BY DEF Init
    <3>2. /\ loop \in [Instance -> {"none", "done", "ready"} \cup InRun]
          /\ dying \in [Instance -> {"none"} \cup InRun]
          /\ manual \in [Instance -> BOOLEAN]
      BY DEF Init
    <3>3. /\ nextFull \in [Instance -> Due]
          /\ nextRefresh \in [Instance -> Due]
          /\ late \in [Instance -> 0 .. 1]
      BY DEF Init, Due
    <3> QED
      BY <3>1, <3>2, <3>3 DEF TypeOK
  <2> QED
    BY <2>1 DEF Init, IInv, LiveSessionHoldsLock, EnabledHasScheduler,
                LateRunIsTheRefresh
<1>2. IInv /\ [Next]_vars => IInv'
  BY TypePreserved, LockPreserved, SchedulerPreserved, LatePreserved DEF IInv
<1> QED
  BY <1>1, <1>2, PTL DEF Spec

(* At most one instance has a live session with the lock: the schedulers   *)
(* of two instances are never both validated.                              *)
THEOREM OneSchedulerIsValidated ==
    Spec => [](\A i, j \in Instance : Validated(i) /\ Validated(j) => i = j)
<1>1. IInv => \A i, j \in Instance : Validated(i) /\ Validated(j) => i = j
  BY DEF IInv, LiveSessionHoldsLock, Validated
<1> QED
  BY <1>1, SchedulerInvariant, PTL

(* An enabled scanner always has a loop that will scan.                    *)
THEOREM EnabledScannerHasScheduler == Spec => []EnabledHasScheduler
<1>1. IInv => EnabledHasScheduler
  BY DEF IInv
<1> QED
  BY <1>1, SchedulerInvariant, PTL

(* An instance whose session is lost begins at most one more scheduled run *)
(* before it is OFF.                                                       *)
THEOREM LostSchedulerRunsOnceMore == Spec => []AtMostOneRunAfterLoss
<1>1. IInv => AtMostOneRunAfterLoss
  BY DEF IInv, TypeOK, AtMostOneRunAfterLoss
<1> QED
  BY <1>1, SchedulerInvariant, PTL
=============================================================================
