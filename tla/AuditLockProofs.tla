--------------------------- MODULE AuditLockProofs ---------------------------
(* Mutual exclusion of the audit lock, for any number of processes and     *)
(* repositories and whatever the environment is allowed to do.             *)
EXTENDS AuditLock, TLAPS

\* The inductive invariant: types, where an audit can be running, and that the
\* lock file names the busy process.
Inv == TypeOK /\ AuditPhase /\ LockNamesBusy

\* Two busy processes of one repository are both named by its lock file.
LEMMA NamedIsUnique == TypeOK /\ LockNamesBusy => OneAuditUnlessExposed
<1> SUFFICES ASSUME TypeOK, LockNamesBusy,
                    NEW r \in Repos \ exposed, NEW p \in Procs, NEW q \in Procs,
                    Busy(p, r), Busy(q, r)
             PROVE  p = q
  BY DEF OneAuditUnlessExposed
<1>1. target[p] = r /\ target[q] = r
  BY DEF Busy
<1>2. lock[r].oc = p /\ lock[r].oc = q
  BY <1>1 DEF LockNamesBusy
<1> QED
  BY <1>2

\* The lock of a busy process is never found stale.
LEMMA BusyIsAlive ==
  ASSUME Inv, NEW p \in Procs, target[p] \notin exposed, Busy(p, target[p])
  PROVE  HeldAlive(target[p])
<1>1. target[p] \in Repos /\ Held(target[p]) /\ lock[target[p]].oc = p
  BY DEF Inv, TypeOK, LockNamesBusy
<1>2. CASE pc[p] = "gone"
  <2>1. lock[target[p]].audit = p /\ audit[p] = target[p]
    BY <1>2 DEF Inv, LockNamesBusy, Busy
  <2> QED
    BY <1>1, <2>1, NoneAssumption DEF HeldAlive, IsAlive, AuditAlive
<1>3. CASE pc[p] # "gone"
  BY <1>1, <1>3 DEF HeldAlive, IsAlive, OcAlive
<1> QED
  BY <1>2, <1>3

\* Nothing is busy at the start.
LEMMA InitInv == Init => Inv
<1> SUFFICES ASSUME Init PROVE Inv
  OBVIOUS
<1>1. TypeOK
  BY NoneAssumption DEF Init, TypeOK, PCs
<1>2. AuditPhase
  BY DEF Init, AuditPhase
<1>3. LockNamesBusy
  BY NoneAssumption DEF Init, LockNamesBusy, Busy
<1> QED
  BY <1>1, <1>2, <1>3 DEF Inv

\* Every step keeps the types.
LEMMA TypeStep == TypeOK /\ [Next]_vars => TypeOK'
<1> SUFFICES ASSUME TypeOK, [Next]_vars PROVE TypeOK'
  OBVIOUS
<1> USE DEF TypeOK, Goto, PCs
<1>1. ASSUME NEW p \in Procs, Dispatch(p) PROVE TypeOK'
  <2>1. CASE BeginSweep(p)
    BY <2>1 DEF BeginSweep
  <2>2. CASE EndSweep(p)
    BY <2>2 DEF EndSweep
  <2>3. CASE AcquireTimeout(p)
    BY <2>3 DEF AcquireTimeout
  <2>4. ASSUME NEW r \in Repos, ReclaimIfStale(p, r) PROVE TypeOK'
    BY <2>4 DEF ReclaimIfStale
  <2>5. CASE Acquire(p)
    <3>1. [oc |-> p, audit |-> None] \in Payload
      BY DEF Payload
    <3> QED
      BY <2>5, <3>1 DEF Acquire
  <2>6. CASE Refused(p)
    BY <2>6 DEF Refused
  <2>7. CASE Spawn(p)
    BY <2>7 DEF Spawn
  <2>8. CASE SpawnFails(p)
    BY <2>8 DEF SpawnFails
  <2>9. CASE UpdateAuditPid(p)
    <3>1. ASSUME NEW r \in Repos, Held(r)
          PROVE  [oc |-> lock[r].oc, audit |-> p] \in Payload
      BY <3>1 DEF Held, Payload
    <3> QED
      BY <2>9, <3>1 DEF UpdateAuditPid
  <2>10. CASE UpdateTimeout(p)
    BY <2>10 DEF UpdateTimeout
  <2>11. CASE WaitReturns(p)
    BY <2>11 DEF WaitReturns
  <2>12. CASE WaitTimesOut(p)
    BY <2>12 DEF WaitTimesOut
  <2>13. CASE Release(p)
    BY <2>13 DEF Release
  <2>14. CASE ReleaseTimeout(p)
    BY <2>14 DEF ReleaseTimeout
  <2>15. CASE Exit(p)
    BY <2>15 DEF Exit
  <2> QED
    BY <1>1, <2>1, <2>2, <2>3, <2>4, <2>5, <2>6, <2>7, <2>8, <2>9, <2>10,
       <2>11, <2>12, <2>13, <2>14, <2>15 DEF Dispatch
<1>2. ASSUME NEW p \in Procs, AuditExits(p) PROVE TypeOK'
  BY <1>2 DEF AuditExits
<1>3. ASSUME NEW p \in Procs, Crash(p) PROVE TypeOK'
  BY <1>3 DEF Crash
<1>4. ASSUME NEW p \in Procs, Interrupt(p) PROVE TypeOK'
  BY <1>4 DEF Interrupt
<1>5. ASSUME NEW r \in Repos, UnlockCheck(r) PROVE TypeOK'
  BY <1>5 DEF UnlockCheck
<1>6. ASSUME NEW r \in Repos, UnlockForce(r) PROVE TypeOK'
  BY <1>6 DEF UnlockForce
<1>7. ASSUME NEW r \in Repos, UnlockRelease(r) PROVE TypeOK'
  BY <1>7 DEF UnlockRelease
<1>8. CASE UNCHANGED vars
  BY <1>8 DEF vars
<1> QED
  BY <1>1, <1>2, <1>3, <1>4, <1>5, <1>6, <1>7, <1>8 DEF Next

\* Every step keeps an audit within the phases of its dispatch.
LEMMA PhaseStep == TypeOK /\ AuditPhase /\ [Next]_vars => AuditPhase'
<1> SUFFICES ASSUME TypeOK, AuditPhase, [Next]_vars PROVE AuditPhase'
  OBVIOUS
<1> USE DEF TypeOK, AuditPhase, Goto, PCs
<1>1. ASSUME NEW p \in Procs, Dispatch(p) PROVE AuditPhase'
  <2>1. CASE BeginSweep(p)
    BY <2>1 DEF BeginSweep
  <2>2. CASE EndSweep(p)
    BY <2>2 DEF EndSweep
  <2>3. CASE AcquireTimeout(p)
    BY <2>3 DEF AcquireTimeout
  <2>4. ASSUME NEW r \in Repos, ReclaimIfStale(p, r) PROVE AuditPhase'
    BY <2>4 DEF ReclaimIfStale
  <2>5. CASE Acquire(p)
    BY <2>5 DEF Acquire
  <2>6. CASE Refused(p)
    BY <2>6 DEF Refused
  <2>7. CASE Spawn(p)
    BY <2>7 DEF Spawn
  <2>8. CASE SpawnFails(p)
    BY <2>8 DEF SpawnFails
  <2>9. CASE UpdateAuditPid(p)
    BY <2>9 DEF UpdateAuditPid
  <2>10. CASE UpdateTimeout(p)
    BY <2>10 DEF UpdateTimeout
  <2>11. CASE WaitReturns(p)
    BY <2>11 DEF WaitReturns
  <2>12. CASE WaitTimesOut(p)
    BY <2>12 DEF WaitTimesOut
  <2>13. CASE Release(p)
    BY <2>13 DEF Release
  <2>14. CASE ReleaseTimeout(p)
    BY <2>14 DEF ReleaseTimeout
  <2>15. CASE Exit(p)
    BY <2>15 DEF Exit
  <2> QED
    BY <1>1, <2>1, <2>2, <2>3, <2>4, <2>5, <2>6, <2>7, <2>8, <2>9, <2>10,
       <2>11, <2>12, <2>13, <2>14, <2>15 DEF Dispatch
<1>2. ASSUME NEW p \in Procs, AuditExits(p) PROVE AuditPhase'
  BY <1>2 DEF AuditExits
<1>3. ASSUME NEW p \in Procs, Crash(p) PROVE AuditPhase'
  BY <1>3 DEF Crash
<1>4. ASSUME NEW p \in Procs, Interrupt(p) PROVE AuditPhase'
  BY <1>4 DEF Interrupt
<1>5. ASSUME NEW r \in Repos, UnlockCheck(r) PROVE AuditPhase'
  BY <1>5 DEF UnlockCheck
<1>6. ASSUME NEW r \in Repos, UnlockForce(r) PROVE AuditPhase'
  BY <1>6 DEF UnlockForce
<1>7. ASSUME NEW r \in Repos, UnlockRelease(r) PROVE AuditPhase'
  BY <1>7 DEF UnlockRelease
<1>8. CASE UNCHANGED vars
  BY <1>8 DEF vars
<1> QED
  BY <1>1, <1>2, <1>3, <1>4, <1>5, <1>6, <1>7, <1>8 DEF Next

\* Every step keeps the lock file of an unexposed repository naming its busy
\* process.
LEMMA NamesStep == Inv /\ [Next]_vars => LockNamesBusy'
<1> SUFFICES ASSUME Inv, TypeOK, AuditPhase, LockNamesBusy,
                    [Next]_vars PROVE LockNamesBusy'
  BY DEF Inv
<1> USE DEF TypeOK, AuditPhase, LockNamesBusy, Busy, Held, Goto, PCs
<1>1. ASSUME NEW p \in Procs, Dispatch(p) PROVE LockNamesBusy'
  <2>1. CASE BeginSweep(p)
    BY <2>1 DEF BeginSweep
  <2>2. CASE EndSweep(p)
    BY <2>2 DEF EndSweep
  <2>3. CASE AcquireTimeout(p)
    BY <2>3 DEF AcquireTimeout
  <2>4. ASSUME NEW r \in Repos, ReclaimIfStale(p, r) PROVE LockNamesBusy'
    BY <2>4, BusyIsAlive DEF ReclaimIfStale
  <2>5. CASE Acquire(p)
    BY <2>5, BusyIsAlive DEF Acquire, Payload
  <2>6. CASE Refused(p)
    BY <2>6 DEF Refused
  <2>7. CASE Spawn(p)
    BY <2>7 DEF Spawn
  <2>8. CASE SpawnFails(p)
    BY <2>8 DEF SpawnFails
  <2>9. CASE UpdateAuditPid(p)
    <3> SUFFICES ASSUME NEW q \in Procs, target'[q] \notin exposed',
                        Busy(q, target[q])'
                 PROVE  /\ Held(target[q])' /\ lock'[target[q]].oc = q
                        /\ pc'[q] = "gone" => lock'[target[q]].audit = q
      BY <2>9 DEF UpdateAuditPid
    <3>1. Busy(q, target[q]) /\ target[q] \notin exposed
      BY <2>9 DEF UpdateAuditPid
    <3>2. Held(target[q]) /\ lock[target[q]].oc = q
      BY <3>1
    <3>3. target[q] = target[p] => q = p
      BY <2>9, <3>1, <3>2 DEF UpdateAuditPid
    <3>4. CASE q = p
      <4>1. lock'[target[p]] = [oc |-> p, audit |-> p]
        BY <2>9, <3>2, <3>4 DEF UpdateAuditPid
      <4>2. lock'[target[p]] \in Payload
        BY <4>1 DEF Payload
      <4>3. lock'[target[p]].oc = p /\ lock'[target[p]].audit = p
        BY <4>1
      <4>4. target' = target
        BY <2>9 DEF UpdateAuditPid
      <4> QED
        BY <3>4, <4>2, <4>3, <4>4
    <3>5. CASE q # p
      <4>1. lock'[target[q]] = lock[target[q]] /\ pc'[q] = pc[q]
        BY <2>9, <3>3, <3>5 DEF UpdateAuditPid
      <4>2. target' = target
        BY <2>9 DEF UpdateAuditPid
      <4> QED
        BY <3>1, <3>2, <4>1, <4>2
    <3> QED
      BY <3>4, <3>5
  <2>10. CASE UpdateTimeout(p)
    BY <2>10 DEF UpdateTimeout
  <2>11. CASE WaitReturns(p)
    BY <2>11 DEF WaitReturns
  <2>12. CASE WaitTimesOut(p)
    BY <2>12 DEF WaitTimesOut
  <2>13. CASE Release(p)
    <3> SUFFICES ASSUME NEW q \in Procs, target'[q] \notin exposed',
                        Busy(q, target[q])'
                 PROVE  /\ Held(target[q])' /\ lock'[target[q]].oc = q
                        /\ pc'[q] = "gone" => lock'[target[q]].audit = q
      BY <2>13 DEF Release
    <3>1. q # p
      BY <2>13, NoneAssumption DEF Release
    <3>2. Busy(q, target[q]) /\ target[q] \notin exposed /\ pc'[q] = pc[q]
      BY <2>13, <3>1 DEF Release
    <3>3. lock[target[q]].oc = q
      BY <3>2
    <3>4. target[q] # target[p]
      <4>1. Busy(p, target[p])
        BY <2>13 DEF Release
      <4> QED
        BY <3>1, <3>2, <3>3, <4>1
    <3>5. lock'[target[q]] = lock[target[q]]
      BY <2>13, <3>4 DEF Release
    <3> QED
      BY <2>13, <3>2, <3>5 DEF Release
  <2>14. CASE ReleaseTimeout(p)
    BY <2>14 DEF ReleaseTimeout
  <2>15. CASE Exit(p)
    BY <2>15, NoneAssumption DEF Exit
  <2> QED
    BY <1>1, <2>1, <2>2, <2>3, <2>4, <2>5, <2>6, <2>7, <2>8, <2>9, <2>10,
       <2>11, <2>12, <2>13, <2>14, <2>15 DEF Dispatch
<1>2. ASSUME NEW p \in Procs, AuditExits(p) PROVE LockNamesBusy'
  BY <1>2 DEF AuditExits
<1>3. ASSUME NEW p \in Procs, Crash(p) PROVE LockNamesBusy'
  BY <1>3 DEF Crash
<1>4. ASSUME NEW p \in Procs, Interrupt(p) PROVE LockNamesBusy'
  BY <1>4 DEF Interrupt
<1>5. ASSUME NEW r \in Repos, UnlockCheck(r) PROVE LockNamesBusy'
  BY <1>5 DEF UnlockCheck
<1>6. ASSUME NEW r \in Repos, UnlockForce(r) PROVE LockNamesBusy'
  BY <1>6 DEF UnlockForce
<1>7. ASSUME NEW r \in Repos, UnlockRelease(r) PROVE LockNamesBusy'
  BY <1>7, BusyIsAlive DEF UnlockRelease
<1>8. CASE UNCHANGED vars
  BY <1>8 DEF vars
<1> QED
  BY <1>1, <1>2, <1>3, <1>4, <1>5, <1>6, <1>7, <1>8 DEF Next

\* The specification keeps its types.
THEOREM TypeCorrect == Spec => []TypeOK
<1>1. Init => TypeOK
  BY InitInv DEF Inv
<1>2. TypeOK /\ [Next]_vars => TypeOK'
  BY TypeStep
<1> QED
  BY <1>1, <1>2, PTL DEF Spec

\* At most one audit per repository, on every repository whose lock has not
\* lost track of a live audit.
THEOREM MutualExclusion == Spec => []OneAuditUnlessExposed
<1>1. Init => Inv
  BY InitInv
<1>2. Inv /\ [Next]_vars => Inv'
  BY TypeStep, PhaseStep, NamesStep DEF Inv
<1>3. Inv => OneAuditUnlessExposed
  BY NamedIsUnique DEF Inv
<1> QED
  BY <1>1, <1>2, <1>3, PTL DEF Spec

\* An audit subprocess runs only between its dispatcher's spawn and release, or
\* after the dispatcher is gone.
THEOREM AuditInPhase == Spec => []AuditPhase
<1>1. Init => TypeOK /\ AuditPhase
  BY InitInv DEF Inv
<1>2. TypeOK /\ AuditPhase /\ [Next]_vars => (TypeOK /\ AuditPhase)'
  BY TypeStep, PhaseStep
<1> QED
  BY <1>1, <1>2, PTL DEF Spec

\* The lock file of a repository names the process that is busy there, unless
\* the lock lost track of a live audit.
THEOREM LockNames == Spec => []LockNamesBusy
<1>1. Init => Inv
  BY InitInv
<1>2. Inv /\ [Next]_vars => Inv'
  BY TypeStep, PhaseStep, NamesStep DEF Inv
<1>3. Inv => LockNamesBusy
  BY DEF Inv
<1> QED
  BY <1>1, <1>2, <1>3, PTL DEF Spec
============================================================================
