----------------------------- MODULE AuditLock -----------------------------
(***************************************************************************)
(* The per-repository audit lock of audit_dispatch: one lock file per      *)
(* managed repository, written under an flock'ed sentinel, which records   *)
(* the pid of the OperationsCenter process that dispatched the audit and,  *)
(* once it has been spawned, the pid of the audit subprocess.  A lock is   *)
(* stale when every recorded pid is dead.                                  *)
(*                                                                         *)
(* A process is one `operations-center-audit run` (or governance run): it  *)
(* dispatches one audit and exits.  Pids are not reused.  The critical     *)
(* sections under the sentinel are single steps; the 5 second timeout of   *)
(* the sentinel is the ...Timeout actions.                                 *)
(***************************************************************************)
EXTENDS Naturals, FiniteSets

CONSTANTS
  Procs,       \* the pids of the processes that may dispatch an audit
  Repos,       \* the managed repositories
  None,        \* no pid, no repository
  Free,        \* there is no lock file
  Corrupt,     \* the lock file is there and is not a payload
  Crashes,     \* BOOLEAN: a process may be killed (SIGKILL, power, OOM)
  Interrupts,  \* BOOLEAN: the operator may press Ctrl-C on a process
  Unlocks      \* how the operator may unlock: none, some of UnlockModes

UnlockModes == {"stale", "force"}

ASSUME NoneAssumption == None \notin Procs /\ None \notin Repos
ASSUME EnvAssumption ==
  /\ Crashes \in BOOLEAN
  /\ Interrupts \in BOOLEAN
  /\ Unlocks \subseteq UnlockModes

Payload == [oc : Procs, audit : Procs \cup {None}]

ASSUME LockAssumption ==
  Free \notin Payload /\ Corrupt \notin Payload /\ Free # Corrupt

VARIABLES
  lock,     \* repository -> lock file: Free, Corrupt or a payload
  pc,       \* process -> its place in dispatch_managed_audit
  target,   \* process -> the repository of its request
  todo,     \* process -> lock files the first-use sweep has still to visit
  audit,    \* process -> repository its audit subprocess works on, or None
  unlock,   \* repository the unlock command has decided to release, or None
  exposed   \* history: repositories whose lock lost track of a live audit

vars == <<lock, pc, target, todo, audit, unlock, exposed>>

PCs == {"start", "sweep", "acquire", "spawn", "record", "wait", "release",
        "report", "gone"}

TypeOK ==
  /\ lock \in [Repos -> Payload \cup {Free, Corrupt}]
  /\ pc \in [Procs -> PCs]
  /\ target \in [Procs -> Repos]
  /\ todo \in [Procs -> SUBSET Repos]
  /\ audit \in [Procs -> Repos \cup {None}]
  /\ unlock \in Repos \cup {None}
  /\ exposed \in SUBSET Repos

----------------------------------------------------------------------------
\* _is_pid_alive for a process and for the audit subprocess a process spawned.
OcAlive(p) == pc[p] # "gone"
AuditAlive(p) == p # None /\ audit[p] # None

\* Mutant: only the dispatcher's pid is looked at.
IsAliveOcOnly(payload) == OcAlive(payload.oc)

\* PersistentLockPayload.is_alive: any recorded pid is alive.
IsAlive(payload) == OcAlive(payload.oc) \/ AuditAlive(payload.audit)

Held(r) == lock[r] \in Payload
HeldAlive(r) == Held(r) /\ IsAlive(lock[r])

Init ==
  /\ lock \in [Repos -> {Free, Corrupt}]
  /\ pc = [p \in Procs |-> "start"]
  /\ target \in [Procs -> Repos]
  /\ todo = [p \in Procs |-> {}]
  /\ audit = [p \in Procs |-> None]
  /\ unlock = None
  /\ exposed = {}

Goto(p, from, to) == pc[p] = from /\ pc' = [pc EXCEPT ![p] = to]

----------------------------------------------------------------------------
(* _sweep_once: list the lock files, then reclaim each one that is stale.  *)

BeginSweep(p) ==
  /\ Goto(p, "start", "sweep")
  /\ todo' = [todo EXCEPT ![p] = {r \in Repos : lock[r] # Free}]
  /\ UNCHANGED <<lock, target, audit, unlock, exposed>>

\* Mutant: every lock file found at first use is removed.
ReclaimAlways(p, r) ==
  /\ pc[p] = "sweep" /\ r \in todo[p]
  /\ todo' = [todo EXCEPT ![p] = @ \ {r}]
  /\ lock' = [lock EXCEPT ![r] = Free]
  /\ UNCHANGED <<pc, target, audit, unlock, exposed>>

ReclaimIfStale(p, r) ==
  /\ pc[p] = "sweep" /\ r \in todo[p]
  /\ todo' = [todo EXCEPT ![p] = @ \ {r}]
  /\ lock' = [lock EXCEPT ![r] = IF HeldAlive(r) THEN @ ELSE Free]
  /\ UNCHANGED <<pc, target, audit, unlock, exposed>>

EndSweep(p) ==
  /\ Goto(p, "sweep", "acquire")
  /\ todo[p] = {}
  /\ UNCHANGED <<lock, target, todo, audit, unlock, exposed>>

\* The sentinel could not be locked within 5 seconds while sweeping or
\* acquiring: the exception ends the dispatch before anything is held.
AcquireTimeout(p) ==
  /\ pc[p] \in {"sweep", "acquire"}
  /\ pc' = [pc EXCEPT ![p] = "report"]
  /\ todo' = [todo EXCEPT ![p] = {}]
  /\ UNCHANGED <<lock, target, audit, unlock, exposed>>

\* try_acquire, the lock is free or stale: write our payload.
Acquire(p) ==
  LET r == target[p] IN
  /\ Goto(p, "acquire", "spawn")
  /\ lock[r] # Corrupt /\ ~HeldAlive(r)
  /\ lock' = [lock EXCEPT ![r] = [oc |-> p, audit |-> None]]
  /\ UNCHANGED <<target, todo, audit, unlock, exposed>>

\* try_acquire raises RepoLockAlreadyHeldError, or LockStoreCorruptError.
Refused(p) ==
  /\ Goto(p, "acquire", "report")
  /\ lock[target[p]] = Corrupt \/ HeldAlive(target[p])
  /\ UNCHANGED <<lock, target, todo, audit, unlock, exposed>>

----------------------------------------------------------------------------
(* ManagedAuditExecutor.execute, with lock.update_audit_pid as on_spawn.   *)

Spawn(p) ==
  /\ Goto(p, "spawn", "record")
  /\ audit' = [audit EXCEPT ![p] = target[p]]
  /\ UNCHANGED <<lock, target, todo, unlock, exposed>>

\* Popen raised: an executor-error result, and the finally clause.
SpawnFails(p) ==
  /\ Goto(p, "spawn", "release")
  /\ UNCHANGED <<lock, target, todo, audit, unlock, exposed>>

\* PersistentLockStore.update: whatever payload is there gets our audit pid;
\* no lock file, or a corrupt one, raises and the executor swallows it.
UpdateAuditPid(p) ==
  LET r == target[p] IN
  /\ Goto(p, "record", "wait")
  /\ lock' = IF Held(r)
             THEN [lock EXCEPT ![r] = [oc |-> lock[r].oc, audit |-> p]]
             ELSE lock
  /\ UNCHANGED <<target, todo, audit, unlock, exposed>>

UpdateTimeout(p) ==
  /\ Goto(p, "record", "wait")
  /\ UNCHANGED <<lock, target, todo, audit, unlock, exposed>>

\* The audit subprocess ends by itself, its dispatcher alive or not.
AuditExits(p) ==
  /\ audit[p] # None
  /\ audit' = [audit EXCEPT ![p] = None]
  /\ UNCHANGED <<lock, pc, target, todo, unlock, exposed>>

WaitReturns(p) ==
  /\ Goto(p, "wait", "release")
  /\ audit[p] = None
  /\ UNCHANGED <<lock, target, todo, audit, unlock, exposed>>

\* Mutant: there is no timeout.
WaitForever(p) == FALSE

\* proc.wait timed out: _terminate_process kills the process group and waits.
WaitTimesOut(p) ==
  /\ Goto(p, "wait", "release")
  /\ audit[p] # None
  /\ audit' = [audit EXCEPT ![p] = None]
  /\ UNCHANGED <<lock, target, todo, unlock, exposed>>

\* The finally clause of dispatch_managed_audit: unlink the lock file, whoever
\* wrote it; a sentinel timeout is logged and the file stays.
Release(p) ==
  /\ Goto(p, "release", "report")
  /\ lock' = [lock EXCEPT ![target[p]] = Free]
  /\ UNCHANGED <<target, todo, audit, unlock, exposed>>

ReleaseTimeout(p) ==
  /\ Goto(p, "release", "report")
  /\ UNCHANGED <<lock, target, todo, audit, unlock, exposed>>

Exit(p) ==
  /\ Goto(p, "report", "gone")
  /\ UNCHANGED <<lock, target, todo, audit, unlock, exposed>>

----------------------------------------------------------------------------
(* The environment.                                                        *)

\* SIGKILL: the audit, in a session of its own, goes on.  If its pid is not
\* in the lock file, nothing records it any more.
Crash(p) ==
  LET r == target[p] IN
  /\ Crashes
  /\ pc[p] # "gone"
  /\ pc' = [pc EXCEPT ![p] = "gone"]
  /\ todo' = [todo EXCEPT ![p] = {}]
  /\ exposed' = IF audit[p] = r /\ ~(Held(r) /\ lock[r].audit = p)
                THEN exposed \cup {r} ELSE exposed
  /\ UNCHANGED <<lock, target, audit, unlock>>

\* KeyboardInterrupt is no Exception: it leaves execute() without killing the
\* audit (setsid keeps the signal from it), and finally releases the lock.
Interrupt(p) ==
  /\ Interrupts
  /\ pc[p] \in {"spawn", "record", "wait"}
  /\ pc' = [pc EXCEPT ![p] = "release"]
  /\ exposed' = IF audit[p] = target[p]
                THEN exposed \cup {target[p]} ELSE exposed
  /\ UNCHANGED <<lock, target, todo, audit, unlock>>

\* cmd_unlock reads the payload and finds every recorded pid dead...
UnlockCheck(r) ==
  /\ "stale" \in Unlocks
  /\ unlock = None
  /\ Held(r) /\ ~HeldAlive(r)
  /\ unlock' = r
  /\ UNCHANGED <<lock, pc, target, todo, audit, exposed>>

\* ...or finds it alive, and --force says that the audit is not running...
UnlockForce(r) ==
  /\ "force" \in Unlocks
  /\ unlock = None
  /\ HeldAlive(r)
  /\ \A p \in Procs : audit[p] # r
  /\ unlock' = r
  /\ UNCHANGED <<lock, pc, target, todo, audit, exposed>>

\* ...and store.release unlinks the file without looking at it again.
UnlockRelease(r) ==
  /\ unlock = r
  /\ lock' = [lock EXCEPT ![r] = Free]
  /\ unlock' = None
  /\ exposed' = IF HeldAlive(r) THEN exposed \cup {r} ELSE exposed
  /\ UNCHANGED <<pc, target, todo, audit>>

----------------------------------------------------------------------------
Dispatch(p) ==
  \/ BeginSweep(p) \/ EndSweep(p) \/ AcquireTimeout(p)
  \/ \E r \in Repos : ReclaimIfStale(p, r)
  \/ Acquire(p) \/ Refused(p)
  \/ Spawn(p) \/ SpawnFails(p) \/ UpdateAuditPid(p) \/ UpdateTimeout(p)
  \/ WaitReturns(p) \/ WaitTimesOut(p)
  \/ Release(p) \/ ReleaseTimeout(p) \/ Exit(p)

Next ==
  \/ \E p \in Procs : Dispatch(p) \/ AuditExits(p) \/ Crash(p) \/ Interrupt(p)
  \/ \E r \in Repos : UnlockCheck(r) \/ UnlockForce(r) \/ UnlockRelease(r)

Spec == Init /\ [][Next]_vars

\* A process that is not killed keeps executing; proc.wait has a timeout
\* (1800 seconds unless the caller opts out), so it returns.
FairSpec == Spec /\ \A p \in Procs : WF_vars(Dispatch(p))

----------------------------------------------------------------------------
(* Properties.                                                             *)

\* p is between a successful acquire and its release, or its audit still runs.
Busy(p, r) ==
  /\ target[p] = r
  /\ \/ pc[p] \in {"spawn", "record", "wait", "release"}
     \/ audit[p] = r

\* At most one managed audit per repository at a time: no two processes hold
\* the lock or have an audit subprocess of theirs still writing artifacts.
OneAuditPerRepo ==
  \A r \in Repos : \A p, q \in Procs : Busy(p, r) /\ Busy(q, r) => p = q

\* The same, except for the repositories on which the lock lost a live audit:
\* a crash before the audit pid was recorded, a Ctrl-C, an unlock that removed
\* a live lock.  Nothing else breaks mutual exclusion: not a crash once the
\* pid is recorded, a failed release or update, nor any sweep.
OneAuditUnlessExposed ==
  \A r \in Repos \ exposed : \A p, q \in Procs :
    Busy(p, r) /\ Busy(q, r) => p = q

\* The inductive part: a busy process owns the lock file of its repository,
\* and an orphaned audit is recorded in it.
LockNamesBusy ==
  \A p \in Procs :
    LET r == target[p] IN
    r \notin exposed /\ Busy(p, r) =>
      /\ Held(r) /\ lock[r].oc = p
      /\ pc[p] = "gone" => lock[r].audit = p

\* An audit runs for the repository of its request only, from its spawn until
\* it ends, and has ended by the time its dispatcher releases.
AuditPhase ==
  \A p \in Procs :
    audit[p] # None =>
      /\ audit[p] = target[p]
      /\ pc[p] \notin {"start", "sweep", "acquire", "spawn"}
      /\ pc[p] \in {"release", "report"} => target[p] \in exposed

\* A dispatch ends: a process that began one is eventually gone, whatever the
\* others do, because no step of it waits for another process.
DispatchEnds ==
  \A p \in Procs : (pc[p] # "start") ~> (pc[p] = "gone")
============================================================================
