------------------------------ MODULE InFlight ------------------------------
(***************************************************************************)
(* Concurrency accounting of dispatches.  An executor process runs         *)
(* ExecutionCoordinator.execute: it reads the number of open slots from    *)
(* the usage ledger (the global gate, then the cap of the backend),        *)
(* records execution_started under its run_id, runs the adapter and        *)
(* records execution_finished in a finally block.  A slot whose process    *)
(* died stays open until a sweep of in_flight_reconcile closes it, at a    *)
(* worker's startup or in board_unblock's Rule 11, or until it is 24 hours *)
(* old.                                                                    *)
(*                                                                         *)
(* The ledger is the set of started and of finished runs: a run_id is a    *)
(* fresh uuid, started at most once and finished only after that, so the   *)
(* fold over the event log is started minus finished, minus what is older  *)
(* than the cutoff.  An append is one step here; how appends of several    *)
(* processes can lose each other is the subject of UsageFile.              *)
(***************************************************************************)
EXTENDS Naturals, FiniteSets

CONSTANTS
  Executors,   \* the executor processes that can be alive at once
  Runs,        \* the run_ids
  Backends,
  BackendOf,   \* run -> the backend its decision selected
  GlobalCap,   \* resource_gate.max_concurrent
  BackendCap,  \* backend -> backend_caps[b].max_concurrent
  Startups,    \* sweepers at worker startup, serialised by a file lock
  Watchdogs,   \* sweepers of board_unblock, which take no lock
  None

ASSUME BackendAssumption == BackendOf \in [Runs -> Backends]
ASSUME GlobalCapAssumption == GlobalCap \in Nat \ {0}
ASSUME BackendCapAssumption == BackendCap \in [Backends -> Nat \ {0}]
ASSUME FiniteAssumption == IsFiniteSet(Executors) /\ IsFiniteSet(Runs)
ASSUME NoneAssumption == None \notin Runs /\ None \notin Startups

Sweepers == Startups \cup Watchdogs

VARIABLES
  started,   \* runs with an execution_started event
  finished,  \* runs with an execution_finished event
  expired,   \* runs whose started event is older than 24 hours
  pc,        \* executor -> its place in execute()
  cur,       \* executor -> its run, or None
  leaked,    \* history: runs that ended without recording their finish
  spc,       \* sweeper -> "idle", "find" or "clear"
  todo,      \* sweeper -> open slots not yet looked up
  orphans,   \* sweeper -> slots it found to be orphaned
  fileLock   \* the startup sweeper that holds usage.json.lock, or None

ledger == <<started, finished, expired>>
execs == <<pc, cur, leaked>>
sweeps == <<spc, todo, orphans, fileLock>>
vars == <<ledger, execs, sweeps>>

TypeOK ==
  /\ started \in SUBSET Runs
  /\ finished \in SUBSET Runs
  /\ expired \in SUBSET Runs
  /\ pc \in [Executors -> {"idle", "gate", "caps", "admitted", "running"}]
  /\ cur \in [Executors -> Runs \cup {None}]
  /\ leaked \in SUBSET Runs
  /\ spc \in [Sweepers -> {"idle", "find", "clear"}]
  /\ todo \in [Sweepers -> SUBSET Runs]
  /\ orphans \in [Sweepers -> SUBSET Runs]
  /\ fileLock \in Startups \cup {None}

Init ==
  /\ started = {} /\ finished = {} /\ expired = {}
  /\ pc = [e \in Executors |-> "idle"]
  /\ cur = [e \in Executors |-> None]
  /\ leaked = {}
  /\ spc = [s \in Sweepers |-> "idle"]
  /\ todo = [s \in Sweepers |-> {}]
  /\ orphans = [s \in Sweepers |-> {}]
  /\ fileLock = None

----------------------------------------------------------------------------
(* The ledger.                                                             *)

\* total_concurrent_runs, and _open_in_flight of the sweeps.
Open == (started \ finished) \ expired

\* concurrent_runs_for_backend.
OpenFor(b) == {r \in Open : BackendOf[r] = b}

RecordStarted(r) == started' = started \cup {r} /\ UNCHANGED <<finished, expired>>
RecordFinished(r) == finished' = finished \cup {r} /\ UNCHANGED <<started, expired>>

\* A started event passes the 24 hour cutoff.  A dispatch is killed long before
\* (executor_timeout_seconds), so only the slot of a dead run gets there.
Expire(r) ==
  /\ r \in started \ expired
  /\ \A e \in Executors : cur[e] # r
  /\ expired' = expired \cup {r}
  /\ UNCHANGED <<started, finished, execs, sweeps>>

----------------------------------------------------------------------------
(* ExecutionCoordinator.execute.                                           *)

Goto(e, to) == pc' = [pc EXCEPT ![e] = to]

\* The executor returns a result without dispatching, or dies before it started.
Leave(e) ==
  /\ Goto(e, "idle")
  /\ cur' = [cur EXCEPT ![e] = None]

\* The request is built, under a fresh run_id, and the workspace prepared.
Build(e, r) ==
  /\ pc[e] = "idle"
  /\ r \notin started /\ \A d \in Executors : cur[d] # r
  /\ cur' = [cur EXCEPT ![e] = r]
  /\ Goto(e, "gate")
  /\ UNCHANGED <<ledger, leaked, sweeps>>

\* Mutant: the count is compared with > instead of >=.
GlobalSlotFreeOffByOne == Cardinality(Open) <= GlobalCap

\* global_concurrency_decision.
GlobalSlotFree == Cardinality(Open) < GlobalCap

\* _evaluate_resource_gate: total concurrency; then the rate and memory gates,
\* which may refuse whatever the slots are.
ResourceGate(e) ==
  /\ pc[e] = "gate"
  /\ \/ GlobalSlotFree /\ Goto(e, "caps") /\ UNCHANGED cur
     \/ Leave(e)
  /\ UNCHANGED <<ledger, leaked, sweeps>>

\* Mutant: the count is scoped to no backend that any slot has.
BackendSlotFreeUnscoped(b) == 0 < BackendCap[b]

\* concurrency_decision_for_backend.
BackendSlotFree(b) == Cardinality(OpenFor(b)) < BackendCap[b]

\* _evaluate_backend_caps: concurrency between the rate and the memory cap, which
\* may refuse as well; the adapter lookup may raise.
BackendCaps(e) ==
  /\ pc[e] = "caps"
  /\ \/ BackendSlotFree(BackendOf[cur[e]]) /\ Goto(e, "admitted") /\ UNCHANGED cur
     \/ Leave(e)
  /\ UNCHANGED <<ledger, leaked, sweeps>>

\* record_execution_started, and the adapter starts.
Start(e) ==
  /\ pc[e] = "admitted"
  /\ RecordStarted(cur[e])
  /\ Goto(e, "running")
  /\ UNCHANGED <<cur, leaked, sweeps>>

\* record_execution_started raises: execute() raises before the try block.
StartRaises(e) == pc[e] = "admitted" /\ Leave(e) /\ UNCHANGED <<ledger, leaked, sweeps>>

\* Mutant: the finished marker is written on the success path only, and an
\* adapter that raised leaves its slot open.
FinishOnSuccess(e) ==
  /\ pc[e] = "running"
  /\ \/ RecordFinished(cur[e])
     \/ UNCHANGED ledger
  /\ Leave(e)
  /\ UNCHANGED <<leaked, sweeps>>

\* The adapter returned or raised; the finally block records the finish.
Finish(e) ==
  /\ pc[e] = "running"
  /\ RecordFinished(cur[e])
  /\ Leave(e)
  /\ UNCHANGED <<leaked, sweeps>>

\* record_execution_finished itself raises (disk space, unreadable ledger).
FinishRaises(e) ==
  /\ pc[e] = "running"
  /\ leaked' = leaked \cup {cur[e]}
  /\ Leave(e)
  /\ UNCHANGED <<ledger, sweeps>>

\* The process is killed: SIGTERM of a restart, out of memory, wall timeout.
Kill(e) ==
  /\ pc[e] # "idle"
  /\ leaked' = IF pc[e] = "running" THEN leaked \cup {cur[e]} ELSE leaked
  /\ Leave(e)
  /\ UNCHANGED <<ledger, sweeps>>

----------------------------------------------------------------------------
(* clear_orphaned_in_flight.                                               *)

\* reconcile_in_flight_on_startup holds usage.json.lock, or gives up after two
\* seconds; Rule 11 of board_unblock takes no lock.
BeginSweep(s) ==
  /\ spc[s] = "idle"
  /\ IF s \in Startups THEN fileLock = None /\ fileLock' = s ELSE UNCHANGED fileLock
  /\ spc' = [spc EXCEPT ![s] = "find"]
  /\ todo' = [todo EXCEPT ![s] = Open]
  /\ UNCHANGED <<ledger, execs, orphans>>

\* The board's answer to fetch_issue(run_id): no issue has a run_id for a
\* number, so the answer is 404 whatever became of the run.
Gone(r) == r \in Runs

\* Mutant: an orphan is taken off the list before it is cleared.
LookupDrops(s, r) ==
  /\ spc[s] = "find" /\ r \in todo[s]
  /\ Gone(r)
  /\ todo' = [todo EXCEPT ![s] = @ \ {r}]
  /\ UNCHANGED <<ledger, execs, spc, orphans, fileLock>>

\* find_orphaned_in_flight meets a 404.
LookupGone(s, r) ==
  /\ spc[s] = "find" /\ r \in todo[s]
  /\ Gone(r)
  /\ todo' = [todo EXCEPT ![s] = @ \ {r}]
  /\ orphans' = [orphans EXCEPT ![s] = @ \cup {r}]
  /\ UNCHANGED <<ledger, execs, spc, fileLock>>

\* A network or other error: the slot is skipped.
LookupError(s, r) ==
  /\ spc[s] = "find" /\ r \in todo[s]
  /\ todo' = [todo EXCEPT ![s] = @ \ {r}]
  /\ UNCHANGED <<ledger, execs, spc, orphans, fileLock>>

\* The scan is complete; clear_orphaned_in_flight turns to its result.
Scanned(s) ==
  /\ spc[s] = "find" /\ todo[s] = {}
  /\ spc' = [spc EXCEPT ![s] = "clear"]
  /\ UNCHANGED <<ledger, execs, todo, orphans, fileLock>>

\* record_execution_finished on behalf of the orphan.
ClearOrphan(s, r) ==
  /\ spc[s] = "clear" /\ r \in orphans[s]
  /\ RecordFinished(r)
  /\ orphans' = [orphans EXCEPT ![s] = @ \ {r}]
  /\ UNCHANGED <<execs, spc, todo, fileLock>>

\* The record raises; the sweep goes on.
ClearError(s, r) ==
  /\ spc[s] = "clear" /\ r \in orphans[s]
  /\ orphans' = [orphans EXCEPT ![s] = @ \ {r}]
  /\ UNCHANGED <<ledger, execs, spc, todo, fileLock>>

Quit(s) ==
  /\ spc' = [spc EXCEPT ![s] = "idle"]
  /\ fileLock' = IF fileLock = s THEN None ELSE fileLock
  /\ UNCHANGED <<ledger, execs>>

EndSweep(s) ==
  /\ spc[s] = "clear" /\ orphans[s] = {}
  /\ Quit(s)
  /\ UNCHANGED <<todo, orphans>>

\* The sweeping process is killed in mid-sweep; the kernel drops its flock.
KillSweep(s) ==
  /\ spc[s] = "find" \/ orphans[s] # {}
  /\ Quit(s)
  /\ todo' = [todo EXCEPT ![s] = {}]
  /\ orphans' = [orphans EXCEPT ![s] = {}]

----------------------------------------------------------------------------
Execute(e) ==
  \/ \E r \in Runs : Build(e, r)
  \/ ResourceGate(e) \/ BackendCaps(e) \/ Start(e) \/ StartRaises(e)
  \/ Finish(e) \/ FinishRaises(e)

Sweep(s) ==
  \/ BeginSweep(s)
  \/ \E r \in Runs :
       LookupGone(s, r) \/ LookupError(s, r) \/ ClearOrphan(s, r) \/ ClearError(s, r)
  \/ Scanned(s) \/ EndSweep(s)

Next ==
  \/ \E e \in Executors : Execute(e) \/ Kill(e)
  \/ \E s \in Sweepers : Sweep(s) \/ KillSweep(s)
  \/ \E r \in Runs : Expire(r)

Spec == Init /\ [][Next]_vars

\* The watchdog keeps coming round and is not for ever killed in mid-sweep, and a
\* lookup or a record that is tried again and again succeeds at last.  Nothing is
\* assumed of executors, of the startup sweeps or of the 24 hour cutoff.
FairSpec ==
  /\ Spec
  /\ \A s \in Watchdogs :
       /\ WF_vars(Sweep(s))
       /\ <>[][~KillSweep(s)]_vars
       /\ \A r \in Runs : SF_vars(LookupGone(s, r)) /\ SF_vars(ClearOrphan(s, r))

----------------------------------------------------------------------------
(* Properties.                                                             *)

Running == {cur[e] : e \in {d \in Executors : pc[d] = "running"}}
Admitted == {e \in Executors : pc[e] = "admitted"}

\* A slot is held by a running dispatch or was left by one that could not
\* record its end: a refused dispatch takes none, and one that returned or
\* raised gives its slot back ("a crashed adapter can't deadlock the
\* per-backend max_concurrent cap").
SlotsAccountedFor == Open \subseteq Running \cup leaked

\* The gates read the ledger and the slot is taken later, so the caps can be
\* overshot, but only by the dispatches that were at the gates together:
\* the ledger never shows more than the cap plus the other executors.
GlobalOvershoot ==
  Cardinality(Open) < GlobalCap + Cardinality(Executors)

\* The same for each backend's own cap.
BackendOvershoot ==
  \A b \in Backends :
    Cardinality(OpenFor(b)) < BackendCap[b] + Cardinality(Executors)

\* A leaked slot is given back, although lookups fail, records fail, sweeps are
\* killed and other sweeps run beside it.
LeakCleared == \A r \in Runs : (r \in leaked) ~> (r \notin Open)

\* Every running dispatch is counted: "better to leave a slot than to clear one
\* whose task is merely temporarily unreachable" (find_orphaned_in_flight).
RunningIsCounted == Running \subseteq Open
============================================================================
