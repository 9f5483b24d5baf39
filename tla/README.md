# OperationsCenter in TLA+

A verification project for OperationsCenter, the planning, dispatch and
recovery layer of a fleet of coding agents. The modules model the parts in
which several processes share state with nothing but files and an issue board
between them, TLC checks them on small instances, and TLAPS proves the most
important safety properties for every value of the constants.

Paths below are relative to `src/src/operations_center/`. `PROJECT.json` maps
every definition to the lines it models.

## 1. The system

OperationsCenter takes tasks from an issue board, decides how each is to be
executed (lane, backend, runtime), runs an external coding agent on it in a
workspace of its own, and reports the outcome to the board. There is no central
server and no database. What the processes share is

* the **board** (Plane or Forgejo, behind the `BoardClient` protocol), written
  by role workers, maintenance tasks, the review watcher and people;
* **usage.json**, an event ledger which is the only record of how many
  dispatches are running, and from which budgets and circuit breakers are
  computed;
* **lock files** for managed audits, one per managed repository;
* **GitHub**, read by gates and reconciliations.

The processes: one board worker per role (`goal`, `test`, `improve`,
`spec-author`), each of which starts a planning and an execution subprocess for
a task; the maintenance runner (`board_unblock` and others) on a timer; the pull
request review watcher; command-line tools such as `operations-center-audit`.
Any of them may be killed at any point, and every request to the board may fail.

### Components

| Component | State | Operations | Interacts with | What is hard | Correct when |
|---|---|---|---|---|---|
| Audit dispatch lock (`audit_dispatch/`) | one lock file per repository: dispatcher pid, audit pid | sweep, acquire, update, release, unlock | the audit subprocess, other dispatchers, the operator | crash between two steps, stale locks, swallowed errors, sentinel timeouts | at most one audit per repository; a dead holder does not block; a dispatch ends |
| Usage store file (`execution/usage_store.py`) | `usage.json`, `usage.json.tmp`, one RLock per path and process | load, append, save | every executor and gate | several processes, a crash within a save, an exception under the lock | recorded events are kept; the file is readable at every moment |
| Concurrency accounting (`execution/coordinator.py`, `in_flight_reconcile.py`) | started and finished events | gates, slot record, `finally`, sweeps | usage store, board, killed executors | check-then-take, leaked slots, a sweep beside a run | caps hold up to the race; slots return; running dispatches are counted |
| Forgejo adapter (`adapters/forgejo/client.py`) | the labels of an issue, its state among them | transition, label update, priority | the board worker's label helpers | read-modify-write without a version, late requests | an issue has one state, never none |
| Board worker (`entrypoints/board_worker/`) | the claimed task and a copy of its labels | poll, claim, dispatch, report | board, executor, `board_unblock` | a stale copy, death in mid-handler, ordering of transition and labels | outcomes are reported; terminal states are kept |
| `board_unblock` (`entrypoints/maintenance/`) | a listing and the decisions taken from it | list, decide, apply | board, GitHub, ledger | decisions applied late, loops between rules | nothing is stuck for ever; nothing loops for ever |
| Recovery loop and delivery (`execution/recovery_loop/`, `coordinator.py`, `workspace.py`, `board_worker/dispatch.py`) | attempts and their trail, the workspace, the task branch, the result file | evaluate, retry, commit, squash, push, report | adapters, the remote, the board | retry of what is not idempotent, pushes by others, a kill between push and report | attempts are bounded and safe; what is reported as pushed is on the remote; nobody's work is overwritten |
| Usage ledger (`execution/usage_store.py`, `backends/worker_backend_*`) | the event list, cut to 7 days and 1000 events | record, count, cool down, probe, clear | every gate, the backend selector | a cap charged late, a cut that forgets, a probe that answers late | caps hold up to the race; a limit is kept until it resets or is disproved |
| Lineage and follow-ups (`board_worker/outcomes.py`, `work_ceiling`) | labels that link tasks | split, verify, repair, improve, close | board | runaway creation, two last children | every chain ends; a split task is closed when its chunks are done, and only then |
| Review watcher (`entrypoints/pr_review_watcher/`) | one state file per pull request | poll, review, fix, rebase, merge, escalate, close and re-queue | GitHub, CI, the board, authors | everything decided from a listing, kills between push and save, failed queries | only reviewed and checked heads are merged; budgets hold; every pull request ends or reaches a human |
| Queue healing, parked states, CI coordinator, audit governance, heartbeats | small stores, each its own | | | list-then-apply, timestamps | see sections 7 and 8 |
| Observer, insights, decision, proposer, policy, routing, artifact index, calibration, tuning, evaluation | none, or result files | batch computations | | nothing concurrent | functional correctness only |

`PROJECT.json` has all of them under `components`, with a status and a reason.

### Hazards

The places where this code can go wrong in a way a test would hardly reach are
under `hazards`, each with its line and the properties that would catch it. They
fall into four groups:

1. **Two steps that look like one**: gate and slot, payload check and unlink,
   fetch and replace, listing and transition, transition and label.
2. **A crash between them**: `Popen` and the record of the pid, `open` and
   `rename`, claim and outcome, start and finish.
3. **Old knowledge**: label sets built from a listing taken before the claim,
   transitions decided before a GitHub lookup, a snapshot of open slots, the
   head of a listing at the time of a merge, a cap read before a creation, a
   probe's answer.
4. **Swallowed failures**: `on_spawn`, label writes, the release of a lock, the
   finished marker, finalize after a success, a check query, the diff of a pull
   request, the lookup of a pull request by its branch.

## 2. Modules

| Module | Models | Proofs | Instances |
|---|---|---|---|
| `AuditLock` | lock file, sentinel, executor, `unlock` command | `AuditLockProofs` | `MCAuditLock` |
| `UsageFile` | the load-append-save protocol, down to inodes | `UsageProofs` | `MCUsageFile` |
| `UsageLedger` | what the events mean: rate caps, slots, cooldowns, the probe | `UsageProofs` | `MCUsageLedger` |
| `InFlight` | gates, slots, executors, orphan sweeps | `InFlightProofs` | `MCInFlight` |
| `ForgejoBoard` | labels as states, fetch-then-replace, late requests | `ForgejoBoardProofs` | `MCForgejoBoard` |
| `TaskBoard` | worker, outcomes, `board_unblock`, operator | `TaskBoardProofs` | `MCTaskBoard` |
| `RecoveryEngine` | classifier, rules and handlers of the recovery loop, as operators | through `Delivery` | |
| `Delivery` | one task's dispatches: executor, recovery loop, workspace, push, result file, scope check; extends `RecoveryEngine` | `DeliveryProofs` | `MCDelivery` |
| `Lineage` | follow-ups, splits, caps, the closing of a split task | `LineageProofs` | `MCLineage` |
| `PrPromise` | abstract: what the watcher promises about a pull request and its task | | |
| `ReviewWatcher` | the poll of one pull request, its state file, CI, authors; implements `PrPromise` | `ReviewWatcherProofs` | `MCReviewWatcher` |

The modules meet at a few seams, and each is an assumption of one module and
the subject of another. `InFlight` takes an append to the ledger as one step;
how appends of several processes lose each other is `UsageFile`. `TaskBoard`
takes a transition and a label write as one step each, on a board with a state
field; what the Forgejo adapter makes of them is `ForgejoBoard`. `TaskBoard`
takes an execution as an outcome; its slot is `InFlight`, its meaning for the
gates `UsageLedger`, its work and its branch `Delivery`, the tasks it creates
`Lineage`, and what becomes of its pull request `ReviewWatcher`.

Each state variable is commented with what it stands for, each action with the
function it translates. Operators called `Mutant: ...` in the comment above them
are deliberately wrong variants of the definition below them: the property they
are paired with in `PROJECT.json` is violated when they take its place. They
are used by no specification.

### AuditLock

A process is one `operations-center-audit run`: first-use sweep over the lock
files, acquire, spawn, record of the audit pid, wait, release, exit. A critical
section under the flock'ed sentinel is one step, and the five second timeout of
the sentinel is an action of its own wherever it can happen (`AcquireTimeout`,
`UpdateTimeout`, `ReleaseTimeout`), with the treatment the code gives it: raised,
swallowed, logged. `Crash` and `Interrupt` (Ctrl-C) leave the audit subprocess
alive, since it has a session of its own. `unlock` is two steps, check and
unlink. Pids are not reused.

`exposed` is a history variable. It collects the repositories on which the lock
lost track of a live audit: a crash while the audit pid is not in the file, a
Ctrl-C while the audit runs, an unlock whose check was out of date by the time of
the unlink.

### UsageFile

Files are inodes, names move. Opening `usage.json.tmp` truncates whatever inode
has the name; `replace` moves the name, so a writer whose file was renamed by
another goes on writing into `usage.json`. Contents are a set of events, `Empty`
or `Mixed`, and `json.loads` accepts only the first. Exceptions leave the `with`
block and release the lock; a crash abandons the call. `overlapped` is a history
variable: callers whose load-to-rename met one of another process.

### InFlight

An executor builds a request, passes the resource gate and the backend caps, is
admitted, starts (records the slot), and finishes, raises or is killed. The rate
and memory gates are a refusal that may always happen. A sweep snapshots the open
slots, looks each up, and closes the ones the board does not know. Startup sweeps
hold a file lock; the watchdog's (Rule 11 of `board_unblock`) do not. `Gone` says
what the board answers to a lookup: the coordinator records slots under
`request.run_id`, a fresh uuid, and no issue is found under one, so the answer is
404 whatever became of the run.

### ForgejoBoard

The labels of each issue, state label included, and clients that list, then
perform several operations on the copy they hold. Every write is a fetch and a
PUT of the whole set. `late` holds timed-out PUTs that may still arrive, after
any number of newer writes. The priority label is not tracked, but `set_priority`
is, since it replaces all labels too.

### TaskBoard

State, labels and age of every task; workers with a copy of the issue they
claimed; unblockers with a plan decided from a listing. `Decide` is the rule list
of `run_once` in its order, each rule a predicate with the code's name. `Age`
keeps only what the rules tell apart: just written, older than
`clean_blocked_min_minutes`, two hours, four hours. Labels are the tags the rules
read plus the two counters. Memory and open pull requests are free choices of a
listing. `Deaths` lets a worker die anywhere and lets any request fail; it also
lets the lookup of a task's pull request fail or find nothing (`missed`), task by
task, in which case the rules after `MergedReconcile` apply in the same pass to a
task whose work is merged. A decision taken so is marked `blind`, for the
properties only.

### UsageLedger

The list of events, appended to in one step and cut by every save as
`_prune_events` cuts it: first by age, then to the last `keep` of any kind. Gates
count executions of the last hour and day and started events without a finished
one; the record of an execution follows its run, so the caps are charged late. A
limit notice replaces the cooldown of the same key; the probe takes a snapshot
of the blocked keys, tries a model, and clears with what the snapshot said. A key
is a model (its weekly limit) or a kind that stops every model. A reset may be
reported for any time, beyond the week the list reaches back too, since
`parse_worker_backend_reset` accepts any. `Sweep` is what a startup or watchdog
sweep writes: a finish for an open slot whose run id the board does not know,
which is every one, that of a running dispatch included (`InFlight` has the sweep
step by step). One worker backend and one executor backend; the events of others
are `Noise`.

Three history variables name the ways in which the ledger forgets: `cut`, kinds
whose events fell off the list while they counted; `swept`, executors whose slot
a sweep closed under them; `overtaken`, keys whose last report is lost because a
probe that answered before it cleared it after, or because it is over seven days
old and its reset still ahead.

### RecoveryEngine and Delivery

`RecoveryEngine` holds `Classify` and `Evaluate` in the order of the code's early
returns. `Delivery` is the life of one task's dispatches: the policy check, calls
of the adapter, the decision after each, the booking, and finalize (diff and
patch gates, commit of the tree, squash, the custodian's check, push, pull
request). The executor writes a result file or is killed at any point; the worker
reads it, retries the whole run once when the failure reads like a network fault,
verifies the pushed branch against the allowed paths, and tells the board. Work
is a set of pieces: each call that began may leave one in the tree or committed
by the agent, inside or outside the scope; a branch holds a set of pieces, and
`OtherPush` adds somebody else's. With the policy's `switches`, the adapter is the
team, DAG or critique executor: a run that meets a limit of its worker backend is
followed, in the same call, by a run of the same request on another one
(`Switch`). A push fails before or after the remote took
it. An adapter is whatever keeps the contract of `AdapterErrorCode`
(`AdapterContract`): `backend_unavailable` only when the request did not begin.

### Lineage

The board as a sequence of tasks with the labels that link them. A worker claims,
runs, and by outcome creates: the brakes are read from one listing
(`Brakes`: retry-count, ceiling, root cap) and the creations follow one by one.
The retry-count label has two writers: a creation gives the child one more than
its parent's issue had (`born`, which never changes), and a kill of the executor
counts the same label of the task itself up (`Killed`, in the failure's labels of
`Settle` and, for an executor that left an empty file, in `Breaks`). `count` is the
label on the board and `carry` the one in a worker's copy of the issue, which every
other label write puts back (`Relabel`). That Rule 1 of `board_unblock` cancels a
task after three kills is `TaskBoard`'s; here such a task may run again.
The last chunk to finish lists its siblings (`CloseCheck`) and closes the split
task in a later step (`ClosesParent`). One disturbance happens per behaviour,
named by the board's `scene`: a listing, a creation or a write fails, a task is
requeued (Rule 6 or 8 of `board_unblock`, or an operator), or is claimed from a
stale listing; or the repository has `await_review`. `marks` remembers which task
it happened to.

### PrPromise and ReviewWatcher

`PrPromise` has three variables: the pull request, its task's state, and the
re-queue count. `ReviewWatcher` adds the branch, CI per head, the verdict status,
the state file (none, whole or torn) and the watcher's in-memory copy, and takes
the poll step by step: settle CI or repair it, rebase, review the diff of the
branch's present head (or the council does), send a fix pass, gate, merge,
escalate, park and resume, retract an escalation, close and re-queue. A diff whose
request fails comes back empty and is reviewed as one that changes no files
(`StartReview`, `seen = 0`). Before the merge come the gates that need no CI: branch
protection, on by default (`verify`), and sensitive paths (`unacked`); they let the
merge pass (`Permitted`) or refuse it and leave everything as it is (`Refused`).
`Defer` is a poll that finds no runnable backend for the review, any number of
times. The hand-back of a task fails before the transition, at it, or in the
comment after it, when the task is moved all the same (`RequeueFails`). The watcher
may be killed between any two steps and loses its copy; a kill within a save
leaves the file torn. Requests fail, authors push, the base moves, CI reports and
is re-run, a human ends the pull request. The refinement mapping is the identity
but for `taken`: a pull request that a human ended. `hist` is history for the
properties: approved and conceded heads, passes since the last external push, the
terms of the merge.

## 3. What the runs check

All runs pass. What the code does not keep is in section 6.

| Run | Instance | Shows |
|---|---|---|
| `audit_lock` | 3 processes, 1 repository, crashes, Ctrl-C, both unlocks | Mutual exclusion fails through the three named holes only (`OneAuditUnlessExposed`); a busy process or an orphan is named by the lock file (`LockNamesBusy`); every dispatch ends (`DispatchEnds`) |
| `usage_file` | 3 threads in 2 processes that may be killed | No event is lost and the file stays readable as long as no two processes overlap (`LedgerKept`); an isolated event survives even when others do (`IsolatedEventKept`); a record returns on all paths, full disks included (`RecordEnds`) |
| `usage_ledger` | 5 scenes: 2 executors with a list of 4 events, 2 with 7 and 1 with 6 and a sweep beside them, cooldowns of up to 3 keys with a probe, lists of 2 and 3, resets beyond the week; 1.2 million states | The rolling caps are overshot by fewer executions than executors (`RateBound`); a running dispatch holds a slot (`SlotSeen`); a limit is in the list, once, until it resets or is disproved (`CooldownKept`); the backend is passed over exactly while the limits stop every model (`BlockedHonest`); with the cut, the sweep, the late probe and the seven days as the only exceptions |
| `in_flight` | 2 executors, 5 runs, 2 backends, a watchdog | Every slot has an owner or was leaked (`SlotsAccountedFor`); each cap is overshot by fewer dispatches than there are executors (`GlobalOvershoot`, `BackendOvershoot`) |
| `in_flight_live` | 1 executor, 2 runs, startup and watchdog sweeps | A leaked slot is given back (`LeakCleared`) |
| `forgejo_race` | 2 clients, 1 issue, 2 operations per listing, 1 late request | An issue is never without a state label (`NeverStateless`) |
| `board_kills` | parent and child, 1 worker, 1 unblocker, operator | At most one execution follows the third SIGKILL of a task (`KillsBounded`), when no worker dies and no gate, policy, capacity or campaign label comes between |
| `board_live` | 1 task that can take every path, worker deaths, failing requests and lookups | Nothing stays in Running without a worker (`StrandedRecovers`) or in Blocked (`BlockedMovesOn`); a merged task is closed, unless a pass whose lookup failed decides on it (`MergedSettles`); Rule 8 never recycles a task with the policy label (`PolicyHeld`) |
| `delivery` | 6 policies (the shipped one, one for each thing a policy lets the engine decide, and adapters that switch), 11 answers, 3 pieces of work, 2.1 million states | A request that is not idempotent begins once per run, twice where the adapter switches (`NoReplay`); the trail tells what was decided (`TrailTells`); a claimed push is on the remote (`ClaimedDelivered`), within the scope (`AcceptedInScope`), and no push removes another's work (`RemoteKept`) |
| `lineage` | 2 workers, up to 6 tasks, chunks of 2, 22 situations, executors killed in two of them; 3.1 million states | The open descendants of a root, those that a stale listing opened again aside, stay within the cap and what the workers read room for (`RootBound`); every chain ends, however often its tasks are killed and run again (`LineageEnds`); a split task is closed honestly (`ClosedHonest`) and, when its last chunk finishes while it is Blocked, closed (`LastChildCloses`) |
| `review` | the fleet's repository (3 heads at once; 2 heads as an hour passes), one with a council, one without protection (2 heads each), and ones without gate, protection or spec files, of which one has an unacknowledged sensitive path and one a protection that is required and missing; a fault and an event; 2.8 million states | Merged heads were reviewed, or approved on a diff that could not be read (`MergedReviewed`) and green (`MergedChecked`), never conceded (`ConcededKept`); fix passes and re-queues keep their budgets across kills (`FixBudget`, `RequeuedOnce`); the watcher implements `PrPromise` (`PromiseKept`) |
| `review_live` | the fleet's repository, with and without council; 1 fault | A gated pull request with a spec file, whose merge the other gates permit, is merged, closed or put before a human, or its file is torn, unless its review is put off again and again for ever (`PrSettles`) |

### Bounds, and why they are enough

* `AuditLock`: locks of two repositories do not interact except in the sweep's
  list, and the theorem covers any number of them. Three processes let an orphan,
  its successor and a third that sweeps or is refused meet on one file. There is
  no other bound.
* `UsageFile`: one event per caller; two processes, one with two threads, is the
  least that has both kinds of race. `Inodes` has more members than can be named
  or open at once, which is an assumption that TLC evaluates.
* `InFlight`: five runs so that caps of two can be reached, passed and reached
  again after a sweep; the theorems cover every number. Executors, and runs of
  one backend, are symmetric; the liveness run uses no symmetry.
* `ForgejoBoard`: `MaxOps` operations on one listing, two being a transition
  followed by a label write; `MaxLate` requests on their way. The theorem has
  neither bound.
* `TaskBoard`: `MaxCount` caps the counters in labels, at 5 where the kills are
  counted, which is above the 4 of the property; at 2 in the liveness run,
  where no failure kind that counts is enabled. Ages saturate at four hours,
  beyond which no rule looks.
* `UsageLedger`: an hour of 1, a day and a week of 2 and a clock to 3 (to 1 or 2
  in the scenes that are widest otherwise) let an
  event sit on the edge of each window and leave it. A dispatch writes several
  events, so lists of 4 and 6 are cut while dispatches run, and are not cut in
  others. `MaxReset` is one
  more than the week, so that a limit outlives its event.
* `Delivery`: two dispatches of at most two executor runs of at most three
  calls. Three pieces are two calls' and somebody else's. The theorems have no
  bound.
* `Lineage`: with a cap of one, six tasks pass the bound that the cap gives; a
  lineage without a cap has used its retries after five. Four tasks are a chain
  whose last one is at the cap of three; `MaxCount` is 4, so that a kill counts it
  past the cap.
* `ReviewWatcher`: each limit of the code is one, so that each is reached and
  passed, and CI waits of one and two polls; three heads are an author's, a fix
  pass's and one more push. `MaxFaults` and `MaxEvents` bound kills, failed
  requests and useless passes together, and external events; putting a review off
  is not counted as a fault. The liveness run has no external events, since an
  author may push for ever. The theorems have none
  of these bounds.

### Deadlock

Deadlock is checked except where the system is meant to stop: `AuditLock` (each
process exits), `UsageFile` (each caller records one event), `Delivery` (the
task's last dispatch has ended), `Lineage` (every task is settled and the board
full) and `UsageLedger` (the clock is at its bound).

### Fairness

* `AuditLock`: `WF` of each process's own steps. `proc.wait` has a timeout of
  1800 seconds and is followed by a kill of the process group; no step waits for
  another dispatcher. The opt-out of the timeout is not covered.
* `UsageFile`: `WF` of each caller. A thread that holds the lock runs on, and
  the file operations return.
* `InFlight`: the watchdog is started by a timer, so its sweep is weakly fair; it
  is not killed in the middle of every sweep for ever; a lookup or a record that
  is tried again and again succeeds at last (`SF`). Executors, startup sweeps and
  the 24 hour cutoff have no fairness: the leak is cleared without them.
* `TaskBoard`: `WF` of the worker (the executor has a limit of 4500 seconds and
  its outcome is reported by the same process; planning has none, so a planning
  process that hangs is outside the assumption), `WF` of the listing and of its
  application, `WF` of time, and `SF` of the application of a transition that is
  tried for ever. A failing request may fail any number of times, not always, and
  a lookup of a pull request that is tried for ever is answered at last (`Sees`):
  there is a GitHub token, without which `run_once` skips the reconciliation.
* `ReviewWatcher`: `WF` of the watcher's own steps, which it takes in a loop with
  a sleep. Nothing is assumed of CI, authors, reviewers or humans: CI may stay
  silent for ever and every review may fail to answer. `PrSettles` is about pull
  requests that the gates without CI permit (`Gates`), and names the one poll that
  may repeat for ever, `Defer`.

## 4. What is proved

The proofs are for arbitrary constants that satisfy the named assumptions of the
modules; TLC evaluates the same assumptions in every run.

**AuditLockProofs.** `TypeCorrect` and `MutualExclusion`
(`Spec => []OneAuditUnlessExposed`) for any set of processes and repositories.
Mutual exclusion speaks of two processes and is not inductive: from a state in
which a process holds the lock and the file names nobody, the next acquire breaks
it. The invariant is `TypeOK /\ AuditPhase /\ LockNamesBusy`: on a repository
that is not exposed, a process that is busy is the one the lock file names, and
an audit whose dispatcher is gone is recorded in it. Then a busy process makes
the file alive (`BusyIsAlive`), so that no sweep and no acquire touches it, and
two busy processes are named by one file and hence equal (`NamedIsUnique`).

**UsageProofs, the file.** `FileTypeCorrect`, `OneHolder`, `SerialLedgerKept`
(`[]LedgerKept`) and `IsolatedKept` (`[]IsolatedEventKept`), for any callers,
processes and inodes. That a returned event is in `usage.json` now says nothing
about the next rename, so `Traced` follows the event of a caller that met no
other process: into the temporary file it writes, and, once it has returned, into
every file and every ledger in memory that can still become `usage.json`. `Alone`
(such a caller is the only one between load and rename) makes the temporary file
its own, `NamesApart` keeps the two names on two inodes, and `SerialReadable` is
readability without overlap.

**UsageProofs, the ledger.** `LedgerTypeCorrect` (`[]TypeOK`), `RateBounded`
(`[]RateBound`), `SlotsSeen` (`[]SlotSeen`), `CooldownsKept` (`[]CooldownKept`)
and `BlockedIsHonest` (`[]BlockedHonest`), for any executors, caps, windows,
models, kinds of limit, length of the list and bound on the clock, and with every
disturbance of the model: kills, other events, late probes, the cut.

* What pruning leaves of a list is defined by the positions it keeps (`Pick`), so
  that no induction is needed: positions are numbered by their rank
  (`RankBijection`, `NthNumbers`), and the list that is left embeds into the list
  that was (`Embeds`, `PruneEmbeds`, `WithoutKeeps`). An embedding that loses none
  of the positions that are counted keeps their number (`EmbeddingCounts`).
  `SaveKeeps` puts this together: a save keeps each event that still counts, or
  puts its kind into `cut`, and keeps the number of executions since any time of
  the last day. `CountsFresh` is the reason why age never removes what counts: no
  window reaches farther than the week (`WindowAssumption`), and a limit that
  outlives it is `overtaken` when the clock passes it.
* `LedgerInv` is the inductive invariant. The caps are tested before a run and
  charged after it, so that `RateBound` is not inductive: `RatePromised` counts
  the executions recorded and the dispatches that still owe one, and `Charged`
  says that the gate, which counts a list, counts what was recorded, for every
  window within the day at once. A reader's list may lack what the file has only
  by age (`SeenKeeps`).
* `SlotListed` says that the start of a run that no sweep took for an orphan is in
  the list and no end of it; `RunsApart` that the end of another run does not
  close it, be it written by its executor or by a sweep.
* A cooldown is written by a report and removed by the next report or by a probe
  with the time of its snapshot. `LimitListed` says that what is known is listed,
  `ListedKnown` that what is listed and has not reset is known, was overtaken, or
  is about to be cleared (`Refuted`), and `RefutedForgotten` that what is about to
  be cleared is not known. `ClearedIsRefuted` then says that the clearing, minutes
  after the snapshot, takes the refuted limits and no other.
* `BlockedHonest` follows, since the active limits a reader finds are then those
  that are known (`ReportedKnown`) and the maximum and the minimum it chooses
  exist (`Extremes`).

**InFlightProofs.** `TypeCorrect`, `SlotAccounting` (`[]SlotsAccountedFor`),
`GlobalGateBound` (`[]GlobalOvershoot`) and `BackendCapBound`
(`[]BackendOvershoot`), for any finite number of executors and runs and any
number of sweepers. The bounds are not inductive, since `Start` takes a slot with
no test of its own. The invariant counts what has been promised: the slots taken
plus the dispatches past the gate stay below the cap plus the number of
executors (`GlobalPromise`, `BackendPromise`). The gate adds one promise when it
has seen a free slot, `Start` turns a promise into a slot, everything else only
shrinks the sum. `HasRun` says that an executor past `Build` has a run.

**ForgejoBoardProofs.** `TypeCorrect` and `StateNeverLost`
(`[]NeverStateless`), for any number of clients, issues, operations and late
requests. The invariant adds that the body of every PUT being sent
(`BodiesStated`) and every PUT still on its way (`LateStated`) holds a state
label, and that a transition under way names a state (`OpsWellFormed`).
The step is `NewLabelsStated`: whichever operation computes a set from labels
that have a state, the set has one.

**DeliveryProofs.** `TypeCorrect`, `NeverReplayed` (`[]NoReplay`),
`TrailIsTold`, `ClaimsAreDelivered`, `AcceptedIsInScope` and `RemoteIsKept` (the
action property `RemoteKept`), for every policy, every set of answers that keeps
the adapters' contract, and any number of dispatches and pieces. The heart of
`NeverReplayed` is the lemma `EvaluateRetries`: for a request that is not
idempotent the engine retries only failures that the classifier places before
the request, and by the contract such a call has not begun (`Unbegun`). A call
that switched gives its failure no code and is not retried, so that the two runs
of one call are all there are. `Counted` ties the attempt to the trail.
`Carried` and `Scoped` follow the pieces of a run from the workspace to the
remote and through the result file to the worker; `Leased` says that what a
squashed branch would overwrite is what was checked out.

**LineageProofs.** For any finite set of workers (`FleetAssumption`) and any
number of chunks, suggestions and tasks and any caps.

* `TypeCorrect` and `EveryLineageEnds` (`[]LineageEnds`): along a chain the
  retry-counts that tasks are created with grow strictly and stay within three,
  and the label on the board, which kills count up and old copies down, never
  falls below the one its task was created with. That last part is what the
  brakes rest on: the next task is checked against, and created with one more
  than, the label as the worker carries it. `Carried` says that no worker carries
  less than its task was created with, `Counted` that a step which creates nothing
  keeps every label above it, whoever writes which copy back. The check and the
  creation are different steps, so `Granted` says that a worker which may create
  still has the retries it was granted; `Linked` that labels name tasks which
  exist.
* `ClosingIsHonest` (`[]ClosedHonest`). The siblings are read in one step and the
  parent is closed in another. `Alone` bridges them: a task that was handed out
  once has one worker and stays Running until its outcome is written (`Rested`,
  `Lone`, `Behind`), and a task that is being closed has no worker and settled
  chunks (`Sealed`).
* `LastChunkCloses` (`[]LastChildCloses`). `Seen` says that every finished chunk
  of a parent that is not yet Blocked is still watched by its worker, and that a
  Blocked parent whose chunks have all finished has one worker yet to look.
* `RootStaysBounded` (`[]RootBound`). The cap is read from a listing and the
  creations follow, so the bound is not inductive. `Metered` and `Bounded` count
  tokens: the open descendants of a root plus the creations that workers have
  been let through to make stay below the cap plus one split per worker. The
  proof found that the property was false as first stated: a stale listing can
  open a finished descendant again on top of the bound. `RootBound` now leaves out
  the tasks that are marked so.

**TaskBoardProofs.** For any tasks, links and labels and any bound on the
counters.

* `BoardTyped` (`[]TypeOK`), for any number of workers and unblockers. `Typed`
  adds the types of the unblocker's decisions, and that a worker which is not
  idle has a task.
* `PolicyIsHeld` (`PolicyHeld`), for one worker of each role and one unblocker
  (`OneEach`), which is how the watchers are started; workers may die anywhere and
  every request may fail. The step that applies an action tests nothing, so the
  promise rests on the time of the listing. `Apart` says that a task which is
  Blocked while a worker has it was blocked a moment ago by that worker, and is
  too young for Rule 8; `Held` that nobody works on a task while the unblocker
  holds a Rule 8 action for it, so that nobody labels it. `OneEach` cannot be
  dropped for the code as it is: given two workers of one role, TLC finds one that
  claims, from its old listing, a task the other has failed and Rule 8 has been
  decided for (a claim tests no state); given two unblockers, one that requeues
  from a Running listing what the other is about to act on under Rule 8.
* `KillsStayBounded` (`[]KillsBounded`), under `OneEach` and `Quiet`: no deaths,
  no open-PR gate, no campaign tasks, no policy or capacity failures. TLC shows
  that the bound fails when campaign tasks, policy failures or capacity failures
  are let in: Rule 9.5 promotes whatever the exit labels say, and the removal of a
  reason label writes back the label set of the listing, and with it an old retry
  count. It fails with deaths too: a worker that dies between the transition and
  the label leaves a kill uncounted. With the gate let in no violation was found,
  in a state space that was not exhausted; there the condition is only what the
  proof needs. Under `Quiet`, `Marks` says that every label set anybody holds
  shows the signal of the kills it counts and has nothing for the unblocker to
  remove, and that a worker's copy has the board's retry count; `CountedAt` that
  the count misses no kill but the one being reported; `LeftAt` that after three
  kills a pending requeue and a chance to run are not both left, and after four
  neither is.

**ReviewWatcherProofs.** For every configuration, all limits and any number of
heads, faults and events.

* `WatcherTyped` (`[]TypeOK`); `Within` adds that the heads a poll has listed and
  reviewed are heads of the branch, and that a counter is below its limit where
  the step that raises it comes after the test.
* `WatcherKeepsPromise` (`Spec => PromiseKept`, the refinement). It needs only the
  order of the closing sequence and of the merge (`Ordered`): the task has left In
  Review before the receipt, and the watcher is behind a merge only if it made it.
* `OnlyReviewedMerged` (`[]MergedReviewed`): `Follows` carries the reviewed head
  from the review, through the gates, to the merge request, or that there was none
  because the diff could not be read. `OnlyCheckedMerged` (`[]MergedChecked`):
  `Looked` says that past the CI gate the listed head has a report; reports are
  replaced, never withdrawn, so that the merge gate, which lets "no checks" pass,
  does not meet that there.
* `ConcededNeverMerged` (`[]ConcededKept`): as long as the branch
  stays on a conceded head, the file holds its escalation (`Kept`), and only the
  end of the pull request gives the file up; `Paper` relates the file, the copy in
  memory and the place of the poll.
* `BudgetKept` (`[]FixBudget`): the file is charged before a pass runs. `Copies`
  says that file and copy agree on the charge, `Tracks` that a head which moved
  during a poll was moved by somebody else, `Spent` that every pass is on the file
  and that a head which looks foreign to it has renewed the budget.
* `HandedBackOnce` (`[]RequeuedOnce`): `Once` says where the watcher is once it
  has handed the task back; a second time takes a close that failed, or a comment
  that failed after the first.

## 5. What is only model-checked

* Liveness under fairness (`DispatchEnds`, `RecordEnds`, `LeakCleared`,
  `StrandedRecovers`, `BlockedMovesOn`, `MergedSettles`, `PrSettles`): out of reach
  of the prover.

Every other invariant and action property of the runs is the statement of a
theorem; those of `TaskBoard` under the conditions named above.

## 6. What the models also show

### Where the code does not do what it says

Each of these is a definition of the module, stated as the quoted comment has it.
Added to the named configuration as an invariant, it is violated.

| Definition | Add to | The comment | What happens |
|---|---|---|---|
| `OneAuditPerRepo` (`AuditLock`) | `AuditLock.cfg` | `lock_store.py:20-23`: a crashed dispatcher's audit keeps its lock | The dispatcher dies between `Popen` (`executor.py:108`) and the record of the audit pid; the next dispatch sees a stale lock and starts beside the orphan |
| `LedgerWhole` (`UsageFile`) | `UsageFile.cfg` | `usage_store.py`: the temporary file and the rename make a save atomic | The temporary name is fixed (`:135`) and the RLock per process: one process renames the file the other has just truncated |
| `RunningIsCounted` (`InFlight`) | `InFlight.cfg` | `in_flight_reconcile.py:114` | Slots are recorded under `request.run_id` (`coordinator.py:313`) and looked up as issues; the board answers 404 and the slot of a running dispatch is closed |
| `OneState` (`ForgejoBoard`) | `ForgejoBoardRace.cfg` | `client.py:214`, `:376`: one state label | A transition, then a label added from the listed copy (`labels.py:115`): the old state label comes back |
| `TerminalKept` (`TaskBoard`) | `TaskBoardKills.cfg` (an action property) | `outcomes.py:59`: a terminal state is kept | A task cancelled while it runs is moved to Blocked by `handle_failure` (`:498`), which has no terminal check |
| `ParkCapSurfaces` (`ReviewWatcher`) | `ReviewWatcherLive.cfg` with `Configs <- Parked`, `MaxHour = 3` | `main.py:3089`: the start of the park is not reset by the resume | The hourly resume clears it (`:3149`), so the 24-hour cap is never reached |
| `ReviewHasWork` (`Delivery`) | `Delivery.cfg` | `workspace.py:518-524`: the "claims-vs-reality gap" | A finalize that raises is only logged (`coordinator.py:388-398`), and the success stands without a pushed branch |

### What a maintainer may want to know

Behaviours that are reachable and that no comment denies. They are the reason why
some properties are stated with an exception.

* Ctrl-C on a dispatcher releases the lock while its audit goes on (`Interrupt`).
* `unlock` without `--force` may remove a live lock that was acquired between its
  check and its unlink (`UnlockRelease`).
* Two processes that record at the same time lose one event (`overlapped`). For a
  started event, this means a running dispatch that no cap counts.
* Several executors at the gates together pass a cap of one.
* On Forgejo, a label write that races a transition undoes it or leaves two
  states; `KNOWN_STATES` has neither `Running` nor `In Review`, so the claim of a
  task raises there (`TransitionRefused`).
* Rule 6 requeues a task that has been running for two hours although its worker
  is alive, when a retry makes the dispatch that long.
* A label write from a copy of claim time removes a `dead-remediation` label an
  operator has set since.
* `apply_board_actions` computes a label set from its listing, so that removing a
  reason label can take a retry count back and let a killed task run again past
  Rule 1's cap; Rule 9.5 promotes a campaign task whatever its exit labels say.
* When the lookup of a pull request raises or finds nothing
  (`board_unblock_task.py:128`, `github_pr.py:446`), or there is no token, the task
  is not reconciled, and Rule 3, 5 or 8 may send merged work round again in the
  same pass (`blind`).
* A label write that fails after a kill leaves the kill uncounted, and Rule 1 does
  not end the loop (`KillsBounded` is claimed without deaths).
* Rule 4 has no minimum age: it can requeue an approved task between the
  transition to Blocked and the write of the policy label.
* `board_unblock` applies a transition without reading the task again: a task
  that was merged, cancelled or claimed since the listing is moved all the same.
* A dispatch appends four events, so 1000 events are 250 dispatches a week; past
  that, executions that still count, open slots and cooldowns fall off the list.
* A probe that answered before a limit was reported clears it afterwards, with
  the `account_wide` flag of its snapshot. It also clears the synthetic cooldown of
  the budget reserve, which is then written again, and so on.
* A limit whose reset is more than seven days ahead is forgotten after seven days:
  its event is pruned by age while it still holds (`usage_store.py:1900`).
* A sweep that starts while a dispatch runs closes the dispatch's slot, since the
  board knows no run id: the caps no longer count it (`swept`).
* An executor that is killed is never charged to the rate caps; a failing write
  of the ledger after a success loses the work.
* `UNKNOWN` is among the non-retryable kinds, so `retry_unknowns` has no effect;
  `settings.py:769` says that requests which are not idempotent are never retried,
  and the worker's own retry (`dispatch.py:264`) runs the executor again.
* The team, DAG and critique executors begin a request a second time within one
  call, on another worker backend, when the first met a limit
  (`worker_backend_selector.py:323-369`), whatever `request.idempotent` says and
  with the first run's work still in the workspace.
* The executor's diff cap and patch gate see the uncommitted tree only; the
  worker's check of the pushed branch is what catches the rest.
* A second executor run that leaves an empty file raises in the worker and the
  task stays Running until Rule 6.
* Nested splits never close the top task; a chunk whose creation failed is
  forgotten, and the split task is closed as if all had completed; a chunk that
  finishes before its parent is Blocked, or through review, does not close it.
* Follow-ups inherit `source: scope-split`, so a Blocked verification test of a
  split lineage is taken for a split task and closed with its children.
* Improvement follow-ups pass no ceiling, no root cap and no retry count; the
  caps default to 0, which disables them, and a listing that fails lifts them.
* A failed check query reads as no failing and no running checks; `merge_pr`
  names no head, so that on a base without the required status a push between
  listing and merge is merged unseen.
* A diff whose request fails is an empty string (`github_pr.py:498`), reviewed as
  "changes no files" (`main.py:3648-3665`): an LGTM then merges a head that nobody
  read, and the council, which is called by the files of the diff, is bypassed.
* Branch protection that is required and not set up as wanted, or a sensitive path
  without the label that acknowledges it, stops the merge with a line in the log
  (`main.py:1517-1533`): an approved pull request stays open, reviewed and refused
  at every poll, and no human is called.
* While every backend of the ladder is exhausted the review is put off without a
  count or an escalation, however long that lasts (`main.py:3812-3824`).
* When the head of a fix pass cannot be read back, the pass's own push renews its
  budget. A close that fails after the re-queue, or a comment that fails after the
  transition (`main.py:2112-2130`), hands the task back again at the next poll, up
  to the cap. A torn state file is passed over for ever.
* A kill counts the same retry-count label up that bounds follow-ups: a killed task
  has fewer follow-ups left, and its own label may stand at four or more.

## 7. Plan

What would come next, in order of importance:

1. An abstract board (one state per task, atomic transitions and label writes)
   which `TaskBoard` uses and `ForgejoBoard` refines for a single client.
2. Extensions of `TaskBoard`: the spec-author lane and Rule 9; the watcher's
   outcomes in place of `MergePr`.
3. Audit governance: budget and cooldown are checked before the dispatch and
   charged after it, outside the lock, in a file that is not written atomically.
4. Queue healing, parked states and recovery budgets, the CI coordinator's
   campaign store, heartbeats.
5. Proofs: every safety property of the runs is the statement of a theorem. What
   is left is to let the open-PR gate into `Quiet`; the other conditions of those
   of `TaskBoard` cannot be weakened without changes of the code, see section 4.

## 8. What is not modelled, and why

Process and network input and output (backends, sandboxes, webhooks) appear as
outcomes. The batch pipelines (observer, insights, decision, proposer, tuning,
calibration, evaluation, artifact index), which are most of the repository's
lines, are sequential computations over files with no state that others race for;
unit tests reach them, and a model would repeat them line by line. Contracts and
settings are the constants. Audit governance and the small stores of section 7
are of the same kind as the parts that are modelled (a check and a charge around a
dispatch, a file written in place, a list applied late) and would repeat their
hazards on a smaller scale. Priorities between tasks, comments, log lines and
notifications decide nothing that a property here speaks of.

Within modelled components:

* `AuditLock`: pids are not reused.
* `UsageLedger`: the circuit breaker, the satiation window and the proposal and
  attempt counters, which write keys of their own. `budget_decision`,
  `retry_decision`, `noop_decision` and `record_skip` have no caller in
  production.
* `InFlight`: rate and memory gates are free refusals.
* `TaskBoard`: one worker per role, which is how the watchers are started; two
  workers on one board are in `Lineage`, two dispatches of one task in
  `Delivery`.
* `Delivery`: runtime binding, run memory and observation records; the bootstrap
  of the workspace; the backend health registry, which no production path builds,
  is a flag of the policy.
* `ReviewWatcher`: one pull request, since the watcher keeps a file for each and
  takes them one after another; prompts, diffs and the votes within a council are
  a choice of verdict. The listing of open
  pull requests is complete: it is one page of 100 (`main.py:139-141`,
  `github_pr.py:400-407`), and with more open pull requests the state file of one
  beyond it would be pruned as if it were closed. An `escalated` flag that another process writes into the
  state file during a fix pass is left out.
