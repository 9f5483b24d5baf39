------------------------------ MODULE Delivery ------------------------------
(***************************************************************************)
(* How the work of one task reaches the remote: the board worker's         *)
(* dispatch (entrypoints/board_worker/dispatch.py), the executor process   *)
(* it runs, once or twice (entrypoints/execute/main.py), and in it the     *)
(* coordinator's recovery loop and the workspace manager                   *)
(* (execution/coordinator.py, execution/workspace.py).                     *)
(*                                                                         *)
(* Every call of the adapter that begins on the backend may leave a piece  *)
(* of work in the workspace, in the working tree or already committed by   *)
(* the agent.  Work is the set of pieces; a branch holds a set of pieces.  *)
(* Others (the review watcher's fix passes, an operator) push to the same  *)
(* branch.  The board's failures are TaskBoard's subject: here a write to  *)
(* the board is made or lost.                                              *)
(***************************************************************************)
EXTENDS RecoveryEngine

CONSTANTS
  Policies,       \* the policies and tasks that are explored, each with a bound
                  \* on the dispatches of the task; switches: the adapter is a
                  \* team, DAG or critique executor that may change its worker
                  \* backend (dynamic_worker_backend_selection)
  Results,        \* what an adapter may answer, with the field began
  Absent,         \* the remote has no task branch
  MaxPieces       \* pieces of work, those of others included

ASSUME BoundAssumption == MaxPieces \in Nat
Pieces == 1..MaxPieces
ASSUME AbsentAssumption == \A S \in SUBSET Pieces : Absent # S

ASSUME PolicyAssumption ==
  Policies \subseteq
    [attempts : Nat \ {0}, idempotent : BOOLEAN, unknowns : BOOLEAN, unknownLimit : Nat,
     maxDelay : Nat, rate : BOOLEAN, paid : BOOLEAN, health : BOOLEAN, modifies : BOOLEAN,
     dispatches : Nat, role : {"goal", "improve"}, review : BOOLEAN, scoped : BOOLEAN,
     switches : BOOLEAN]

ASSUME ResultAssumption ==
  Results \subseteq
    [began : BOOLEAN, ok : BOOLEAN, cat : Categories, code : Codes, after : Nat,
     killed : BOOLEAN, net : BOOLEAN]

\* The contract of AdapterErrorCode: backend_unavailable only when the request
\* certainly did not begin on the backend.
ASSUME AdapterContract ==
  \A r \in Results : r.code = "backend_unavailable" => ~r.began

VARIABLES
  cfg,       \* the policy and the task
  pc,        \* where the dispatch is
  dispatch,  \* how often the task has been dispatched
  run,       \* the executor runs of this dispatch
  loop,      \* the recovery loop of this executor run
  result,    \* the ExecutionResult as it stands
  file,      \* the result file this executor run leaves behind
  first,     \* the outcome of the first executor run, when it is retried
  ws,        \* the workspace of this executor run
  remote,    \* pieces on the remote's task branch, or Absent
  hist,      \* history: pieces made, out of scope, delivered, calls begun
  task       \* the board: its state and what the worker says of the branch

vars == <<cfg, pc, dispatch, run, loop, result, file, first, ws, remote, hist, task>>

NoResult == [ok |-> FALSE, cat |-> "none", code |-> "none", after |-> 0,
             killed |-> FALSE, net |-> FALSE, pushed |-> FALSE]
Result(r) == [NoResult EXCEPT !.ok = r.ok, !.cat = r.cat, !.code = r.code,
              !.after = r.after, !.killed = r.killed, !.net = r.net]
Failure(category) == [NoResult EXCEPT !.cat = category]
FreshLoop == [attempt |-> 0, request |-> 0, trail |-> <<>>]
FreshWs == [tree |-> {}, commits |-> {}, lease |-> Absent, squashed |-> FALSE]

Executing == {"start", "call", "switched", "evaluate", "book", "finalize", "push", "emit"}
PCs == Executing \cup {"idle", "read", "verify", "outcome", "end"}
Made == 1..hist.made

Init ==
  /\ cfg \in Policies
  /\ pc = "idle"
  /\ dispatch = 0
  /\ run = 0
  /\ loop = FreshLoop
  /\ result = NoResult
  /\ file = "missing"
  /\ first = NoResult
  /\ ws = FreshWs
  /\ remote = Absent
  /\ hist = [made |-> 0, outside |-> {}, work |-> {}, begun |-> 0]
  /\ task = [state |-> "Ready for AI", claim |-> FALSE]

OnRemote == IF remote = Absent THEN {} ELSE remote

----------------------------------------------------------------------------
(* The worker starts a dispatch and the executor.                          *)

\* Claimed and planned; the executor is started with an empty workspace.
Dispatch ==
  /\ pc \in {"idle", "end"}
  /\ task.state \notin {"In Review", "Done"}
  /\ dispatch < cfg.dispatches
  /\ dispatch' = dispatch + 1
  /\ run' = 1
  /\ hist' = [hist EXCEPT !.begun = 0, !.work = {}]
  /\ task' = [state |-> "Running", claim |-> FALSE]
  /\ pc' = "start"
  /\ UNCHANGED <<cfg, loop, result, file, first, ws, remote>>

\* The executor refuses before the adapter is called: policy, resource gate and
\* backend caps, or WorkspaceManager.prepare raised.
Refuse ==
  /\ pc = "start"
  /\ \E category \in {"policy_blocked", "budget_exhausted", "backend_error"},
        net \in BOOLEAN :
       result' = [Failure(category) EXCEPT !.net = net]
  /\ pc' = "emit"
  /\ UNCHANGED <<cfg, dispatch, run, loop, file, first, ws, remote, hist, task>>

\* prepare: a clone, the base branch, and the task branch, which is taken from
\* the remote when it is there.
Prepare ==
  /\ pc = "start"
  /\ ws' = [FreshWs EXCEPT !.lease = remote, !.commits = OnRemote]
  /\ loop' = [FreshLoop EXCEPT !.attempt = 1]
  /\ pc' = "call"
  /\ UNCHANGED <<cfg, dispatch, run, result, file, first, remote, hist, task>>

----------------------------------------------------------------------------
(* The recovery loop.                                                      *)

\* What a run on the backend leaves: nothing, or a piece of work, in the tree or
\* committed by the agent, within the task's allowed paths or outside.
Leave(began) ==
  \E outside \in BOOLEAN, put \in {"nowhere", "tree", "commits"} :
    LET piece == hist.made + 1
        left == put # "nowhere"
        added(place) == IF put = place THEN {piece} ELSE {} IN
    /\ left => began /\ piece \in Pieces
    /\ outside => left
    /\ ws' = [ws EXCEPT !.tree = @ \cup added("tree"), !.commits = @ \cup added("commits")]
    /\ hist' = [hist EXCEPT
                  !.begun = IF began THEN @ + 1 ELSE @,
                  !.made = IF left THEN piece ELSE @,
                  !.outside = IF outside THEN @ \cup {piece} ELSE @,
                  !.work = IF left THEN @ \cup {piece} ELSE @]

\* execute_with_worker_backend_round_robin: the run ended at a limit of its worker
\* backend, and the same call of the adapter runs the request on another one,
\* whatever the request says of being idempotent.
Switch ==
  /\ pc = "call" /\ cfg.switches
  /\ Leave(TRUE)
  /\ pc' = "switched"
  /\ UNCHANGED <<cfg, dispatch, run, loop, result, file, first, remote, task>>

\* _execute_adapter, with its only run on a backend or with the second.  The
\* adapters that switch give their failures no code.
Call ==
  /\ pc \in {"call", "switched"}
  /\ pc' = "evaluate"
  /\ \E r \in Results :
       /\ pc = "switched" => r.code = "none"
       /\ result' = Result(r)
       /\ Leave(r.began)
  /\ UNCHANGED <<cfg, dispatch, run, loop, file, first, remote, task>>

Entry(kind, decision, delay) ==
  [attempt |-> loop.attempt, kind |-> kind, decision |-> decision,
   delay |-> delay, request |-> loop.request]

\* bounded_sleep
BoundedSleep(delay) == IF delay < cfg.maxDelay THEN delay ELSE cfg.maxDelay

\* One turn of _run_with_recovery_loop after the call: the decision is noted,
\* with the delay that was slept; a modified request goes back to the policy
\* engine, which may block it.
Decide ==
  LET answer == Evaluate(cfg, result, loop.attempt, loop.trail)
      again == answer.decision \in Retries
      changed == answer.decision = "retry_modified_request"
      noted == [loop EXCEPT !.trail = Append(@,
                  Entry(Classify(result), answer.decision,
                        IF again THEN BoundedSleep(answer.delay) ELSE 0))]
      next == [noted EXCEPT !.request = IF changed THEN @ + 1 ELSE @] IN
  /\ pc = "evaluate"
  /\ \/ /\ ~again
        /\ loop' = noted
        /\ pc' = "book"
        /\ UNCHANGED result
     \/ /\ again
        /\ loop' = [next EXCEPT !.attempt = @ + 1]
        /\ pc' = IF loop.attempt < cfg.attempts THEN "call" ELSE "book"
        /\ UNCHANGED result
     \/ /\ changed
        /\ loop' = next
        /\ result' = Failure("policy_blocked")
        /\ pc' = "book"
  /\ UNCHANGED <<cfg, dispatch, run, file, first, ws, remote, hist, task>>

\* The engine itself raises: a synthetic rejection.
EngineRaises ==
  /\ pc = "evaluate"
  /\ loop' = [loop EXCEPT !.trail = Append(@, Entry("unknown", "reject_unrecoverable", 0))]
  /\ result' = Failure("backend_error")
  /\ pc' = "book"
  /\ UNCHANGED <<cfg, dispatch, run, file, first, ws, remote, hist, task>>

\* The usage store is written after the run.  If that raises the executor
\* reports a coordinator failure, and finalize is not reached.
Book ==
  /\ pc = "book"
  /\ pc' = IF result.ok THEN "finalize" ELSE "emit"
  /\ UNCHANGED <<cfg, dispatch, run, loop, result, file, first, ws, remote, hist, task>>

BookRaises ==
  /\ pc = "book"
  /\ result' = NoResult
  /\ pc' = "emit"
  /\ UNCHANGED <<cfg, dispatch, run, loop, file, first, ws, remote, hist, task>>

----------------------------------------------------------------------------
(* WorkspaceManager.finalize, for a result that is a success.              *)

Finalized(r) ==
  /\ result' = r
  /\ pc' = "emit"
  /\ UNCHANGED <<cfg, dispatch, run, loop, file, first, ws, remote, hist, task>>

\* The branch prefix is improve/ or review/: nothing is pushed.
FinalizeSkips == pc = "finalize" /\ cfg.role # "goal" /\ Finalized(result)

\* A git command fails or times out outside the try blocks of finalize: the
\* coordinator logs it and keeps the adapter's result.  A rev-list that fails
\* comes to the same: finalize takes it for a branch without new commits.
FinalizeRaises == pc = "finalize" /\ cfg.role = "goal" /\ Finalized(result)

\* _diff_oversized: the uncommitted diff is too wide.  Still a success.
Oversized ==
  /\ pc = "finalize" /\ cfg.role = "goal" /\ ws.tree # {}
  /\ Finalized([result EXCEPT !.cat = "scope_too_wide"])

\* _validate_patch_before_commit: a path that is never allowed, or one outside
\* the task's allowed paths, in the uncommitted diff.  Still a success.
PatchBlocked ==
  /\ pc = "finalize" /\ cfg.role = "goal" /\ ws.tree # {}
  /\ Finalized([result EXCEPT !.cat = "policy_blocked"])

PatchAllowed == ~cfg.scoped \/ ws.tree \cap hist.outside = {}

\* commit_all, and no commit beyond the base branch.
NothingToPush ==
  /\ pc = "finalize" /\ cfg.role = "goal" /\ PatchAllowed
  /\ ws.tree \cup ws.commits = {}
  /\ Finalized(result)

\* The squashed branch has custodian findings: refused, nothing is pushed.
CustodianBlocks ==
  /\ pc = "finalize" /\ cfg.role = "goal" /\ PatchAllowed
  /\ ws.tree \cup ws.commits # {}
  /\ Finalized([result EXCEPT !.ok = FALSE, !.cat = "policy_blocked"])

\* The tree is committed and several commits are squashed into one.
Commit ==
  /\ pc = "finalize" /\ cfg.role = "goal" /\ PatchAllowed
  /\ ws.tree \cup ws.commits # {}
  /\ \E squashed \in BOOLEAN :
       ws' = [ws EXCEPT !.tree = {}, !.commits = @ \cup ws.tree, !.squashed = squashed]
  /\ pc' = "push"
  /\ UNCHANGED <<cfg, dispatch, run, loop, result, file, first, remote, hist, task>>

Pushed(r) == [r EXCEPT !.pushed = TRUE]

\* Mutant: a rewritten branch is pushed with --force.
PushableForced == ws.squashed \/ remote = ws.lease

\* A fast-forward push succeeds, and --force-with-lease too, only when the
\* branch is still where the clone saw it.
Pushable == remote = ws.lease

\* The push went through; then a pull request, whose failure is only logged.
Push ==
  /\ pc = "push" /\ Pushable
  /\ remote' = ws.commits
  /\ result' = Pushed(result)
  /\ pc' = "emit"
  /\ UNCHANGED <<cfg, dispatch, run, loop, file, first, ws, hist, task>>

\* Mutant: a failed push is a warning, as a failed pull request is.
PushFailedWarns(r, net) == [r EXCEPT !.pushed = TRUE]

\* The result of a push that failed: the run fails, as a backend error.
PushFailed(r, net) ==
  [r EXCEPT !.ok = FALSE, !.cat = "backend_error", !.code = "none", !.net = net]

\* The push was refused, or the connection broke before or after the remote
\* took it.
PushFails ==
  /\ pc = "push"
  /\ \E net \in BOOLEAN : result' = PushFailed(result, net)
  /\ remote' \in {remote} \cup (IF Pushable THEN {ws.commits} ELSE {})
  /\ pc' = "emit"
  /\ UNCHANGED <<cfg, dispatch, run, loop, file, first, ws, hist, task>>

\* What the worker reads of a result.
Reported(r) == [NoResult EXCEPT !.ok = r.ok, !.cat = r.cat, !.net = r.net, !.pushed = r.pushed]

\* The executor process is gone, and what it had in memory with it.
Gone ==
  /\ pc' = "read"
  /\ loop' = FreshLoop
  /\ ws' = FreshWs
  /\ UNCHANGED <<cfg, dispatch, run, first, remote, hist, task>>

\* _emit writes the result file and the executor exits.
Emit ==
  /\ pc = "emit"
  /\ file' = "whole"
  /\ result' = Reported(result)
  /\ Gone

\* The executor is killed, by the wall clock of run_executor or for memory; a
\* file it was writing is left empty.
Kill ==
  /\ pc \in Executing
  /\ file' \in {"missing"} \cup (IF pc = "emit" THEN {"empty"} ELSE {})
  /\ result' = NoResult
  /\ Gone

----------------------------------------------------------------------------
(* The worker reads the result.                                            *)

\* The dispatch is over; its temporary directory is removed.
Over ==
  /\ pc' = "end"
  /\ run' = 0
  /\ result' = NoResult
  /\ first' = NoResult
  /\ file' = "missing"
  /\ UNCHANGED <<cfg, dispatch, loop, ws, remote, hist>>

\* A transition of the task, made or lost.
Settle(state, claim) ==
  /\ task' \in {[state |-> state, claim |-> claim], [task EXCEPT !.claim = FALSE]}
  /\ Over

\* No result file, or an empty one: fail_task.
ReadNothing ==
  /\ pc = "read" /\ run = 1 /\ file # "whole"
  /\ Settle("Blocked", FALSE)

\* An exception leaves the dispatch: a second run that left an empty file, or
\* the fetch of the scope check timing out.  The task stays Running.
DispatchRaises ==
  /\ \/ pc = "read" /\ run = 2 /\ file = "empty"
     \/ pc = "verify"
  /\ Over
  /\ UNCHANGED task

\* D1: one more run of the executor, in an empty workspace, after a failure
\* that looks like the network.
Retry ==
  /\ pc = "read" /\ run = 1 /\ file = "whole"
  /\ TransientFailure(result)
  /\ run' = 2
  /\ first' = result
  /\ file' = "missing"
  /\ result' = NoResult
  /\ hist' = [hist EXCEPT !.begun = 0, !.work = {}]
  /\ pc' = "start"
  /\ UNCHANGED <<cfg, dispatch, loop, ws, remote, task>>

\* The outcome that counts: of the second run if it left a file, of the first
\* otherwise.
Outcome == IF run = 2 /\ file = "missing" THEN first ELSE result

Read ==
  /\ pc = "read"
  /\ \/ run = 1 /\ file = "whole" /\ ~TransientFailure(result)
     \/ run = 2 /\ file # "empty"
  /\ result' = Outcome
  /\ pc' = IF Outcome.ok /\ Outcome.cat # "scope_too_wide" THEN "verify" ELSE "outcome"
  /\ UNCHANGED <<cfg, dispatch, run, loop, file, first, ws, remote, hist, task>>

\* Mutant: the parent trusts the gate of the executor.
ScopeTrusted == TRUE

\* The remote's branch stays within the task's allowed paths.
PushedInScope == ~cfg.scoped \/ ~result.pushed \/ OnRemote \cap hist.outside = {}

\* verify_pushed_scope: the parent fetches the branch and diffs it; what it
\* cannot verify it fails.
Verify ==
  /\ pc = "verify" /\ PushedInScope
  /\ pc' = "outcome"
  /\ UNCHANGED <<cfg, dispatch, run, loop, result, file, first, ws, remote, hist, task>>

VerifyFails ==
  /\ pc = "verify" /\ cfg.scoped /\ result.pushed
  /\ Settle("Blocked", FALSE)

\* handle_success
Succeed ==
  /\ pc = "outcome" /\ result.ok /\ result.cat # "scope_too_wide"
  /\ Settle(IF cfg.role = "goal" /\ cfg.review THEN "In Review" ELSE "Done", result.pushed)

\* handle_failure
Fail ==
  /\ pc = "outcome" /\ (~result.ok \/ result.cat = "scope_too_wide")
  /\ Settle("Blocked", FALSE)

----------------------------------------------------------------------------
\* Someone else pushes to the task branch: a fix pass, an operator, or a second
\* dispatch of the same task, claimed twice or requeued while this one runs.
OtherPush ==
  /\ hist.made < MaxPieces
  /\ remote' = OnRemote \cup {hist.made + 1}
  /\ hist' = [hist EXCEPT !.made = @ + 1]
  /\ UNCHANGED <<cfg, pc, dispatch, run, loop, result, file, first, ws, task>>

Executor ==
  \/ Refuse \/ Prepare \/ Switch \/ Call \/ Decide \/ EngineRaises \/ Book \/ BookRaises
  \/ FinalizeSkips \/ FinalizeRaises \/ Oversized \/ PatchBlocked
  \/ NothingToPush \/ CustodianBlocks \/ Commit \/ Push \/ PushFails
  \/ Emit \/ Kill

Worker ==
  \/ ReadNothing \/ DispatchRaises \/ Retry \/ Read \/ Verify \/ VerifyFails
  \/ Succeed \/ Fail

Next == Dispatch \/ Executor \/ Worker \/ OtherPush

Spec == Init /\ [][Next]_vars

----------------------------------------------------------------------------
(* Properties.                                                             *)

ResultType == [ok : BOOLEAN, cat : Categories, code : Codes, after : Nat,
               killed : BOOLEAN, net : BOOLEAN, pushed : BOOLEAN]
EntryType == [attempt : Nat, kind : Kinds, decision : Decisions, delay : Nat, request : Nat]

TypeOK ==
  /\ cfg \in Policies
  /\ pc \in PCs
  /\ dispatch \in 0..cfg.dispatches /\ run \in 0..2
  /\ loop \in [attempt : 0..(cfg.attempts + 1), request : Nat, trail : Seq(EntryType)]
  /\ result \in ResultType /\ first \in ResultType
  /\ file \in {"missing", "empty", "whole"}
  /\ ws \in [tree : SUBSET Pieces, commits : SUBSET Pieces,
             lease : {Absent} \cup (SUBSET Pieces), squashed : BOOLEAN]
  /\ remote \in {Absent} \cup (SUBSET Pieces)
  /\ hist \in [made : 0..MaxPieces, outside : SUBSET Pieces, work : SUBSET Pieces, begun : Nat]
  /\ hist.outside \subseteq Made
  /\ task \in [state : {"Ready for AI", "Running", "Blocked", "In Review", "Done"},
               claim : BOOLEAN]

\* A request that is not idempotent begins on the backend at most once in one
\* executor run, however many attempts the policy allows: "Rule 6: idempotency"
\* of engine.py with the adapters' contract on backend_unavailable.  An adapter
\* that changes its worker backend within a call begins it once more, and the
\* engine does not let that add up over the attempts.
NoReplay == ~cfg.idempotent => hist.begun <= IF cfg.switches THEN 2 ELSE 1

\* No run makes more calls than the policy's attempts, and its audit trail has
\* one entry per call, in order, of which all but the last are retries; a trail
\* ends in a retry only when the policy engine blocked the modified request, and
\* no delay in it is over the policy's bound.
TrailTells ==
  LET n == Len(loop.trail) IN
  /\ n <= cfg.attempts
  /\ \A i \in 1..n :
       /\ loop.trail[i].attempt = i
       /\ loop.trail[i].delay <= cfg.maxDelay
       /\ i < n => loop.trail[i].decision \in Retries
  /\ pc = "book" =>
       /\ n = loop.attempt
       /\ loop.trail[n].decision = "accept" <=> result.ok
       /\ loop.trail[n].decision \in Retries => result.cat = "policy_blocked"

\* No push of a run takes work off the task branch that someone else put there
\* while it ran: the branch is checked out from the remote, and a rewritten
\* branch is pushed with --force-with-lease.
RemoteKept == [][OnRemote \subseteq IF remote' = Absent THEN {} ELSE remote']_vars

\* When the worker tells the board that a branch was pushed, everything the run
\* made is on the remote, whichever of the two runs it was and whatever failed
\* in between.
ClaimedDelivered == task.claim => hist.work \subseteq OnRemote

\* A task whose pushed branch the worker accepted has none of the executor's
\* out-of-scope work on it, that of an earlier dispatch included: the parent
\* diffs the branch and not the workspace.
AcceptedInScope ==
  task.claim /\ cfg.scoped => OnRemote \cap hist.outside = {}

\* "Reporting success here let tasks reach In Review with nothing to review
\* (claims-vs-reality gap)": a task in review has its work on the remote.
ReviewHasWork == task.state = "In Review" => hist.work \subseteq OnRemote
=============================================================================
