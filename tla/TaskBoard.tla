------------------------------ MODULE TaskBoard ------------------------------
(***************************************************************************)
(* The life of a task on the board.  A board worker polls for a Ready      *)
(* task of its role, claims it by a transition to Running, plans and       *)
(* executes it and reports the outcome as transitions and label writes     *)
(* (board_worker/claim, dispatch, outcomes).  The maintenance task         *)
(* board_unblock lists the whole board, decides a transition for every     *)
(* stuck task from that listing, and then applies them one by one.  An     *)
(* operator cancels, promotes and marks tasks meanwhile.                   *)
(*                                                                         *)
(* The board is taken as the BoardClient protocol describes it: a state    *)
(* field and a label set that every label write replaces as a whole.  No   *)
(* transition is conditional on the state the writer saw.                  *)
(***************************************************************************)
EXTENDS Naturals, FiniteSets

CONSTANTS
  Tasks,
  Kind,         \* task -> task-kind label
  Approved,     \* tasks labelled self-modify: approved
  Blocker,      \* task -> the task of its blocked-by label, or None
  Parent,       \* task -> the task of its original-task-id label, or None
  FollowOn,     \* goal tasks with one of Rule 7's two label patterns
  Campaign,     \* implement-phase goal tasks of a spec campaign
  ThinGoals,    \* tasks whose goal text is too short to act on
  Gated,        \* tasks of repositories that may have a blocking open pull request
  AwaitReview,  \* tasks of repositories with await_review
  Workers,
  Role,         \* worker -> its role
  Unblockers,   \* processes that run board_unblock
  Failures,     \* the kinds of failure that executions meet
  CodeCap,      \* code_failure_retry_cap; 0 disables it
  MaxCount,     \* bound on the counters in labels
  Deaths,       \* BOOLEAN: workers and unblockers die, or a request or lookup fails
  Operator,     \* what the operator does: subset of {"cancel", "promote", "dead"}
  None

States == {"Backlog", "Ready", "Running", "Blocked", "In Review", "Done", "Cancelled"}
Terminal == {"Done", "Cancelled"}
Tags == {"policy", "capacity", "exit", "exit0", "signal", "sigkill", "thin", "gate", "pr", "dead"}
FailureKinds == {"policy", "capacity", "kill", "empty", "clean", "code", "infra"}

ASSUME KindAssumption ==
  /\ Kind \in [Tasks -> {"goal", "test", "improve", "investigate"}]
  /\ Role \in [Workers -> {"goal", "test", "improve"}]
ASSUME LinkAssumption == Blocker \in [Tasks -> Tasks \cup {None}]
                      /\ Parent \in [Tasks -> Tasks \cup {None}]
ASSUME BoundAssumption == CodeCap \in Nat /\ MaxCount \in Nat
ASSUME FailureAssumption == Failures \subseteq FailureKinds

\* updated_at, as far as the rules tell ages apart: just written, at least
\* clean_blocked_min_minutes old, more than two hours, more than four hours.
Ages == 0..3
MinutesOld == 1
TwoHours == 2
FourHours == 3

LabelSet == [tags : SUBSET Tags, retry : 0..MaxCount, code : 0..MaxCount]
NoLabels == [tags |-> {}, retry |-> 0, code |-> 0]

VARIABLES
  state,    \* task -> board state
  labels,   \* task -> its labels, other than the constant ones
  age,      \* task -> age of updated_at
  merged,   \* tasks whose pull request has been merged
  wpc,      \* worker -> its place in the poll loop
  wtask,    \* worker -> the task it works on, or None
  wcopy,    \* worker -> the labels in its copy of the issue
  wfail,    \* worker -> the failure it reports
  plan,     \* unblocker -> task -> the action decided from the listing
  seen,     \* unblocker -> task -> the labels in the listing
  kills     \* history: task -> executions that ended by SIGKILL

board == <<state, labels, age, merged>>
works == <<wpc, wtask, wcopy, wfail>>
vars == <<board, works, plan, seen, kills>>

\* blind, for the properties only: the rule was applied to a task whose pull
\* request is merged, because the lookup had failed.
NoAct == [rule |-> "none", to |-> None, add |-> {}, drop |-> {}, done |-> TRUE, blind |-> FALSE]

WorkerPlaces == {"idle", "claim", "thin", "claimed", "run", "review", "label", "fail", "block"}

TypeOK ==
  /\ state \in [Tasks -> States]
  /\ labels \in [Tasks -> LabelSet]
  /\ age \in [Tasks -> Ages]
  /\ merged \in SUBSET Tasks
  /\ wpc \in [Workers -> WorkerPlaces]
  /\ wtask \in [Workers -> Tasks \cup {None}]
  /\ wcopy \in [Workers -> LabelSet]
  /\ wfail \in [Workers -> FailureKinds \cup {None}]
  /\ \A u \in Unblockers, t \in Tasks : plan[u][t].to \in States \cup {None}
  /\ seen \in [Unblockers -> [Tasks -> LabelSet]]
  /\ kills \in [Tasks -> 0..MaxCount]

Init ==
  /\ state = [t \in Tasks |-> "Ready"]
  /\ labels = [t \in Tasks |-> NoLabels]
  /\ age = [t \in Tasks |-> 0]
  /\ merged = {}
  /\ wpc = [w \in Workers |-> "idle"]
  /\ wtask = [w \in Workers |-> None]
  /\ wcopy = [w \in Workers |-> NoLabels]
  /\ wfail = [w \in Workers |-> None]
  /\ plan = [u \in Unblockers |-> [t \in Tasks |-> NoAct]]
  /\ seen = [u \in Unblockers |-> [t \in Tasks |-> NoLabels]]
  /\ kills = [t \in Tasks |-> 0]

----------------------------------------------------------------------------
(* Writes to the board.                                                    *)

\* Mutant: the state written is not one of the board's.
TransitionUnknown(t, s) ==
  /\ state' = [state EXCEPT ![t] = IF s = "Ready" THEN "Ready for AI" ELSE s]
  /\ age' = [age EXCEPT ![t] = 0]
  /\ UNCHANGED <<labels, merged>>

\* transition_issue: unconditional.
Transition(t, s) ==
  /\ state' = [state EXCEPT ![t] = s]
  /\ age' = [age EXCEPT ![t] = 0]
  /\ UNCHANGED <<labels, merged>>

\* update_issue_labels: the whole set.
SetLabels(t, l) ==
  /\ labels' = [labels EXCEPT ![t] = l]
  /\ age' = [age EXCEPT ![t] = 0]
  /\ UNCHANGED <<state, merged>>

Reasons == {"policy", "capacity"}
Without(l, S) == [l EXCEPT !.tags = @ \ S]
With(l, S) == [l EXCEPT !.tags = @ \cup S]
Bump(n) == IF n < MaxCount THEN n + 1 ELSE n

\* add_label, remove_labels and the counters: nothing is written when the copy
\* already is as wanted, and a request that raises is logged and forgotten.
WriteCopy(w, l) ==
  \/ /\ wcopy' = [wcopy EXCEPT ![w] = l]
     /\ IF l = wcopy[w] THEN UNCHANGED board ELSE SetLabels(wtask[w], l)
  \/ Deaths /\ UNCHANGED <<board, wcopy>>

----------------------------------------------------------------------------
(* The board worker.                                                       *)

Goto(w, p) == wpc' = [wpc EXCEPT ![w] = p]
Idle(w) == Goto(w, "idle") /\ wtask' = [wtask EXCEPT ![w] = None]

\* claim_next: the listing, and a candidate of the worker's role.
Poll(w, t) ==
  /\ wpc[w] = "idle"
  /\ state[t] = "Ready" /\ Kind[t] = Role[w]
  /\ Goto(w, "claim")
  /\ wtask' = [wtask EXCEPT ![w] = t]
  /\ wcopy' = [wcopy EXCEPT ![w] = labels[t]]
  /\ UNCHANGED <<board, wfail, plan, seen, kills>>

\* _block_thin_task: transition, then the label.
BlockThin(w) ==
  /\ wpc[w] = "claim" /\ wtask[w] \in ThinGoals
  /\ Transition(wtask[w], "Blocked")
  /\ Goto(w, "thin")
  /\ UNCHANGED <<wtask, wcopy, wfail, plan, seen, kills>>

LabelThin(w) ==
  /\ wpc[w] = "thin"
  /\ WriteCopy(w, With(wcopy[w], {"thin"}))
  /\ Idle(w)
  /\ UNCHANGED <<wfail, plan, seen, kills>>

\* _open_pr_gate_clear finds a blocking pull request.
GateCloses(w) ==
  /\ wpc[w] = "claim" /\ wtask[w] \in Gated \ ThinGoals /\ Role[w] = "goal"
  /\ WriteCopy(w, With(wcopy[w], {"gate"}))
  /\ Idle(w)
  /\ UNCHANGED <<wfail, plan, seen, kills>>

\* The claim: a transition to Running, whatever the state is by now.
Claim(w) ==
  /\ wpc[w] = "claim" /\ wtask[w] \notin ThinGoals
  /\ Transition(wtask[w], "Running")
  /\ Goto(w, "claimed")
  /\ UNCHANGED <<wtask, wcopy, wfail, plan, seen, kills>>

\* clear_blocked_reason_labels, and the dispatch begins.
ClearReasons(w) ==
  /\ wpc[w] = "claimed"
  /\ WriteCopy(w, Without(wcopy[w], Reasons))
  /\ Goto(w, "run")
  /\ UNCHANGED <<wtask, wfail, plan, seen, kills>>

\* handle_success.  Its own clear_blocked_reason_labels finds nothing left.
\* verify: a verification task is created instead of the review.
Succeed(w, verify) ==
  LET t == wtask[w] IN
  /\ wpc[w] = "run"
  /\ IF Kind[t] = "goal" /\ t \in AwaitReview /\ ~verify
     THEN Transition(t, "In Review") /\ Goto(w, "review") /\ UNCHANGED wtask
     ELSE Transition(t, "Done") /\ Idle(w)
  /\ UNCHANGED <<wcopy, wfail, plan, seen, kills>>

\* The pr-url label, when a pull request was opened.
LabelPr(w) ==
  /\ wpc[w] = "review"
  /\ \/ WriteCopy(w, With(wcopy[w], {"pr"}))
     \/ UNCHANGED <<board, wcopy>>
  /\ Idle(w)
  /\ UNCHANGED <<wfail, plan, seen, kills>>

\* handle_failure: the transition comes first, unconditionally.
Fail(w, k) ==
  /\ wpc[w] = "run" /\ k \in Failures \ {"empty"}
  /\ Transition(wtask[w], "Blocked")
  /\ wfail' = [wfail EXCEPT ![w] = k]
  /\ kills' = IF k = "kill" THEN [kills EXCEPT ![wtask[w]] = Bump(@)] ELSE kills
  /\ Goto(w, "label")
  /\ UNCHANGED <<wtask, wcopy, plan, seen>>

\* The labels handle_failure leaves for the rules.
FailureLabels(l, k) ==
  CASE k = "policy"   -> With(l, {"policy"})
    [] k = "capacity" -> With(l, {"capacity"})
    [] k = "kill"     -> [With(l, {"exit", "signal", "sigkill"}) EXCEPT !.retry = Bump(@)]
    [] k = "clean"    -> With(l, {"exit0"})
    [] k = "code"     -> [l EXCEPT !.code = Bump(@)]
    [] OTHER          -> l

\* handle_failure's label writes.  Its requests follow each other at once: a
\* listing falls before them or after them.
LabelFailure(w) ==
  /\ wpc[w] = "label"
  /\ WriteCopy(w, FailureLabels(Without(wcopy[w], Reasons), wfail[w]))
  /\ Idle(w)
  /\ wfail' = [wfail EXCEPT ![w] = None]
  /\ UNCHANGED <<plan, seen, kills>>

\* Mutant: the retry count is not incremented for an empty result.
EmptyResultUncounted(w) ==
  /\ wpc[w] = "run" /\ "empty" \in Failures
  /\ WriteCopy(w, With(wcopy[w], {"exit", "signal", "sigkill"}))
  /\ kills' = [kills EXCEPT ![wtask[w]] = Bump(@)]
  /\ Goto(w, "fail")
  /\ UNCHANGED <<wtask, wfail, plan, seen>>

\* dispatch_issue: an empty result.json is an executor kill; labels, the retry
\* count, and then fail_task.
EmptyResult(w) ==
  /\ wpc[w] = "run" /\ "empty" \in Failures
  /\ WriteCopy(w, [With(wcopy[w], {"exit", "signal", "sigkill"}) EXCEPT !.retry = Bump(@)])
  /\ kills' = [kills EXCEPT ![wtask[w]] = Bump(@)]
  /\ Goto(w, "fail")
  /\ UNCHANGED <<wtask, wfail, plan, seen>>

\* Planning failed, no result file, or the pushed scope is wrong: fail_task.
DispatchFails(w) ==
  /\ wpc[w] = "run" /\ "infra" \in Failures
  /\ Goto(w, "fail")
  /\ UNCHANGED <<board, wtask, wcopy, wfail, plan, seen, kills>>

\* fail_task fetches the issue: a terminal state is left alone, unless the fetch
\* raises.
FailFetch(w) ==
  /\ wpc[w] = "fail"
  /\ \/ state[wtask[w]] \in Terminal /\ Idle(w)
     \/ (state[wtask[w]] \notin Terminal \/ Deaths) /\ Goto(w, "block") /\ UNCHANGED wtask
  /\ UNCHANGED <<board, wcopy, wfail, plan, seen, kills>>

\* fail_task's transition.
FailTransition(w) ==
  /\ wpc[w] = "block"
  /\ Transition(wtask[w], "Blocked")
  /\ Idle(w)
  /\ UNCHANGED <<wcopy, wfail, plan, seen, kills>>

\* The worker is killed, or a transition or a comment raises and the rest of the
\* handler is skipped.
Die(w) ==
  /\ Deaths /\ wpc[w] # "idle"
  /\ Idle(w)
  /\ wfail' = [wfail EXCEPT ![w] = None]
  /\ UNCHANGED <<board, wcopy, plan, seen, kills>>

Work(w) ==
  \/ \E t \in Tasks : Poll(w, t)
  \/ BlockThin(w) \/ LabelThin(w) \/ GateCloses(w) \/ Claim(w) \/ ClearReasons(w)
  \/ \E verify \in BOOLEAN : Succeed(w, verify)
  \/ LabelPr(w)
  \/ \E k \in FailureKinds : Fail(w, k)
  \/ LabelFailure(w) \/ EmptyResult(w) \/ DispatchFails(w) \/ FailFetch(w) \/ FailTransition(w)

----------------------------------------------------------------------------
(* board_unblock: the rules, on a listing.                                 *)

Act(rule, to) ==
  [rule |-> rule, to |-> to, add |-> {}, drop |-> {}, done |-> FALSE, blind |-> FALSE]
Unmark(a) == [a EXCEPT !.drop = Reasons]

IsTerminal(t) == t # None /\ state[t] \in Terminal
HasTag(t, x) == x \in labels[t].tags

Exhausted(t) ==
  \/ HasTag(t, "dead")
  \/ HasTag(t, "sigkill") /\ labels[t].retry >= 3
  \/ CodeCap > 0 /\ labels[t].code >= CodeCap

\* What Rules 8 and 8.5 have in common.
NeverRan(t) ==
  /\ t \notin Approved
  /\ labels[t].tags \cap {"thin", "signal", "exit", "exit0"} = {}
  /\ Blocker[t] = None

\* Mutant: Rule 8 does not wait for clean_blocked_min_minutes.
CleanBlockedAtOnce(t) ==
  /\ state[t] = "Blocked" /\ Kind[t] \in {"goal", "improve"}
  /\ NeverRan(t) /\ labels[t].tags \cap Reasons = {}

\* Rule 8, CLEAN_BLOCKED_RETRY.
CleanBlocked(t) ==
  /\ state[t] = "Blocked" /\ Kind[t] \in {"goal", "improve"}
  /\ NeverRan(t) /\ labels[t].tags \cap Reasons = {}
  /\ age[t] >= MinutesOld

\* Mutant: Rule 3 needs a resolved blocker, and a task without one stays Blocked.
ImproveUnblockNoStale(t) ==
  /\ state[t] = "Blocked" /\ Kind[t] \in {"goal", "improve"} /\ t \notin Approved
  /\ IsTerminal(Blocker[t])

\* Rule 3, IMPROVE_UNBLOCK.
ImproveUnblock(t) ==
  /\ state[t] = "Blocked" /\ Kind[t] \in {"goal", "improve"} /\ t \notin Approved
  /\ IsTerminal(Blocker[t]) \/ age[t] >= FourHours

\* Rule 4, SELF_MODIFY_REQUEUE.
SelfModifyRequeue(t, mem) ==
  /\ state[t] = "Blocked" /\ t \in Approved
  /\ labels[t].tags \cap {"policy", "sigkill"} = {} /\ mem
  /\ HasTag(t, "exit0") => HasTag(t, "signal")
  /\ Blocker[t] = None \/ IsTerminal(Blocker[t])

\* Rule 8.5, BACKEND_CAPACITY_PARK.
CapacityPark(t) ==
  /\ state[t] = "Blocked" /\ Kind[t] = "goal" /\ NeverRan(t)
  /\ HasTag(t, "capacity")
  /\ t \in Campaign \/ (t \in FollowOn /\ Parent[t] # None)
  /\ age[t] >= MinutesOld

\* Mutant: a stale Running task is left to its worker.
StaleRunningNever(t) == FALSE

\* Rule 6, STALE_RUNNING_REQUEUE.
StaleRunning(t) == state[t] = "Running" /\ age[t] >= TwoHours

\* Mutant: only Blocked tasks are reconciled.
MergedReconcileBlocked(t) == t \in merged /\ state[t] = "Blocked"

\* reconcile_merged_pr_tasks, for a task whose pull request can be looked up.
MergedReconcile(t) == t \in merged /\ state[t] \in {"In Review", "Blocked"}

\* Rule 2, INVESTIGATE_DEPRIORITISE: no worker takes investigate tasks.
InvestigateDeprioritise(t) == state[t] = "Ready" /\ Kind[t] = "investigate"

\* Rule 2.5, OPEN_PR_GATE_PARK.  prs: the task's repository has a blocking pull
\* request.
OpenPrGatePark(t, prs) == state[t] = "Ready" /\ Kind[t] = "goal" /\ prs

\* Rule 5, STALE_IN_REVIEW.
StaleInReview(t) == state[t] = "In Review" /\ ~HasTag(t, "pr") /\ age[t] >= FourHours

\* A goal task in Backlog that the executor may have again.
Promotable(t, mem, prs) ==
  /\ state[t] = "Backlog" /\ Kind[t] = "goal" /\ mem /\ ~prs
  /\ labels[t].tags \cap {"thin", "signal"} = {}

\* OPEN_PR_GATE_REQUEUE, the other half of Rule 2.5.
OpenPrGateRequeue(t, mem, prs) == Promotable(t, mem, prs) /\ HasTag(t, "gate")

\* Rule 7, GOAL_BACKLOG_PROMOTE.
GoalBacklogPromote(t, mem, prs) ==
  Promotable(t, mem, prs) /\ t \in FollowOn /\ IsTerminal(Parent[t])

\* Rule 9.5, SPEC_CAMPAIGN_BACKLOG_PROMOTE.
CampaignPromote(t, mem) == state[t] = "Backlog" /\ t \in Campaign /\ mem

\* run_once: reconcile_merged_pr_tasks, then _apply_rules in its order: the
\* action for t is that of the first rule that fits.  mem: enough memory to
\* dispatch; gate: a Gated repository has a blocking open pull request; missed:
\* the tasks whose lookup raised or, to the same effect, found nothing.
Decide(t, mem, gate, missed) ==
  LET prs == gate /\ t \in Gated IN
  IF      t \notin missed /\ MergedReconcile(t) THEN Act("PR_MERGED_RECONCILE", "Done")
  ELSE IF state[t] \notin Terminal /\ Exhausted(t) THEN Act("DEAD_REMEDIATION_CANCEL", "Cancelled")
  ELSE IF InvestigateDeprioritise(t)      THEN Act("INVESTIGATE_DEPRIORITISE", "Backlog")
  ELSE IF OpenPrGatePark(t, prs)          THEN [Act("OPEN_PR_GATE_PARK", "Backlog") EXCEPT !.add = {"gate"}]
  ELSE IF ImproveUnblock(t)               THEN Unmark(Act("IMPROVE_UNBLOCK", "Backlog"))
  ELSE IF SelfModifyRequeue(t, mem)       THEN Unmark(Act("SELF_MODIFY_REQUEUE", "Ready"))
  ELSE IF StaleInReview(t)                THEN Act("STALE_IN_REVIEW", "Backlog")
  ELSE IF StaleRunning(t)                 THEN Act("STALE_RUNNING_REQUEUE", "Ready")
  ELSE IF OpenPrGateRequeue(t, mem, prs)  THEN [Act("OPEN_PR_GATE_REQUEUE", "Ready") EXCEPT !.drop = {"gate"}]
  ELSE IF GoalBacklogPromote(t, mem, prs) THEN Unmark(Act("GOAL_BACKLOG_PROMOTE", "Ready"))
  ELSE IF CleanBlocked(t)                 THEN Unmark(Act("CLEAN_BLOCKED_RETRY", "Backlog"))
  ELSE IF CapacityPark(t)                 THEN Act("BACKEND_CAPACITY_PARK", "Backlog")
  ELSE IF CampaignPromote(t, mem)         THEN Unmark(Act("SPEC_CAMPAIGN_BACKLOG_PROMOTE", "Ready"))
  ELSE NoAct

Resting(u) == \A t \in Tasks : plan[u][t] = NoAct

Decision(t, mem, gate, missed) ==
  LET a == Decide(t, mem, gate, missed) IN
  [a EXCEPT !.blind = a # NoAct /\ t \in missed /\ MergedReconcile(t)]

\* run_once: the listing and all decisions.
ListBoard(u, mem, gate, missed) ==
  /\ Resting(u)
  /\ plan' = [plan EXCEPT ![u] = [t \in Tasks |-> Decision(t, mem, gate, missed)]]
  /\ seen' = [seen EXCEPT ![u] = labels]
  /\ UNCHANGED <<board, works, kills>>

\* apply_board_actions: the transition of one action ...
ApplyTransition(u, t) ==
  /\ \A s \in Tasks : plan[u][s].done => plan[u][s] = NoAct
  /\ ~plan[u][t].done
  /\ Transition(t, plan[u][t].to)
  /\ plan' = [plan EXCEPT ![u][t].done = TRUE]
  /\ UNCHANGED <<works, seen, kills>>

\* ... and its label update, computed from the labels in the listing.
ApplyLabels(u, t) ==
  LET a == plan[u][t]
      l == With(Without(seen[u][t], a.drop), a.add)
  IN
  /\ a # NoAct /\ a.done
  /\ IF l = seen[u][t] THEN UNCHANGED board ELSE SetLabels(t, l)
  /\ plan' = [plan EXCEPT ![u][t] = NoAct]
  /\ seen' = [seen EXCEPT ![u][t] = NoLabels]
  /\ UNCHANGED <<works, kills>>

\* A request of the action raises, and the loop goes on with the next one.
ApplyFails(u, t) ==
  /\ Deaths /\ plan[u][t] # NoAct
  /\ plan' = [plan EXCEPT ![u][t] = NoAct]
  /\ seen' = [seen EXCEPT ![u][t] = NoLabels]
  /\ UNCHANGED <<board, works, kills>>

Apply(u) == \E t \in Tasks : ApplyTransition(u, t) \/ ApplyLabels(u, t)
Misses == IF Deaths THEN SUBSET Tasks ELSE {{}}
List(u) == \E mem, gate \in BOOLEAN, missed \in Misses : ListBoard(u, mem, gate, missed)
\* A listing whose lookup for t is answered.
Sees(u, t) ==
  \E mem, gate \in BOOLEAN, missed \in Misses : t \notin missed /\ ListBoard(u, mem, gate, missed)

----------------------------------------------------------------------------
(* The operator, pull requests and time.                                   *)

Cancel(t) ==
  /\ "cancel" \in Operator /\ state[t] \notin Terminal
  /\ Transition(t, "Cancelled")
  /\ UNCHANGED <<works, plan, seen, kills>>

Promote(t) ==
  /\ "promote" \in Operator /\ state[t] = "Backlog"
  /\ Transition(t, "Ready")
  /\ UNCHANGED <<works, plan, seen, kills>>

MarkDead(t) ==
  /\ "dead" \in Operator /\ ~HasTag(t, "dead")
  /\ SetLabels(t, With(labels[t], {"dead"}))
  /\ UNCHANGED <<works, plan, seen, kills>>

MergePr(t) ==
  /\ HasTag(t, "pr") /\ t \notin merged
  /\ merged' = merged \cup {t}
  /\ UNCHANGED <<state, labels, age, works, plan, seen, kills>>

\* The requests of one handler follow each other within minutes, each with a
\* timeout of 30 seconds: no task ages between a worker's transition and the
\* label writes that follow it.
Reporting(t) ==
  \E w \in Workers : wtask[w] = t /\ wpc[w] \in {"thin", "claimed", "review", "label", "block"}

Tick(t) ==
  /\ age[t] < FourHours /\ ~Reporting(t)
  /\ age' = [age EXCEPT ![t] = @ + 1]
  /\ UNCHANGED <<state, labels, merged, works, plan, seen, kills>>

Next ==
  \/ \E w \in Workers : Work(w) \/ Die(w)
  \/ \E u \in Unblockers : List(u) \/ Apply(u) \/ \E t \in Tasks : ApplyFails(u, t)
  \/ \E t \in Tasks : Cancel(t) \/ Promote(t) \/ MarkDead(t) \/ MergePr(t) \/ Tick(t)

Spec == Init /\ [][Next]_vars

\* Workers and the maintenance scheduler go on, time passes, a pass of the
\* unblocker that is tried for ever is completed at last, and so is a lookup (there
\* is a GitHub token).
FairSpec ==
  /\ Spec
  /\ \A w \in Workers : WF_vars(Work(w))
  /\ \A u \in Unblockers :
       /\ WF_vars(List(u)) /\ WF_vars(Apply(u))
       /\ \A t \in Tasks : SF_vars(ApplyTransition(u, t)) /\ SF_vars(Sees(u, t))
  /\ \A t \in Tasks : WF_vars(Tick(t))

----------------------------------------------------------------------------
(* Properties.                                                             *)

Live(t) == \E w \in Workers : wtask[w] = t /\ wpc[w] \in {"claimed", "run"}

\* Rule 1 cancels a task at three SIGKILLs.  The unblocker may hold a requeue it
\* decided before the third, so one more execution can slip in, but no more: as
\* long as no worker dies between an outcome and its labels, no open-PR gate,
\* policy or capacity label makes the unblocker write back the label set of an
\* old listing, and no spec campaign promotes tasks whatever their labels say.
KillsBounded == \A t \in Tasks : kills[t] <= 4

\* A task blocked by the policy gate is not recycled by Rule 8: the label that
\* excludes it is written after the transition, and the minimum age is there so
\* that no listing is taken in between.
PolicyHeld ==
  [][\A u \in Unblockers, t \in Tasks :
       /\ ApplyTransition(u, t)
       /\ state[t] = "Blocked" /\ HasTag(t, "policy")
       => plan[u][t].rule # "CLEAN_BLOCKED_RETRY"]_vars

\* A task whose worker died does not stay in Running.
StrandedRecovers ==
  \A t \in Tasks :
    (state[t] = "Running" /\ ~Live(t)) ~> (state[t] # "Running" \/ Live(t))

\* A goal or improve task without self-modify approval does not stay Blocked.
BlockedMovesOn ==
  \A t \in Tasks :
    Kind[t] \in {"goal", "improve"} /\ t \notin Approved =>
      ((state[t] = "Blocked") ~> (state[t] # "Blocked"))

\* A task whose pull request is merged is closed, however often the lookup fails
\* and nothing is decided; a rule sends it round again only when it fits in a pass
\* whose lookup failed.  (A decision taken from an older listing may still win, so
\* the promise starts when none is pending.)
MergedSettles ==
  \A t \in Tasks :
    (t \in merged /\ state[t] \in {"In Review", "Blocked"} /\ \A u \in Unblockers : Resting(u))
      ~> (state[t] \in Terminal \/ \E u \in Unblockers : plan[u][t].blind)

Reports(w) ==
  \/ \E verify \in BOOLEAN : Succeed(w, verify)
  \/ \E k \in FailureKinds : Fail(w, k)
  \/ FailTransition(w)

\* "Don't overwrite a terminal state (Cancelled/Done) set externally while the
\* executor was running" (fail_task): no report of an outcome leaves one.
TerminalKept ==
  [][\A w \in Workers, t \in Tasks :
       Reports(w) /\ state[t] \in Terminal => state'[t] \in Terminal]_vars
============================================================================
