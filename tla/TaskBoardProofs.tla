--------------------------- MODULE TaskBoardProofs ---------------------------
(***************************************************************************)
(* The types of the board model, Rule 8's promise to leave a task alone    *)
(* that the policy gate holds, and the bound on the executions that follow *)
(* a third SIGKILL, for any set of tasks, any links between them and any   *)
(* bound on the counters.                                                  *)
(***************************************************************************)
EXTENDS TaskBoard, TLAPS

----------------------------------------------------------------------------
(* Types.                                                                  *)

Rules ==
  {"none", "PR_MERGED_RECONCILE", "DEAD_REMEDIATION_CANCEL", "INVESTIGATE_DEPRIORITISE", "OPEN_PR_GATE_PARK",
   "IMPROVE_UNBLOCK", "SELF_MODIFY_REQUEUE", "STALE_IN_REVIEW", "STALE_RUNNING_REQUEUE", "OPEN_PR_GATE_REQUEUE",
   "GOAL_BACKLOG_PROMOTE", "CLEAN_BLOCKED_RETRY", "BACKEND_CAPACITY_PARK", "SPEC_CAMPAIGN_BACKLOG_PROMOTE"}
Acts == [rule : Rules, to : States \cup {None}, add : SUBSET Tags, drop : SUBSET Tags, done : BOOLEAN, blind : BOOLEAN]

\* TypeOK says of a plan no more than that its transitions go to states; the
\* label writes need all of it, and a worker that is not idle has a task.
Typed ==
  /\ TypeOK
  /\ plan \in [Unblockers -> [Tasks -> Acts]]
  /\ \A u \in Unblockers, t \in Tasks : ~plan[u][t].done => plan[u][t].to \in States \ {"Blocked"}
  /\ \A w \in Workers : wpc[w] # "idle" => wtask[w] \in Tasks

LEMMA BumpTyped ==
  ASSUME NEW n \in 0..MaxCount
  PROVE  Bump(n) \in 0..MaxCount /\ n <= Bump(n)
BY BoundAssumption DEF Bump

LEMMA LabelSetTyped ==
  ASSUME NEW l \in LabelSet, NEW S \in SUBSET Tags
  PROVE  /\ With(l, S) \in LabelSet /\ Without(l, S) \in LabelSet
         /\ [l EXCEPT !.retry = Bump(@)] \in LabelSet /\ [l EXCEPT !.code = Bump(@)] \in LabelSet
<1>1. l.retry \in 0..MaxCount /\ l.code \in 0..MaxCount
  BY DEF LabelSet
<1>2. Bump(l.retry) \in 0..MaxCount /\ Bump(l.code) \in 0..MaxCount
  BY <1>1, BumpTyped
<1> QED
  BY <1>2 DEF LabelSet, With, Without

LEMMA FailureLabelsTyped ==
  ASSUME NEW l \in LabelSet, NEW k
  PROVE  FailureLabels(l, k) \in LabelSet
<1>1. /\ {"policy"} \in SUBSET Tags /\ {"capacity"} \in SUBSET Tags
      /\ {"exit", "signal", "sigkill"} \in SUBSET Tags /\ {"exit0"} \in SUBSET Tags
  BY DEF Tags
<1>2. /\ With(l, {"policy"}) \in LabelSet /\ With(l, {"capacity"}) \in LabelSet
      /\ With(l, {"exit0"}) \in LabelSet /\ [l EXCEPT !.code = Bump(@)] \in LabelSet
      /\ [With(l, {"exit", "signal", "sigkill"}) EXCEPT !.retry = Bump(@)] \in LabelSet
  BY <1>1, LabelSetTyped
<1> QED
  BY <1>2 DEF FailureLabels

\* What a listing decides: never a transition to Blocked; Rule 8 only where its
\* condition holds.
LEMMA DecideTyped ==
  ASSUME NEW t \in Tasks, NEW mem \in BOOLEAN, NEW gate \in BOOLEAN, NEW missed
  PROVE  /\ Decide(t, mem, gate, missed) \in Acts
         /\ ~Decide(t, mem, gate, missed).done => Decide(t, mem, gate, missed).to \in States \ {"Blocked"}
         /\ ~Decide(t, mem, gate, missed).done /\ Decide(t, mem, gate, missed).rule = "CLEAN_BLOCKED_RETRY" => CleanBlocked(t)
<1> DEFINE d == Decide(t, mem, gate, missed)
<1>1. NoAct \in Acts /\ NoAct.done
  BY DEF NoAct, Acts, Rules
<1>2. ASSUME NEW r \in Rules, NEW s \in States \ {"Blocked"}
      PROVE  /\ Act(r, s) \in Acts /\ Unmark(Act(r, s)) \in Acts
             /\ [Act(r, s) EXCEPT !.add = {"gate"}] \in Acts /\ [Act(r, s) EXCEPT !.drop = {"gate"}] \in Acts
             /\ Act(r, s).to = s /\ Unmark(Act(r, s)).to = s
             /\ [Act(r, s) EXCEPT !.add = {"gate"}].to = s /\ [Act(r, s) EXCEPT !.drop = {"gate"}].to = s
             /\ Act(r, s).rule = r /\ Unmark(Act(r, s)).rule = r
             /\ [Act(r, s) EXCEPT !.add = {"gate"}].rule = r /\ [Act(r, s) EXCEPT !.drop = {"gate"}].rule = r
  BY DEF Act, Unmark, Acts, Reasons, Tags
<1> DEFINE Good(e) == /\ e \in Acts
                      /\ ~e.done => e.to \in States \ {"Blocked"}
                      /\ ~e.done /\ e.rule = "CLEAN_BLOCKED_RETRY" => CleanBlocked(t)
<1>3. ASSUME NEW r \in Rules \ {"CLEAN_BLOCKED_RETRY"}, NEW s \in {"Done", "Cancelled", "Backlog", "Ready"}
      PROVE  /\ Good(Act(r, s)) /\ Good(Unmark(Act(r, s)))
             /\ Good([Act(r, s) EXCEPT !.add = {"gate"}]) /\ Good([Act(r, s) EXCEPT !.drop = {"gate"}])
  <2>1. s \in States \ {"Blocked"} /\ r \in Rules
    BY DEF States
  <2> QED
    BY <1>2, <2>1
<1>4. CleanBlocked(t) => Good(Unmark(Act("CLEAN_BLOCKED_RETRY", "Backlog")))
  <2>1. "Backlog" \in States \ {"Blocked"} /\ "CLEAN_BLOCKED_RETRY" \in Rules
    BY DEF States, Rules
  <2> QED
    BY <1>2, <2>1
<1>5. Good(NoAct)
  BY <1>1
<1>6. /\ Good(Act("PR_MERGED_RECONCILE", "Done")) /\ Good(Act("DEAD_REMEDIATION_CANCEL", "Cancelled"))
      /\ Good(Act("INVESTIGATE_DEPRIORITISE", "Backlog"))
      /\ Good([Act("OPEN_PR_GATE_PARK", "Backlog") EXCEPT !.add = {"gate"}])
      /\ Good(Unmark(Act("IMPROVE_UNBLOCK", "Backlog"))) /\ Good(Unmark(Act("SELF_MODIFY_REQUEUE", "Ready")))
      /\ Good(Act("STALE_IN_REVIEW", "Backlog")) /\ Good(Act("STALE_RUNNING_REQUEUE", "Ready"))
      /\ Good([Act("OPEN_PR_GATE_REQUEUE", "Ready") EXCEPT !.drop = {"gate"}])
      /\ Good(Unmark(Act("GOAL_BACKLOG_PROMOTE", "Ready"))) /\ Good(Act("BACKEND_CAPACITY_PARK", "Backlog"))
      /\ Good(Unmark(Act("SPEC_CAMPAIGN_BACKLOG_PROMOTE", "Ready")))
  <2> HIDE DEF Good
  <2> QED
    BY <1>3 DEF Rules
<1>7. Good(d)
  <2> HIDE DEF Good
  <2> QED
    BY <1>4, <1>5, <1>6 DEF Decide
<1> QED
  BY <1>7

\* The mark `blind` changes nothing of the decision it is put on.
LEMMA DecisionSame ==
  ASSUME NEW t \in Tasks, NEW mem \in BOOLEAN, NEW gate \in BOOLEAN, NEW missed
  PROVE  LET d == Decide(t, mem, gate, missed)
             e == Decision(t, mem, gate, missed)
         IN  /\ e \in Acts /\ e.rule = d.rule /\ e.to = d.to
             /\ e.add = d.add /\ e.drop = d.drop /\ e.done = d.done
<1> DEFINE d == Decide(t, mem, gate, missed)
           b == d # NoAct /\ t \in missed /\ MergedReconcile(t)
<1>1. d \in Acts
  BY DecideTyped
<1>2. Decision(t, mem, gate, missed) = [d EXCEPT !.blind = b]
  BY DEF Decision
<1> HIDE DEF d
<1>3. b \in BOOLEAN
  OBVIOUS
<1> QED
  BY <1>1, <1>2, <1>3 DEF Acts, d

LEMMA DecisionTyped ==
  ASSUME NEW t \in Tasks, NEW mem \in BOOLEAN, NEW gate \in BOOLEAN, NEW missed
  PROVE  LET e == Decision(t, mem, gate, missed)
         IN  /\ e \in Acts
             /\ ~e.done => e.to \in States \ {"Blocked"}
             /\ ~e.done /\ e.rule = "CLEAN_BLOCKED_RETRY" => CleanBlocked(t)
BY DecideTyped, DecisionSame

LEMMA TransitionTyped ==
  ASSUME Typed, NEW t, NEW s \in States, Transition(t, s)
  PROVE  /\ state' \in [Tasks -> States] /\ labels' = labels
         /\ age' \in [Tasks -> Ages] /\ merged' = merged
<1>1. 0 \in Ages
  BY DEF Ages
<1> QED
  BY <1>1 DEF Typed, TypeOK, Transition

LEMMA SetLabelsTyped ==
  ASSUME Typed, NEW t, NEW l \in LabelSet, SetLabels(t, l)
  PROVE  /\ state' = state /\ labels' \in [Tasks -> LabelSet]
         /\ age' \in [Tasks -> Ages] /\ merged' = merged
<1>1. 0 \in Ages
  BY DEF Ages
<1> QED
  BY <1>1 DEF Typed, TypeOK, SetLabels

LEMMA WriteCopyTyped ==
  ASSUME Typed, NEW w \in Workers, NEW l \in LabelSet, WriteCopy(w, l)
  PROVE  /\ state' = state /\ labels' \in [Tasks -> LabelSet]
         /\ age' \in [Tasks -> Ages] /\ merged' = merged
         /\ wcopy' \in [Workers -> LabelSet]
<1>1. wcopy' \in [Workers -> LabelSet]
  BY DEF Typed, TypeOK, WriteCopy
<1>2. CASE UNCHANGED board
  BY <1>1, <1>2 DEF board, Typed, TypeOK
<1>3. CASE SetLabels(wtask[w], l)
  BY <1>1, <1>3, SetLabelsTyped
<1> QED
  BY <1>2, <1>3 DEF WriteCopy

LEMMA TypedInit == Init => Typed
<1> SUFFICES ASSUME Init PROVE Typed
  OBVIOUS
<1>1. NoLabels \in LabelSet
  BY BoundAssumption DEF NoLabels, LabelSet
<1>2. NoAct \in Acts /\ NoAct.done /\ NoAct.to = None
  BY DEF NoAct, Acts, Rules
<1>3. /\ state \in [Tasks -> States] /\ labels \in [Tasks -> LabelSet] /\ age \in [Tasks -> Ages]
      /\ merged \in SUBSET Tasks /\ wcopy \in [Workers -> LabelSet]
      /\ seen \in [Unblockers -> [Tasks -> LabelSet]]
  BY <1>1 DEF Init, States, Ages
<1>4. /\ wpc \in [Workers -> WorkerPlaces] /\ wtask \in [Workers -> Tasks \cup {None}]
      /\ wfail \in [Workers -> FailureKinds \cup {None}]
      /\ \A w \in Workers : wpc[w] = "idle"
  BY DEF Init, WorkerPlaces
<1>5. kills \in [Tasks -> 0..MaxCount]
  BY BoundAssumption DEF Init
<1>6. plan \in [Unblockers -> [Tasks -> Acts]] /\ \A u \in Unblockers, t \in Tasks : plan[u][t] = NoAct
  BY <1>2 DEF Init
<1> QED
  BY <1>2, <1>3, <1>4, <1>5, <1>6 DEF Typed, TypeOK

\* The places a worker goes to, and the task it has there.
LEMMA PlaceTyped ==
  ASSUME Typed, NEW w \in Workers, wpc[w] # "idle",
         \/ Idle(w)
         \/ \E p \in WorkerPlaces : Goto(w, p) /\ UNCHANGED wtask
  PROVE  /\ wpc' \in [Workers -> WorkerPlaces] /\ wtask' \in [Workers -> Tasks \cup {None}]
         /\ \A v \in Workers : wpc'[v] # "idle" => wtask'[v] \in Tasks
BY DEF Typed, TypeOK, Idle, Goto, WorkerPlaces

LEMMA WorkTyped ==
  ASSUME Typed, NEW w \in Workers, Work(w)
  PROVE  Typed'
<1> USE DEF Typed, TypeOK
<1>0. /\ {"Blocked", "Running", "In Review", "Done"} \subseteq States
      /\ {"claim", "thin", "claimed", "run", "review", "label", "fail", "block"} \subseteq WorkerPlaces
      /\ wcopy[w] \in LabelSet
  BY DEF States, WorkerPlaces
<1>1. ASSUME NEW t \in Tasks, Poll(w, t) PROVE Typed'
  <2>1. /\ UNCHANGED <<state, labels, age, merged, wfail, plan, seen, kills>>
        /\ wcopy' \in [Workers -> LabelSet]
    BY <1>1 DEF Poll, board
  <2>2. /\ wpc' \in [Workers -> WorkerPlaces] /\ wtask' \in [Workers -> Tasks \cup {None}]
        /\ \A v \in Workers : wpc'[v] # "idle" => wtask'[v] \in Tasks
    BY <1>1, <1>0 DEF Poll, Goto
  <2> QED
    BY <2>1, <2>2
<1>2. CASE \/ BlockThin(w) \/ Claim(w) \/ FailTransition(w)
           \/ \E verify \in BOOLEAN : Succeed(w, verify)
  <2>1. /\ UNCHANGED <<wcopy, wfail, plan, seen, kills>>
        /\ \E s \in States : Transition(wtask[w], s)
    BY <1>2, <1>0 DEF BlockThin, Claim, FailTransition, Succeed
  <2>2. wpc[w] # "idle" /\ (Idle(w) \/ \E p \in WorkerPlaces : Goto(w, p) /\ UNCHANGED wtask)
    BY <1>2, <1>0 DEF BlockThin, Claim, FailTransition, Succeed
  <2> QED
    BY <2>1, <2>2, PlaceTyped, TransitionTyped
<1>3. ASSUME NEW k \in FailureKinds, Fail(w, k) PROVE Typed'
  <2>1. UNCHANGED <<wcopy, plan, seen>> /\ Transition(wtask[w], "Blocked")
    BY <1>3 DEF Fail
  <2>2. wpc[w] # "idle" /\ Goto(w, "label") /\ UNCHANGED wtask
    BY <1>3 DEF Fail
  <2>3. wfail' \in [Workers -> FailureKinds \cup {None}]
    BY <1>3 DEF Fail
  <2>4. kills' \in [Tasks -> 0..MaxCount]
    BY <1>3, BumpTyped DEF Fail
  <2> QED
    BY <2>1, <2>2, <2>3, <2>4, <1>0, PlaceTyped, TransitionTyped
<1>4. CASE LabelThin(w) \/ GateCloses(w) \/ ClearReasons(w) \/ LabelPr(w)
  <2>1. UNCHANGED <<wfail, plan, seen, kills>>
    BY <1>4 DEF LabelThin, GateCloses, ClearReasons, LabelPr
  <2>2. wpc[w] # "idle" /\ (Idle(w) \/ \E p \in WorkerPlaces : Goto(w, p) /\ UNCHANGED wtask)
    BY <1>4, <1>0 DEF LabelThin, GateCloses, ClearReasons, LabelPr
  <2>3. /\ With(wcopy[w], {"thin"}) \in LabelSet /\ With(wcopy[w], {"gate"}) \in LabelSet
        /\ With(wcopy[w], {"pr"}) \in LabelSet /\ Without(wcopy[w], Reasons) \in LabelSet
    BY <1>0, LabelSetTyped DEF Tags, Reasons
  <2>4. (\E l \in LabelSet : WriteCopy(w, l)) \/ UNCHANGED <<board, wcopy>>
    BY <1>4, <2>3 DEF LabelThin, GateCloses, ClearReasons, LabelPr
  <2>5. /\ state' = state /\ labels' \in [Tasks -> LabelSet]
        /\ age' \in [Tasks -> Ages] /\ merged' = merged /\ wcopy' \in [Workers -> LabelSet]
    BY <2>4, WriteCopyTyped DEF board
  <2> QED
    BY <2>1, <2>2, <2>5, PlaceTyped
<1>5. CASE LabelFailure(w)
  <2>1. UNCHANGED <<plan, seen, kills>> /\ wpc[w] # "idle" /\ Idle(w)
    BY <1>5 DEF LabelFailure
  <2>2. Without(wcopy[w], Reasons) \in LabelSet
    BY <1>0, LabelSetTyped DEF Tags, Reasons
  <2>3. FailureLabels(Without(wcopy[w], Reasons), wfail[w]) \in LabelSet
    BY <2>2, FailureLabelsTyped
  <2>4. WriteCopy(w, FailureLabels(Without(wcopy[w], Reasons), wfail[w]))
    BY <1>5 DEF LabelFailure
  <2>5. wfail' \in [Workers -> FailureKinds \cup {None}]
    BY <1>5 DEF LabelFailure
  <2> QED
    BY <2>1, <2>3, <2>4, <2>5, PlaceTyped, WriteCopyTyped
<1>6. CASE EmptyResult(w)
  <2>1. UNCHANGED <<wfail, plan, seen>> /\ wpc[w] # "idle" /\ Goto(w, "fail") /\ UNCHANGED wtask
    BY <1>6 DEF EmptyResult
  <2>2. With(wcopy[w], {"exit", "signal", "sigkill"}) \in LabelSet
    BY <1>0, LabelSetTyped DEF Tags
  <2>3. [With(wcopy[w], {"exit", "signal", "sigkill"}) EXCEPT !.retry = Bump(@)] \in LabelSet
    BY <2>2, LabelSetTyped
  <2>4. WriteCopy(w, [With(wcopy[w], {"exit", "signal", "sigkill"}) EXCEPT !.retry = Bump(@)])
    BY <1>6 DEF EmptyResult
  <2>5. kills' \in [Tasks -> 0..MaxCount]
    BY <1>6, BumpTyped DEF EmptyResult
  <2> QED
    BY <2>1, <2>3, <2>4, <2>5, <1>0, PlaceTyped, WriteCopyTyped
<1>7. CASE DispatchFails(w) \/ FailFetch(w)
  <2>1. UNCHANGED <<state, labels, age, merged, wcopy, wfail, plan, seen, kills>>
    BY <1>7 DEF DispatchFails, FailFetch, board
  <2>2. wpc[w] # "idle" /\ (Idle(w) \/ \E p \in WorkerPlaces : Goto(w, p) /\ UNCHANGED wtask)
    BY <1>7, <1>0 DEF DispatchFails, FailFetch
  <2> QED
    BY <2>1, <2>2, PlaceTyped
<1> QED
  BY <1>1, <1>2, <1>3, <1>4, <1>5, <1>6, <1>7 DEF Work

LEMMA TypedStep ==
  ASSUME Typed, [Next]_vars
  PROVE  Typed'
<1>1. ASSUME NEW w \in Workers, Work(w) PROVE Typed'
  BY <1>1, WorkTyped
<1> USE DEF Typed, TypeOK
<1>2. ASSUME NEW w \in Workers, Die(w) PROVE Typed'
  <2>1. UNCHANGED <<state, labels, age, merged, wcopy, plan, seen, kills>>
    BY <1>2 DEF Die, board
  <2>2. wfail' \in [Workers -> FailureKinds \cup {None}] /\ wpc[w] # "idle" /\ Idle(w)
    BY <1>2 DEF Die
  <2> QED
    BY <2>1, <2>2, PlaceTyped
<1>3. ASSUME NEW u \in Unblockers, NEW mem \in BOOLEAN, NEW gate \in BOOLEAN, NEW missed, ListBoard(u, mem, gate, missed)
      PROVE  Typed'
  <2>1. UNCHANGED <<state, labels, age, merged, wpc, wtask, wcopy, wfail, kills>>
    BY <1>3 DEF ListBoard, board, works
  <2>2. seen' \in [Unblockers -> [Tasks -> LabelSet]]
    BY <1>3 DEF ListBoard
  <2>3. plan' \in [Unblockers -> [Tasks -> Acts]]
    BY <1>3, DecisionTyped DEF ListBoard
  <2>4. \A v \in Unblockers, t \in Tasks :
           plan'[v][t] = plan[v][t] \/ plan'[v][t] = Decision(t, mem, gate, missed)
    BY <1>3 DEF ListBoard
  <2>5. \A v \in Unblockers, t \in Tasks : ~plan'[v][t].done => plan'[v][t].to \in States \ {"Blocked"}
    BY <2>4, DecisionTyped
  <2>6. \A v \in Unblockers, t \in Tasks : plan'[v][t].to \in States \cup {None}
    BY <2>3 DEF Acts
  <2> QED
    BY <2>1, <2>2, <2>3, <2>5, <2>6
<1>4. ASSUME NEW u \in Unblockers, NEW t \in Tasks, ApplyTransition(u, t) PROVE Typed'
  <2>1. UNCHANGED <<wpc, wtask, wcopy, wfail, seen, kills>> /\ Transition(t, plan[u][t].to)
    BY <1>4 DEF ApplyTransition, works
  <2>2. plan[u][t] \in Acts /\ plan[u][t].to \in States
    BY <1>4 DEF ApplyTransition
  <2>3. [plan[u][t] EXCEPT !.done = TRUE] \in Acts /\ [plan[u][t] EXCEPT !.done = TRUE].done
    BY <2>2 DEF Acts
  <2>4. plan' = [plan EXCEPT ![u] = [plan[u] EXCEPT ![t] = [plan[u][t] EXCEPT !.done = TRUE]]]
    BY <1>4 DEF ApplyTransition
  <2>5. plan' \in [Unblockers -> [Tasks -> Acts]]
    BY <2>3, <2>4
  <2>6. \A v \in Unblockers, s \in Tasks : plan'[v][s] = plan[v][s] \/ plan'[v][s].done
    BY <2>3, <2>4
  <2>7. \A v \in Unblockers, s \in Tasks : plan'[v][s].to \in States \cup {None}
    BY <2>5 DEF Acts
  <2> QED
    BY <2>1, <2>2, <2>5, <2>6, <2>7, TransitionTyped
<1>5. ASSUME NEW u \in Unblockers, NEW t \in Tasks, ApplyLabels(u, t) \/ ApplyFails(u, t) PROVE Typed'
  <2> DEFINE l == With(Without(seen[u][t], plan[u][t].drop), plan[u][t].add)
  <2>1. /\ UNCHANGED <<wpc, wtask, wcopy, wfail, kills>>
        /\ plan' = [plan EXCEPT ![u][t] = NoAct]
        /\ seen' = [seen EXCEPT ![u][t] = NoLabels]
    BY <1>5 DEF ApplyLabels, ApplyFails, works
  <2>2. plan[u][t].drop \in SUBSET Tags /\ plan[u][t].add \in SUBSET Tags /\ seen[u][t] \in LabelSet
    BY DEF Acts
  <2>3. l \in LabelSet
    BY <2>2, LabelSetTyped
  <2>4. UNCHANGED board \/ SetLabels(t, l)
    BY <1>5 DEF ApplyLabels, ApplyFails
  <2>5. /\ state' = state /\ labels' \in [Tasks -> LabelSet]
        /\ age' \in [Tasks -> Ages] /\ merged' = merged
    BY <2>3, <2>4, SetLabelsTyped DEF board
  <2>6. NoAct \in Acts /\ NoAct.done /\ NoLabels \in LabelSet
    BY BoundAssumption DEF NoAct, Acts, Rules, NoLabels, LabelSet
  <2>7. plan' \in [Unblockers -> [Tasks -> Acts]] /\ seen' \in [Unblockers -> [Tasks -> LabelSet]]
    BY <2>1, <2>6
  <2>8. \A v \in Unblockers, s \in Tasks : plan'[v][s] = plan[v][s] \/ plan'[v][s].done
    BY <2>1, <2>6
  <2>9. \A v \in Unblockers, s \in Tasks : plan'[v][s].to \in States \cup {None}
    BY <2>7 DEF Acts
  <2> QED
    BY <2>1, <2>5, <2>7, <2>8, <2>9
<1>6. ASSUME NEW t \in Tasks, Cancel(t) \/ Promote(t) PROVE Typed'
  <2>1. UNCHANGED <<wpc, wtask, wcopy, wfail, plan, seen, kills>> /\ \E s \in States : Transition(t, s)
    BY <1>6 DEF Cancel, Promote, works, States
  <2> QED
    BY <2>1, TransitionTyped
<1>7. ASSUME NEW t \in Tasks, MarkDead(t) PROVE Typed'
  <2>1. UNCHANGED <<wpc, wtask, wcopy, wfail, plan, seen, kills>> /\ SetLabels(t, With(labels[t], {"dead"}))
    BY <1>7 DEF MarkDead, works
  <2>2. With(labels[t], {"dead"}) \in LabelSet
    BY LabelSetTyped DEF Tags
  <2> QED
    BY <2>1, <2>2, SetLabelsTyped
<1>8. ASSUME NEW t \in Tasks, MergePr(t) \/ Tick(t) PROVE Typed'
  <2>1. UNCHANGED <<state, labels, wpc, wtask, wcopy, wfail, plan, seen, kills>>
    BY <1>8 DEF MergePr, Tick, works
  <2>2. merged' \in SUBSET Tasks
    BY <1>8 DEF MergePr, Tick
  <2>3. age[t] < FourHours => age[t] + 1 \in Ages
    <3>1. age[t] \in Ages
      OBVIOUS
    <3> HIDE DEF Typed, TypeOK
    <3> QED
      BY <3>1 DEF Ages, FourHours
  <2>4. age' \in [Tasks -> Ages]
    BY <1>8, <2>3 DEF MergePr, Tick
  <2> QED
    BY <2>1, <2>2, <2>4
<1>9. CASE UNCHANGED vars
  BY <1>9 DEF vars, board, works
<1> QED
  BY <1>1, <1>2, <1>3, <1>4, <1>5, <1>6, <1>7, <1>8, <1>9 DEF Next, List, Apply

\* Every write to the board, every copy of a label set and every decision the
\* unblocker holds stays within its type, whatever the processes do.
THEOREM BoardTyped == Spec => []TypeOK
<1>1. Init => Typed
  BY TypedInit
<1>2. Typed /\ [Next]_vars => Typed'
  BY TypedStep
<1>3. Typed => TypeOK
  BY DEF Typed
<1> QED
  BY <1>1, <1>2, <1>3, PTL DEF Spec

----------------------------------------------------------------------------
(* One worker of each role and one maintenance scheduler, the way they are *)
(* started: then a task has one worker at a time.                          *)

OneEach ==
  /\ \A w, v \in Workers : Role[w] = Role[v] => w = v
  /\ \A u, v \in Unblockers : u = v

Busy(w, t) == wpc[w] # "idle" /\ wtask[w] = t
Matched == \A w \in Workers : wpc[w] # "idle" => Kind[wtask[w]] = Role[w]

\* A step of worker w leaves the other workers, the unblockers and every task
\* but its own alone.
Elsewhere(w) ==
  /\ \A v \in Workers \ {w} :
       wpc'[v] = wpc[v] /\ wtask'[v] = wtask[v] /\ wcopy'[v] = wcopy[v] /\ wfail'[v] = wfail[v]
  /\ \A t \in Tasks \ {wtask[w]} :
       state'[t] = state[t] /\ labels'[t] = labels[t] /\ age'[t] = age[t] /\ kills'[t] = kills[t]
  /\ plan' = plan /\ seen' = seen /\ merged' = merged

LEMMA WriteCopyElsewhere ==
  ASSUME Typed, NEW w \in Workers, NEW l, WriteCopy(w, l)
  PROVE  /\ \A v \in Workers \ {w} : wcopy'[v] = wcopy[v]
         /\ \A t \in Tasks \ {wtask[w]} : labels'[t] = labels[t] /\ age'[t] = age[t]
         /\ state' = state /\ merged' = merged
         /\ age'[wtask[w]] = 0 \/ age' = age
BY DEF Typed, TypeOK, WriteCopy, SetLabels, board

LEMMA TransitionElsewhere ==
  ASSUME Typed, NEW t \in Tasks, NEW s, Transition(t, s)
  PROVE  /\ state'[t] = s /\ age'[t] = 0
         /\ \A r \in Tasks \ {t} : state'[r] = state[r] /\ age'[r] = age[r]
         /\ labels' = labels /\ merged' = merged
BY DEF Typed, TypeOK, Transition

LEMMA WorkElsewhere ==
  ASSUME Typed, NEW w \in Workers, Work(w) \/ Die(w)
  PROVE  Elsewhere(w)
<1> DEFINE Others == \A v \in Workers \ {w} :
                        wpc'[v] = wpc[v] /\ wtask'[v] = wtask[v] /\ wfail'[v] = wfail[v]
           Killed == \A t \in Tasks \ {wtask[w]} : kills'[t] = kills[t]
<1>1. Others /\ Killed /\ plan' = plan /\ seen' = seen
  <2>1. CASE \/ \E t \in Tasks : Poll(w, t)
             \/ BlockThin(w) \/ LabelThin(w) \/ GateCloses(w) \/ Claim(w) \/ ClearReasons(w)
    BY <2>1 DEF Typed, TypeOK, Poll, BlockThin, LabelThin, GateCloses, Claim, ClearReasons, Goto, Idle
  <2>2. CASE LabelPr(w) \/ \E verify \in BOOLEAN : Succeed(w, verify)
    BY <2>2 DEF Typed, TypeOK, Succeed, LabelPr, Goto, Idle
  <2>3. CASE LabelFailure(w) \/ \E k \in FailureKinds : Fail(w, k)
    BY <2>3 DEF Typed, TypeOK, Fail, LabelFailure, Goto, Idle
  <2>4. CASE EmptyResult(w) \/ DispatchFails(w) \/ FailFetch(w) \/ FailTransition(w) \/ Die(w)
    BY <2>4 DEF Typed, TypeOK, EmptyResult, DispatchFails, FailFetch, FailTransition, Die, Goto, Idle
  <2> QED
    BY <2>1, <2>2, <2>3, <2>4 DEF Work
<1>2. CASE \/ BlockThin(w) \/ Claim(w) \/ FailTransition(w)
           \/ (\E verify \in BOOLEAN : Succeed(w, verify)) \/ \E k \in FailureKinds : Fail(w, k)
  <2>1. wtask[w] \in Tasks /\ wcopy' = wcopy /\ \E s : Transition(wtask[w], s)
    BY <1>2 DEF Typed, BlockThin, Claim, FailTransition, Succeed, Fail
  <2> QED
    BY <1>1, <2>1, TransitionElsewhere DEF Elsewhere
<1>3. CASE LabelThin(w) \/ GateCloses(w) \/ ClearReasons(w) \/ LabelPr(w) \/ LabelFailure(w) \/ EmptyResult(w)
  <2>1. (\E l : WriteCopy(w, l)) \/ UNCHANGED <<board, wcopy>>
    BY <1>3 DEF LabelThin, GateCloses, ClearReasons, LabelPr, LabelFailure, EmptyResult
  <2>2. CASE \E l : WriteCopy(w, l)
    BY <1>1, <2>2, WriteCopyElsewhere DEF Elsewhere
  <2>3. CASE UNCHANGED <<board, wcopy>>
    BY <1>1, <2>3 DEF Elsewhere, board
  <2> QED
    BY <2>1, <2>2, <2>3
<1>4. CASE DispatchFails(w) \/ FailFetch(w) \/ Die(w) \/ \E t \in Tasks : Poll(w, t)
  <2>1. UNCHANGED board /\ \A v \in Workers \ {w} : wcopy'[v] = wcopy[v]
    BY <1>4 DEF Typed, TypeOK, DispatchFails, FailFetch, Die, Poll
  <2> QED
    BY <1>1, <2>1 DEF Elsewhere, board
<1> QED
  BY <1>2, <1>3, <1>4 DEF Work

\* A worker takes a task by polling and keeps it until it is idle.
LEMMA WorkKeepsTask ==
  ASSUME Typed, NEW w \in Workers, Work(w) \/ Die(w), ~\E t \in Tasks : Poll(w, t)
  PROVE  wpc[w] # "idle" /\ (wpc'[w] # "idle" => wtask'[w] = wtask[w])
BY DEF Typed, TypeOK, Work, BlockThin, LabelThin, GateCloses, Claim, ClearReasons,
  Succeed, LabelPr, Fail, LabelFailure, EmptyResult, DispatchFails, FailFetch, FailTransition, Die, Goto, Idle

\* A worker's task has that worker's kind.
LEMMA MatchedStep ==
  ASSUME Typed, Matched, [Next]_vars
  PROVE  Matched'
<1>1. ASSUME NEW w \in Workers, Work(w) \/ Die(w) PROVE Matched'
  <2>1. Elsewhere(w)
    BY <1>1, WorkElsewhere
  <2>2. wpc'[w] # "idle" => Kind[wtask'[w]] = Role[w]
    <3>1. ASSUME NEW t \in Tasks, Poll(w, t) PROVE Kind[wtask'[w]] = Role[w]
      BY <3>1 DEF Poll, Typed, TypeOK
    <3>2. CASE ~\E t \in Tasks : Poll(w, t)
      BY <1>1, <3>2, WorkKeepsTask DEF Matched
    <3> QED
      BY <3>1, <3>2
  <2> QED
    BY <2>1, <2>2 DEF Elsewhere, Matched
<1>2. CASE UNCHANGED works
  BY <1>2 DEF works, Matched
<1> QED
  BY <1>1, <1>2 DEF Next, List, Apply, ListBoard, ApplyTransition, ApplyLabels, ApplyFails,
    Cancel, Promote, MarkDead, MergePr, Tick, vars

LEMMA Sole ==
  ASSUME OneEach, Matched, NEW w \in Workers, NEW v \in Workers, NEW t, Busy(w, t), Busy(v, t)
  PROVE  w = v
BY DEF OneEach, Matched, Busy

----------------------------------------------------------------------------
(* Rule 8 and the policy gate.                                             *)

\* A task that is Blocked while a worker has it was blocked a moment ago, by
\* that worker, and is too young for Rule 8.
Apart ==
  \A w \in Workers, t \in Tasks :
    Busy(w, t) => IF wpc[w] \in {"thin", "label"} THEN age[t] = 0 ELSE state[t] # "Blocked"

\* While the unblocker holds a Rule 8 action nobody works on the task, and nobody
\* gives it a reason to be held.
Held ==
  \A u \in Unblockers, t \in Tasks :
    ~plan[u][t].done /\ plan[u][t].rule = "CLEAN_BLOCKED_RETRY" =>
      /\ state[t] \in {"Blocked", "Cancelled"} /\ labels[t].tags \cap Reasons = {}
      /\ \A w \in Workers : ~Busy(w, t)

Orderly == Typed /\ Matched /\ Apart /\ Held

\* A worker leaves its own task young after a transition to Blocked, and does not
\* block it elsewhere.
LEMMA WorkApart ==
  ASSUME Typed, Apart, NEW w \in Workers, Work(w) \/ Die(w), wpc'[w] # "idle"
  PROVE  IF wpc'[w] \in {"thin", "label"} THEN age'[wtask'[w]] = 0 ELSE state'[wtask'[w]] # "Blocked"
<1>1. CASE \E t \in Tasks : Poll(w, t)
  BY <1>1 DEF Typed, TypeOK, Poll, Goto, board
<1>2. CASE BlockThin(w) \/ \E k \in FailureKinds : Fail(w, k)
  <2>1. wtask[w] \in Tasks /\ wtask' = wtask /\ wpc'[w] \in {"thin", "label"} /\ Transition(wtask[w], "Blocked")
    BY <1>2 DEF Typed, TypeOK, BlockThin, Fail, Goto
  <2> QED
    BY <2>1, TransitionElsewhere
<1>3. CASE Claim(w) \/ \E verify \in BOOLEAN : Succeed(w, verify)
  <2>1. /\ wtask[w] \in Tasks /\ wtask'[w] = wtask[w] /\ wpc'[w] \in {"claimed", "review"}
        /\ \E s \in {"Running", "In Review", "Done"} : Transition(wtask[w], s)
    BY <1>3 DEF Typed, TypeOK, Claim, Succeed, Goto, Idle
  <2> QED
    BY <2>1, TransitionElsewhere
<1>4. CASE ClearReasons(w) \/ EmptyResult(w) \/ DispatchFails(w) \/ FailFetch(w)
  <2>1. /\ wpc[w] \in {"claimed", "run", "fail"} /\ wtask[w] \in Tasks /\ wtask'[w] = wtask[w]
        /\ wpc'[w] \in {"run", "fail", "block"}
    BY <1>4 DEF Typed, TypeOK, ClearReasons, EmptyResult, DispatchFails, FailFetch, Goto, Idle
  <2>2. state' = state
    BY <1>4 DEF ClearReasons, EmptyResult, DispatchFails, FailFetch, WriteCopy, SetLabels, board
  <2> QED
    BY <2>1, <2>2 DEF Apart, Busy
<1>5. CASE LabelThin(w) \/ GateCloses(w) \/ LabelPr(w) \/ LabelFailure(w) \/ FailTransition(w) \/ Die(w)
  BY <1>5 DEF Typed, TypeOK, LabelThin, GateCloses, LabelPr, LabelFailure, FailTransition, Die, Goto, Idle
<1> QED
  BY <1>1, <1>2, <1>3, <1>4, <1>5 DEF Work

LEMMA OrderlyInit == Init => Orderly
<1> SUFFICES ASSUME Init PROVE Orderly
  OBVIOUS
<1>1. Typed
  BY TypedInit
<1>2. Matched /\ Apart
  BY DEF Init, Matched, Apart, Busy
<1>3. Held
  BY DEF Init, Held, NoAct
<1> QED
  BY <1>1, <1>2, <1>3 DEF Orderly

LEMMA OrderlyWork ==
  ASSUME OneEach, Orderly, NEW w \in Workers, Work(w) \/ Die(w)
  PROVE  Apart' /\ Held'
<1> USE DEF Orderly
<1>1. Elsewhere(w) /\ (wpc[w] # "idle" => wtask[w] \in Tasks) /\ (wpc'[w] # "idle" => wtask'[w] \in Tasks)
  BY WorkElsewhere, WorkTyped, TypedStep DEF Next, Typed
<1>2. wpc[w] # "idle" \/ \E t \in Tasks : Poll(w, t)
  BY WorkKeepsTask
<1>3. Apart'
  <2> SUFFICES ASSUME NEW v \in Workers, NEW t \in Tasks, Busy(v, t)'
               PROVE  IF wpc'[v] \in {"thin", "label"} THEN age'[t] = 0 ELSE state'[t] # "Blocked"
    BY DEF Apart
  <2>1. CASE v = w
    BY <2>1, WorkApart DEF Busy
  <2>2. CASE v # w
    <3>1. Busy(v, t)
      BY <2>2, <1>1 DEF Elsewhere, Busy
    <3>2. t # wtask[w] \/ \E s \in Tasks : Poll(w, s)
      BY <3>1, <2>2, <1>2, Sole DEF Busy
    <3>3. state'[t] = state[t] /\ age'[t] = age[t]
      BY <3>2, <1>1 DEF Elsewhere, Poll, board
    <3> QED
      BY <3>1, <3>3, <2>2, <1>1 DEF Apart, Elsewhere
  <2> QED
    BY <2>1, <2>2
<1>4. Held'
  <2> SUFFICES ASSUME NEW u \in Unblockers, NEW t \in Tasks,
                      ~plan'[u][t].done, plan'[u][t].rule = "CLEAN_BLOCKED_RETRY"
               PROVE  /\ state'[t] \in {"Blocked", "Cancelled"} /\ labels'[t].tags \cap Reasons = {}
                      /\ \A v \in Workers : ~Busy(v, t)'
    BY DEF Held
  <2>1. /\ state[t] \in {"Blocked", "Cancelled"} /\ labels[t].tags \cap Reasons = {}
        /\ \A v \in Workers : ~Busy(v, t)
    BY <1>1 DEF Held, Elsewhere
  <2>2. t # wtask[w] \/ \E s \in Tasks : Poll(w, s)
    BY <2>1, <1>2 DEF Busy
  <2>3. state'[t] = state[t] /\ labels'[t] = labels[t]
    BY <2>2, <1>1 DEF Elsewhere, Poll, board
  <2>4. \A v \in Workers \ {w} : ~Busy(v, t)'
    BY <2>1, <1>1 DEF Elsewhere, Busy
  <2>5. ~Busy(w, t)'
    <3>1. ASSUME NEW s \in Tasks, Poll(w, s) PROVE wtask'[w] # t
      BY <3>1, <2>1 DEF Poll, Typed, TypeOK
    <3>2. CASE ~\E s \in Tasks : Poll(w, s)
      BY <3>2, <2>1, WorkKeepsTask DEF Busy
    <3> QED
      BY <3>1, <3>2 DEF Busy
  <2> QED
    BY <2>1, <2>3, <2>4, <2>5
<1> QED
  BY <1>3, <1>4

\* The unblocker, the operator, the pull requests and time do not touch the
\* workers.
LEMMA OrderlyBoard ==
  ASSUME OneEach, Orderly, UNCHANGED works,
         \/ \E u \in Unblockers : List(u) \/ Apply(u) \/ \E t \in Tasks : ApplyFails(u, t)
         \/ \E t \in Tasks : Cancel(t) \/ Promote(t) \/ MarkDead(t) \/ MergePr(t) \/ Tick(t)
  PROVE  Apart' /\ Held'
<1> USE DEF Orderly
<1>0. \A w \in Workers, t \in Tasks : (Busy(w, t)' <=> Busy(w, t)) /\ wpc' = wpc
  BY DEF works, Busy
<1>1. ASSUME NEW u \in Unblockers, NEW mem \in BOOLEAN, NEW gate \in BOOLEAN, NEW missed, ListBoard(u, mem, gate, missed)
      PROVE  Apart' /\ Held'
  <2>1. UNCHANGED <<state, labels, age>> /\ plan' = [plan EXCEPT ![u] = [t \in Tasks |-> Decision(t, mem, gate, missed)]]
    BY <1>1 DEF ListBoard, board
  <2>2. Apart'
    BY <2>1, <1>0 DEF Apart
  <2>3. \A v \in Unblockers, t \in Tasks : plan'[v][t] = Decision(t, mem, gate, missed)
    BY <2>1 DEF OneEach, Typed
  <2>4. ASSUME NEW t \in Tasks, CleanBlocked(t)
        PROVE  state[t] = "Blocked" /\ labels[t].tags \cap Reasons = {} /\ \A w \in Workers : ~Busy(w, t)
    <3>1. age[t] # 0 /\ state[t] = "Blocked" /\ labels[t].tags \cap Reasons = {}
      BY <2>4 DEF CleanBlocked, MinutesOld, Typed, TypeOK, Ages
    <3> QED
      BY <3>1 DEF Apart
  <2>5. Held'
    BY <2>1, <2>3, <2>4, <1>0, DecisionTyped DEF Held
  <2> QED
    BY <2>2, <2>5
<1>2. ASSUME NEW u \in Unblockers, NEW t \in Tasks, ApplyTransition(u, t) PROVE Apart' /\ Held'
  <2>1. /\ ~plan[u][t].done /\ plan[u][t].to \in States \ {"Blocked"} /\ Transition(t, plan[u][t].to)
        /\ plan' = [plan EXCEPT ![u] = [plan[u] EXCEPT ![t] = [plan[u][t] EXCEPT !.done = TRUE]]]
    BY <1>2 DEF ApplyTransition, Typed
  <2>2. /\ state'[t] # "Blocked" /\ age'[t] = 0 /\ labels' = labels
        /\ \A r \in Tasks \ {t} : state'[r] = state[r] /\ age'[r] = age[r]
    BY <2>1, TransitionElsewhere
  <2>3. Apart'
    BY <2>2, <1>0 DEF Apart
  <2>4. plan[u][t] \in Acts
    BY DEF Typed
  <2>5. [plan[u][t] EXCEPT !.done = TRUE].done
    BY <2>4 DEF Acts
  <2>6. \A v \in Unblockers : plan'[v][t].done /\ \A r \in Tasks \ {t} : plan'[v][r] = plan[v][r]
    BY <2>1, <2>5 DEF OneEach, Typed
  <2>7. Held'
    BY <2>2, <2>6, <1>0 DEF Held
  <2> QED
    BY <2>3, <2>7
<1>3. ASSUME NEW u \in Unblockers, NEW t \in Tasks, ApplyLabels(u, t) \/ ApplyFails(u, t) PROVE Apart' /\ Held'
  <2>1. /\ state' = state /\ plan' = [plan EXCEPT ![u][t] = NoAct]
        /\ \A r \in Tasks \ {t} : labels'[r] = labels[r]
        /\ \A r \in Tasks : age'[r] = age[r] \/ age'[r] = 0
    BY <1>3 DEF ApplyLabels, ApplyFails, SetLabels, board, Typed, TypeOK
  <2>2. Apart'
    BY <2>1, <1>0 DEF Apart
  <2>3. \A v \in Unblockers : plan'[v][t].done /\ \A r \in Tasks \ {t} : plan'[v][r] = plan[v][r]
    BY <2>1 DEF OneEach, Typed, NoAct
  <2>4. Held'
    BY <2>1, <2>3, <1>0 DEF Held
  <2> QED
    BY <2>2, <2>4
<1>4. ASSUME NEW t \in Tasks, Cancel(t) \/ Promote(t) PROVE Apart' /\ Held'
  <2>1. /\ plan' = plan
        /\ \/ Transition(t, "Cancelled")
           \/ state[t] = "Backlog" /\ Transition(t, "Ready")
    BY <1>4 DEF Cancel, Promote
  <2>2. /\ state'[t] = "Cancelled" \/ (state[t] = "Backlog" /\ state'[t] = "Ready")
        /\ age'[t] = 0 /\ labels' = labels
        /\ \A r \in Tasks \ {t} : state'[r] = state[r] /\ age'[r] = age[r]
    BY <2>1, TransitionElsewhere
  <2> QED
    BY <2>1, <2>2, <1>0 DEF Apart, Held
<1>5. ASSUME NEW t \in Tasks, MarkDead(t) PROVE Apart' /\ Held'
  <2>1. /\ plan' = plan /\ state' = state /\ labels'[t] = With(labels[t], {"dead"})
        /\ \A r \in Tasks \ {t} : labels'[r] = labels[r]
        /\ \A r \in Tasks : age'[r] = age[r] \/ age'[r] = 0
    BY <1>5 DEF MarkDead, SetLabels, Typed, TypeOK
  <2>2. labels[t].tags \cap Reasons = {} => With(labels[t], {"dead"}).tags \cap Reasons = {}
    BY DEF With, Reasons, Typed, TypeOK, LabelSet
  <2> QED
    BY <2>1, <2>2, <1>0 DEF Apart, Held
<1>6. ASSUME NEW t \in Tasks, MergePr(t) PROVE Apart' /\ Held'
  BY <1>6, <1>0 DEF MergePr, Apart, Held
<1>7. ASSUME NEW t \in Tasks, Tick(t) PROVE Apart' /\ Held'
  <2>1. /\ plan' = plan /\ state' = state /\ labels' = labels /\ ~Reporting(t)
        /\ \A r \in Tasks \ {t} : age'[r] = age[r]
    BY <1>7 DEF Tick, Typed, TypeOK
  <2>2. \A w \in Workers : Busy(w, t) => wpc[w] \notin {"thin", "label"}
    BY <2>1 DEF Reporting, Busy
  <2> QED
    BY <2>1, <2>2, <1>0 DEF Apart, Held
<1> QED
  BY <1>1, <1>2, <1>3, <1>4, <1>5, <1>6, <1>7 DEF List, Apply

LEMMA OrderlyStep ==
  ASSUME OneEach, Orderly, [Next]_vars
  PROVE  Orderly'
<1>1. Typed' /\ Matched'
  BY TypedStep, MatchedStep DEF Orderly
<1>2. CASE UNCHANGED vars
  BY <1>1, <1>2 DEF vars, board, works, Orderly, Apart, Held, Busy
<1>3. ASSUME NEW w \in Workers, Work(w) \/ Die(w) PROVE Orderly'
  BY <1>1, <1>3, OrderlyWork DEF Orderly
<1>4. CASE \/ \E u \in Unblockers : List(u) \/ Apply(u) \/ \E t \in Tasks : ApplyFails(u, t)
           \/ \E t \in Tasks : Cancel(t) \/ Promote(t) \/ MarkDead(t) \/ MergePr(t) \/ Tick(t)
  <2>1. UNCHANGED works
    BY <1>4 DEF List, Apply, ListBoard, ApplyTransition, ApplyLabels, ApplyFails, Cancel, Promote,
      MarkDead, MergePr, Tick
  <2> QED
    BY <1>1, <1>4, <2>1, OrderlyBoard DEF Orderly
<1> QED
  BY <1>2, <1>3, <1>4 DEF Next

\* With one worker of each role and one unblocker, Rule 8 (CLEAN_BLOCKED_RETRY)
\* never recycles a Blocked task that carries the policy label, although it acts
\* on a listing that may be old, workers die anywhere and label writes fail.
THEOREM PolicyIsHeld == OneEach => (Spec => PolicyHeld)
<1> SUFFICES ASSUME OneEach PROVE Spec => PolicyHeld
  OBVIOUS
<1>1. Init => Orderly
  BY OrderlyInit
<1>2. Orderly /\ [Next]_vars => Orderly'
  BY OrderlyStep
<1> DEFINE Right(u, t) ==
             /\ ApplyTransition(u, t)
             /\ state[t] = "Blocked" /\ HasTag(t, "policy")
             => plan[u][t].rule # "CLEAN_BLOCKED_RETRY"
<1>3. Orderly => \A u \in Unblockers, t \in Tasks : Right(u, t)
  BY DEF Orderly, Held, ApplyTransition, HasTag, Reasons
<1>4. Orderly /\ [Next]_vars => [\A u \in Unblockers, t \in Tasks : Right(u, t)]_vars
  BY <1>3
<1> QED
  BY <1>1, <1>2, <1>4, PTL DEF Spec, PolicyHeld

----------------------------------------------------------------------------
(* The executions after a third SIGKILL.                                   *)

\* Nobody dies, and nothing gives the unblocker a reason to write labels back or
\* to promote a task without looking at its exit labels.
Quiet == ~Deaths /\ Gated = {} /\ Campaign = {} /\ Failures \cap Reasons = {}

\* The labels the unblocker removes, and a label set that has none of them and
\* shows the signal of every kill it counts.
Bare == Reasons \cup {"gate"}
Fine(l) == l.tags \cap Bare = {} /\ (l.retry > 0 => {"signal", "sigkill"} \subseteq l.tags)

\* Every label set anybody holds is fine, and a busy worker's copy counts the
\* retries that the board counts.
Marks ==
  /\ \A t \in Tasks : Fine(labels[t])
  /\ \A w \in Workers :
       /\ Fine(wcopy[w]) /\ (wpc[w] = "label" => wfail[w] \notin Reasons)
       /\ wpc[w] # "idle" => wcopy[w].retry = labels[wtask[w]].retry
  /\ \A u \in Unblockers, t \in Tasks :
       Fine(seen[u][t]) /\ plan[u][t].add = {} /\ plan[u][t].drop \subseteq Bare

LEMMA FineLabels ==
  ASSUME NEW l \in LabelSet, Fine(l)
  PROVE  /\ \A S \in SUBSET (Tags \ Bare) : Fine(With(l, S)) /\ With(l, S).retry = l.retry
         /\ \A S \in SUBSET Bare : Without(l, S) = l /\ With(Without(l, S), {}) = l
         /\ Fine([l EXCEPT !.code = Bump(@)]) /\ [l EXCEPT !.code = Bump(@)].retry = l.retry
         /\ Fine([With(l, {"exit", "signal", "sigkill"}) EXCEPT !.retry = Bump(@)])
         /\ [With(l, {"exit", "signal", "sigkill"}) EXCEPT !.retry = Bump(@)].retry = Bump(l.retry)
<1>1. \A S \in SUBSET (Tags \ Bare) : Fine(With(l, S)) /\ With(l, S).retry = l.retry
  BY DEF Fine, With, LabelSet
<1>2. ASSUME NEW S \in SUBSET Bare PROVE Without(l, S) = l /\ With(Without(l, S), {}) = l
  <2>1. l.tags \ S = l.tags /\ (l.tags \ S) \cup {} = l.tags
    BY DEF Fine
  <2>2. [l EXCEPT !.tags = l.tags] = l
    BY DEF LabelSet
  <2> QED
    BY <2>1, <2>2 DEF With, Without, LabelSet
<1>3. Fine([l EXCEPT !.code = Bump(@)]) /\ [l EXCEPT !.code = Bump(@)].retry = l.retry
  BY DEF Fine, LabelSet
<1> DEFINE k == [With(l, {"exit", "signal", "sigkill"}) EXCEPT !.retry = Bump(@)]
<1>4. k.tags = l.tags \cup {"exit", "signal", "sigkill"} /\ k.retry = Bump(l.retry)
  BY DEF With, LabelSet
<1>5. Fine(k)
  <2> HIDE DEF k
  <2> QED
    BY <1>4 DEF Fine, Bare, Reasons
<1> QED
  BY <1>1, <1>2, <1>3, <1>4, <1>5

\* What handle_failure writes: the retry count grows by a kill and by nothing else.
LEMMA FineFailure ==
  ASSUME NEW l \in LabelSet, Fine(l), NEW k, k \notin Reasons
  PROVE  /\ Fine(FailureLabels(l, k))
         /\ FailureLabels(l, k).retry = IF k = "kill" THEN Bump(l.retry) ELSE l.retry
<1>1. {"exit0"} \in SUBSET (Tags \ Bare)
  BY DEF Tags, Bare, Reasons
<1>2. /\ Fine(With(l, {"exit0"})) /\ With(l, {"exit0"}).retry = l.retry
      /\ Fine([l EXCEPT !.code = Bump(@)]) /\ [l EXCEPT !.code = Bump(@)].retry = l.retry
      /\ Fine([With(l, {"exit", "signal", "sigkill"}) EXCEPT !.retry = Bump(@)])
      /\ [With(l, {"exit", "signal", "sigkill"}) EXCEPT !.retry = Bump(@)].retry = Bump(l.retry)
  BY <1>1, FineLabels
<1>3. k # "policy" /\ k # "capacity"
  BY DEF Reasons
<1>4. CASE k = "kill"
  BY <1>2, <1>4 DEF FailureLabels
<1>5. CASE k = "clean"
  BY <1>2, <1>5 DEF FailureLabels
<1>6. CASE k = "code"
  BY <1>2, <1>6 DEF FailureLabels
<1>7. CASE k \notin {"kill", "clean", "code"}
  BY <1>3, <1>7 DEF FailureLabels
<1> QED
  BY <1>4, <1>5, <1>6, <1>7

\* A label write by the worker of a task, when requests do not fail.
LEMMA FineWrite ==
  ASSUME Quiet, Typed, Marks, NEW w \in Workers, wpc[w] # "idle", NEW l \in LabelSet, Fine(l), WriteCopy(w, l)
  PROVE  /\ wcopy'[w] = l /\ Fine(labels'[wtask[w]]) /\ labels'[wtask[w]].retry = l.retry
<1>1. wtask[w] \in Tasks /\ wcopy[w].retry = labels[wtask[w]].retry /\ Fine(labels[wtask[w]])
  BY DEF Typed, Marks
<1>2. wcopy' = [wcopy EXCEPT ![w] = l] /\ IF l = wcopy[w] THEN UNCHANGED board ELSE SetLabels(wtask[w], l)
  BY DEF WriteCopy, Quiet
<1>3. wcopy'[w] = l
  BY <1>2 DEF Typed, TypeOK
<1>4. labels'[wtask[w]] = l \/ (l = wcopy[w] /\ labels' = labels)
  BY <1>1, <1>2 DEF SetLabels, board, Typed, TypeOK
<1> QED
  BY <1>1, <1>3, <1>4

\* The steps of a worker on the labels of its own task, and which of them add to
\* the retry count.
LEMMA WorkMarks ==
  ASSUME Quiet, Typed, Marks, NEW w \in Workers, Work(w), wpc[w] # "idle"
  PROVE  /\ Fine(wcopy'[w]) /\ Fine(labels'[wtask[w]]) /\ (wpc'[w] = "label" => wfail'[w] \notin Reasons)
         /\ wcopy'[w].retry = labels'[wtask[w]].retry
         /\ labels'[wtask[w]].retry =
              IF EmptyResult(w) \/ (wpc[w] = "label" /\ wfail[w] = "kill")
              THEN Bump(labels[wtask[w]].retry) ELSE labels[wtask[w]].retry
<1> DEFINE t == wtask[w]
<1>0. /\ t \in Tasks /\ wcopy[w] \in LabelSet /\ labels[t] \in LabelSet
      /\ Fine(wcopy[w]) /\ Fine(labels[t]) /\ wcopy[w].retry = labels[t].retry
      /\ wpc[w] = "label" => wfail[w] \notin Reasons
  BY DEF Typed, TypeOK, Marks
<1>1. wpc'[w] = "label" => wfail'[w] \notin Reasons
  <2>1. wpc'[w] = "label" => \E k \in FailureKinds : Fail(w, k)
    BY DEF Work, BlockThin, LabelThin, GateCloses, Claim, ClearReasons, Succeed, LabelPr, LabelFailure,
      EmptyResult, DispatchFails, FailFetch, FailTransition, Poll, Goto, Idle, Typed, TypeOK
  <2>2. \A k \in FailureKinds : Fail(w, k) => wfail'[w] \in Failures
    BY DEF Fail, Typed, TypeOK
  <2> QED
    BY <2>1, <2>2 DEF Quiet
<1>2. CASE EmptyResult(w)
  <2> DEFINE l == [With(wcopy[w], {"exit", "signal", "sigkill"}) EXCEPT !.retry = Bump(@)]
  <2>1. With(wcopy[w], {"exit", "signal", "sigkill"}) \in LabelSet
    BY <1>0, LabelSetTyped DEF Tags
  <2>2. l \in LabelSet
    BY <2>1, LabelSetTyped
  <2>3. Fine(l) /\ l.retry = Bump(labels[t].retry)
    BY <1>0, FineLabels
  <2>4. WriteCopy(w, l)
    BY <1>2 DEF EmptyResult
  <2> HIDE DEF l
  <2> QED
    BY <1>1, <1>2, <2>2, <2>3, <2>4, FineWrite
<1>3. CASE LabelFailure(w)
  <2> DEFINE l == FailureLabels(wcopy[w], wfail[w])
  <2>1. wpc[w] = "label" /\ ~EmptyResult(w)
    BY <1>3 DEF LabelFailure, EmptyResult
  <2>2. Without(wcopy[w], Reasons) = wcopy[w]
    BY <1>0, FineLabels DEF Bare
  <2>3. WriteCopy(w, l)
    BY <1>3, <2>2 DEF LabelFailure
  <2>4. l \in LabelSet /\ Fine(l) /\ l.retry = IF wfail[w] = "kill" THEN Bump(labels[t].retry) ELSE labels[t].retry
    BY <1>0, <2>1, FailureLabelsTyped, FineFailure
  <2> HIDE DEF l
  <2> QED
    BY <1>1, <2>1, <2>3, <2>4, FineWrite
<1>4. CASE \/ BlockThin(w) \/ Claim(w) \/ FailTransition(w) \/ DispatchFails(w) \/ FailFetch(w)
           \/ (\E verify \in BOOLEAN : Succeed(w, verify)) \/ \E k \in FailureKinds : Fail(w, k)
  <2>1. wcopy' = wcopy /\ labels' = labels /\ wpc[w] # "label"
    BY <1>4 DEF BlockThin, Claim, FailTransition, DispatchFails, FailFetch, Succeed, Fail, Transition, board
  <2> QED
    BY <1>0, <1>1, <1>2, <2>1
<1>5. CASE LabelThin(w) \/ ClearReasons(w) \/ LabelPr(w)
  <2>1. wpc[w] # "label" /\ ~EmptyResult(w)
    BY <1>5 DEF LabelThin, ClearReasons, LabelPr, EmptyResult
  <2>2. {"thin"} \in SUBSET (Tags \ Bare) /\ {"pr"} \in SUBSET (Tags \ Bare) /\ Reasons \in SUBSET Bare
    BY DEF Tags, Bare, Reasons
  <2>3. /\ With(wcopy[w], {"thin"}) \in LabelSet /\ With(wcopy[w], {"pr"}) \in LabelSet
    BY <1>0, LabelSetTyped DEF Tags
  <2>4. /\ Fine(With(wcopy[w], {"thin"})) /\ With(wcopy[w], {"thin"}).retry = labels[t].retry
        /\ Fine(With(wcopy[w], {"pr"})) /\ With(wcopy[w], {"pr"}).retry = labels[t].retry
        /\ Without(wcopy[w], Reasons) = wcopy[w]
    BY <1>0, <2>2, FineLabels
  <2>5. \/ UNCHANGED <<board, wcopy>>
        \/ \E l \in LabelSet : Fine(l) /\ l.retry = labels[t].retry /\ WriteCopy(w, l)
    BY <1>0, <1>5, <2>3, <2>4 DEF LabelThin, ClearReasons, LabelPr
  <2>6. CASE UNCHANGED <<board, wcopy>>
    BY <1>0, <1>1, <2>1, <2>6 DEF board
  <2>7. CASE \E l \in LabelSet : Fine(l) /\ l.retry = labels[t].retry /\ WriteCopy(w, l)
    BY <1>1, <2>1, <2>7, FineWrite
  <2> QED
    BY <2>5, <2>6, <2>7
<1>6. ~GateCloses(w) /\ ~\E s \in Tasks : Poll(w, s)
  BY DEF GateCloses, Poll, Quiet
<1> QED
  BY <1>2, <1>3, <1>4, <1>5, <1>6 DEF Work

LEMMA MarksInit == Init => Marks
<1>1. Fine(NoLabels) /\ NoAct.add = {} /\ NoAct.drop = {}
  BY DEF Fine, NoLabels, NoAct
<1> QED
  BY <1>1 DEF Init, Marks

LEMMA MarksWork ==
  ASSUME Quiet, OneEach, Orderly, Marks, NEW w \in Workers, Work(w)
  PROVE  Marks'
<1> USE DEF Orderly
<1>1. Elsewhere(w) /\ Typed'
  BY WorkElsewhere, WorkTyped
<1>2. ASSUME NEW t \in Tasks, Poll(w, t) PROVE Marks'
  <2>1. /\ UNCHANGED <<labels, wfail, plan, seen>> /\ wpc'[w] = "claim"
        /\ wtask'[w] = t /\ wcopy'[w] = labels[t]
    BY <1>2 DEF Poll, board, Goto, Typed, TypeOK
  <2> QED
    BY <2>1, <1>1 DEF Marks, Elsewhere
<1>3. CASE ~\E t \in Tasks : Poll(w, t)
  <2>1. wpc[w] # "idle" /\ (wpc'[w] # "idle" => wtask'[w] = wtask[w])
    BY <1>3, WorkKeepsTask
  <2>2. /\ Fine(wcopy'[w]) /\ Fine(labels'[wtask[w]]) /\ (wpc'[w] = "label" => wfail'[w] \notin Reasons)
        /\ wcopy'[w].retry = labels'[wtask[w]].retry
    BY <2>1, WorkMarks
  <2>3. \A v \in Workers \ {w} : wpc[v] # "idle" => wtask[v] \in Tasks \ {wtask[w]}
    BY <2>1, Sole DEF Busy, Typed
  <2>4. \A v \in Workers \ {w} : wpc'[v] # "idle" => wcopy'[v].retry = labels'[wtask'[v]].retry
    BY <2>3, <1>1 DEF Elsewhere, Marks
  <2>5. \A t \in Tasks : Fine(labels'[t])
    BY <2>2, <1>1 DEF Elsewhere, Marks
  <2> QED
    BY <2>1, <2>2, <2>4, <2>5, <1>1 DEF Elsewhere, Marks
<1> QED
  BY <1>2, <1>3

\* What a listing decides for a task that was killed: once Rule 1 fits it, nothing
\* but a terminal state; and while its worker is still to write the labels,
\* nothing for a task that is not Blocked.
LEMMA DecisionQuiet ==
  ASSUME Quiet, Typed, NEW t \in Tasks, Fine(labels[t]), NEW mem \in BOOLEAN, NEW gate \in BOOLEAN, NEW missed
  PROVE  /\ Decision(t, mem, gate, missed).add = {} /\ Decision(t, mem, gate, missed).drop \subseteq Bare
         /\ Exhausted(t) => Decision(t, mem, gate, missed).done \/ Decision(t, mem, gate, missed).to \in Terminal
         /\ labels[t].retry > 0 /\ age[t] = 0 /\ state[t] # "Blocked" /\ Kind[t] # "investigate" =>
              Decision(t, mem, gate, missed).done \/ Decision(t, mem, gate, missed).to \in Terminal
<1> DEFINE d == Decide(t, mem, gate, missed)
           prs == gate /\ t \in Gated
           Bland(e) == e.add = {} /\ e.drop \subseteq Bare
           Ends(e) == Bland(e) /\ (e.done \/ e.to \in Terminal)
<1>1. /\ ~prs /\ ~OpenPrGatePark(t, prs) /\ ~CampaignPromote(t, mem)
      /\ ~OpenPrGateRequeue(t, mem, prs)
  BY DEF Quiet, OpenPrGatePark, CampaignPromote, OpenPrGateRequeue, HasTag, Fine, Bare
<1>2. /\ Ends(Act("PR_MERGED_RECONCILE", "Done")) /\ Ends(Act("DEAD_REMEDIATION_CANCEL", "Cancelled"))
      /\ Ends(NoAct)
  BY DEF Act, NoAct, Terminal
<1>3. /\ Bland(Act("INVESTIGATE_DEPRIORITISE", "Backlog")) /\ Bland(Unmark(Act("IMPROVE_UNBLOCK", "Backlog")))
      /\ Bland(Unmark(Act("SELF_MODIFY_REQUEUE", "Ready"))) /\ Bland(Act("STALE_IN_REVIEW", "Backlog"))
      /\ Bland(Act("STALE_RUNNING_REQUEUE", "Ready")) /\ Bland(Unmark(Act("GOAL_BACKLOG_PROMOTE", "Ready")))
      /\ Bland(Unmark(Act("CLEAN_BLOCKED_RETRY", "Backlog"))) /\ Bland(Act("BACKEND_CAPACITY_PARK", "Backlog"))
  BY DEF Act, Unmark, Bare
<1>4. Bland(d)
  <2>1. Ends(NoAct) => Bland(NoAct)
    OBVIOUS
  <2>2. /\ Bland(Act("PR_MERGED_RECONCILE", "Done")) /\ Bland(Act("DEAD_REMEDIATION_CANCEL", "Cancelled"))
        /\ Bland(NoAct)
    BY <1>2
  <2> HIDE DEF Bland
  <2> QED
    BY <1>1, <1>3, <2>2 DEF Decide
<1> DEFINE Later == \/ InvestigateDeprioritise(t) \/ ImproveUnblock(t) \/ SelfModifyRequeue(t, mem)
                    \/ StaleInReview(t) \/ StaleRunning(t) \/ GoalBacklogPromote(t, mem, prs)
                    \/ CleanBlocked(t) \/ CapacityPark(t)
<1>5. ~Later => Ends(d)
  <2> HIDE DEF Ends
  <2> QED
    BY <1>1, <1>2 DEF Decide
<1>6. Exhausted(t) => Ends(d)
  <2>1. CASE state[t] \in Terminal
    <3>1. ~Later
      BY <2>1 DEF InvestigateDeprioritise, ImproveUnblock, SelfModifyRequeue, StaleInReview, StaleRunning,
        GoalBacklogPromote, Promotable, CleanBlocked, CapacityPark, Terminal
    <3> QED
      BY <3>1, <1>5
  <2>2. CASE state[t] \notin Terminal
    <3> HIDE DEF Ends
    <3> QED
      BY <2>2, <1>2 DEF Decide
  <2> QED
    BY <2>1, <2>2
<1>7. labels[t].retry > 0 /\ age[t] = 0 /\ state[t] # "Blocked" /\ Kind[t] # "investigate" => Ends(d)
  <2> SUFFICES ASSUME labels[t].retry > 0, age[t] = 0, state[t] # "Blocked", Kind[t] # "investigate"
               PROVE  ~Later
    BY <1>5
  <2>1. "signal" \in labels[t].tags
    BY DEF Fine
  <2>2. ~StaleInReview(t) /\ ~StaleRunning(t)
    BY DEF StaleInReview, StaleRunning, TwoHours, FourHours
  <2>3. ~GoalBacklogPromote(t, mem, prs)
    BY <2>1 DEF GoalBacklogPromote, Promotable
  <2> QED
    BY <2>2, <2>3 DEF InvestigateDeprioritise, ImproveUnblock, SelfModifyRequeue, CleanBlocked, CapacityPark
<1> QED
  BY <1>4, <1>6, <1>7, DecisionSame

\* The unblocker finds nothing to rewrite.
LEMMA QuietLabels ==
  ASSUME Quiet, Typed, Marks, NEW u \in Unblockers, NEW t \in Tasks, ApplyLabels(u, t)
  PROVE  UNCHANGED board
<1>1. seen[u][t] \in LabelSet /\ Fine(seen[u][t]) /\ plan[u][t].add = {} /\ plan[u][t].drop \in SUBSET Bare
  BY DEF Marks, Typed, TypeOK
<1>2. \A S \in SUBSET Bare : With(Without(seen[u][t], S), {}) = seen[u][t]
  BY <1>1, FineLabels
<1>3. With(Without(seen[u][t], plan[u][t].drop), {}) = seen[u][t]
  BY <1>1, <1>2
<1> QED
  BY <1>1, <1>3 DEF ApplyLabels

LEMMA MarksBoard ==
  ASSUME Quiet, OneEach, Orderly, Marks, UNCHANGED works,
         \/ \E u \in Unblockers : List(u) \/ Apply(u) \/ \E t \in Tasks : ApplyFails(u, t)
         \/ \E t \in Tasks : Cancel(t) \/ Promote(t) \/ MarkDead(t) \/ MergePr(t) \/ Tick(t)
  PROVE  Marks'
<1> USE DEF Orderly
<1>0. wpc' = wpc /\ wtask' = wtask /\ wcopy' = wcopy /\ wfail' = wfail
  BY DEF works
<1>1. ASSUME NEW u \in Unblockers, NEW mem \in BOOLEAN, NEW gate \in BOOLEAN, NEW missed, ListBoard(u, mem, gate, missed)
      PROVE  Marks'
  <2>1. /\ labels' = labels
        /\ \A v \in Unblockers, t \in Tasks :
             \/ plan'[v][t] = plan[v][t] /\ seen'[v][t] = seen[v][t]
             \/ plan'[v][t] = Decision(t, mem, gate, missed) /\ seen'[v][t] = labels[t]
    BY <1>1 DEF ListBoard, board, Typed, TypeOK
  <2>2. \A t \in Tasks : Decision(t, mem, gate, missed).add = {} /\ Decision(t, mem, gate, missed).drop \subseteq Bare
    BY DecisionQuiet DEF Marks
  <2> QED
    BY <2>1, <2>2, <1>0 DEF Marks
<1>2. ASSUME NEW u \in Unblockers, NEW t \in Tasks, ApplyTransition(u, t) PROVE Marks'
  <2>1. plan[u][t] \in Acts /\ labels' = labels /\ seen' = seen
    BY <1>2 DEF Typed, ApplyTransition, Transition
  <2>2. LET e == [plan[u][t] EXCEPT !.done = TRUE] IN e.add = plan[u][t].add /\ e.drop = plan[u][t].drop
    BY <2>1 DEF Acts
  <2>3. plan' = [plan EXCEPT ![u] = [plan[u] EXCEPT ![t] = [plan[u][t] EXCEPT !.done = TRUE]]]
    BY <1>2 DEF ApplyTransition
  <2>4. \A v \in Unblockers, s \in Tasks : plan'[v][s].add = plan[v][s].add /\ plan'[v][s].drop = plan[v][s].drop
    BY <2>2, <2>3 DEF Typed
  <2> QED
    BY <2>1, <2>4, <1>0 DEF Marks
<1>3. ASSUME NEW u \in Unblockers, NEW t \in Tasks, ApplyLabels(u, t) \/ ApplyFails(u, t) PROVE Marks'
  <2>1. labels' = labels
    BY <1>3, QuietLabels DEF ApplyFails, board
  <2>2. \A v \in Unblockers, s \in Tasks :
          \/ plan'[v][s] = plan[v][s] /\ seen'[v][s] = seen[v][s]
          \/ plan'[v][s] = NoAct /\ seen'[v][s] = NoLabels
    <3>1. plan' = [plan EXCEPT ![u][t] = NoAct] /\ seen' = [seen EXCEPT ![u][t] = NoLabels]
      BY <1>3 DEF ApplyLabels, ApplyFails
    <3> QED
      BY <3>1 DEF Typed, TypeOK
  <2>3. Fine(NoLabels) /\ NoAct.add = {} /\ NoAct.drop = {}
    BY DEF Fine, NoLabels, NoAct
  <2> QED
    BY <2>1, <2>2, <2>3, <1>0 DEF Marks
<1>4. ASSUME NEW t \in Tasks, Cancel(t) \/ Promote(t) \/ MergePr(t) \/ Tick(t) PROVE Marks'
  BY <1>4, <1>0 DEF Cancel, Promote, MergePr, Tick, Transition, Marks
<1>5. ASSUME NEW t \in Tasks, MarkDead(t) PROVE Marks'
  <2>1. {"dead"} \in SUBSET (Tags \ Bare)
    BY DEF Tags, Bare, Reasons
  <2>2. Fine(With(labels[t], {"dead"})) /\ With(labels[t], {"dead"}).retry = labels[t].retry
    BY <2>1, FineLabels DEF Marks, Typed, TypeOK
  <2>3. plan' = plan /\ seen' = seen /\ labels' = [labels EXCEPT ![t] = With(labels[t], {"dead"})]
    BY <1>5 DEF MarkDead, SetLabels
  <2>4. \A s \in Tasks : Fine(labels'[s]) /\ labels'[s].retry = labels[s].retry
    BY <2>2, <2>3 DEF Marks, Typed, TypeOK
  <2>5. \A w \in Workers : wpc[w] # "idle" => wtask[w] \in Tasks
    BY DEF Typed
  <2> QED
    BY <2>3, <2>4, <2>5, <1>0 DEF Marks
<1> QED
  BY <1>1, <1>2, <1>3, <1>4, <1>5 DEF List, Apply

\* A kill that the labels do not show yet; a requeue the unblocker holds; a task
\* that can reach an executor as things are.
Unlabelled(t) == \E w \in Workers : Busy(w, t) /\ wpc[w] = "label" /\ wfail[w] = "kill"
Hot(t) == \E u \in Unblockers : ~plan[u][t].done /\ plan[u][t].to \notin Terminal
Warm(t) ==
  \/ \E w \in Workers : Busy(w, t) /\ wpc[w] \in {"claim", "claimed", "run"}
  \/ state[t] \in {"Ready", "Backlog"} /\ \A w \in Workers : Busy(w, t) => wpc[w] \notin {"fail", "block"}

\* The retry count misses no kill but the one being reported.
CountedAt(t) == kills[t] <= IF Unlabelled(t) THEN Bump(labels[t].retry) ELSE labels[t].retry

\* After three kills there is one more chance at most, after four there is none.
LeftAt(t) ==
  /\ kills[t] <= 4
  /\ kills[t] = 3 => ~(Hot(t) /\ Warm(t))
  /\ kills[t] = 4 => ~Hot(t) /\ ~Warm(t)

Tally == \A t \in Tasks : CountedAt(t) /\ LeftAt(t)
Spared == Orderly /\ Marks /\ Tally

\* A worker's step on a task it does not have, or has just found.
LEMMA WorkAside ==
  ASSUME OneEach, Orderly, NEW w \in Workers, Work(w), NEW t \in Tasks,
         t # wtask[w] \/ \E s \in Tasks : Poll(w, s)
  PROVE  /\ kills'[t] = kills[t] /\ labels'[t] = labels[t]
         /\ Unlabelled(t)' <=> Unlabelled(t)
         /\ Warm(t)' => Warm(t)
<1> USE DEF Orderly
<1>1. Elsewhere(w)
  BY WorkElsewhere
<1>2. ASSUME NEW s \in Tasks, Poll(w, s)
      PROVE  /\ kills'[t] = kills[t] /\ labels'[t] = labels[t]
             /\ Unlabelled(t)' <=> Unlabelled(t)
             /\ Warm(t)' => Warm(t)
  <2>1. /\ kills' = kills /\ labels' = labels /\ state' = state /\ wpc[w] = "idle"
        /\ wpc'[w] = "claim" /\ wtask'[w] = s /\ state[s] = "Ready" /\ Kind[s] = Role[w]
    BY <1>2 DEF Poll, board, Goto, Typed, TypeOK
  <2>2. \A v \in Workers \ {w} : (Busy(v, t)' <=> Busy(v, t)) /\ wpc'[v] = wpc[v] /\ wfail'[v] = wfail[v]
    BY <1>1 DEF Elsewhere, Busy
  <2>3. \A v \in Workers : ~Busy(v, s)
    BY <2>1 DEF Busy, Matched, OneEach
  <2>4. Unlabelled(t)' <=> Unlabelled(t)
    BY <2>1, <2>2 DEF Unlabelled, Busy
  <2>5. CASE t = s
    BY <2>1, <2>3, <2>4, <2>5 DEF Warm
  <2>6. CASE t # s
    <3>1. ~Busy(w, t) /\ ~Busy(w, t)'
      BY <2>1, <2>6 DEF Busy
    <3> QED
      BY <2>1, <2>2, <2>4, <3>1 DEF Warm
  <2> QED
    BY <2>5, <2>6
<1>3. CASE ~\E s \in Tasks : Poll(w, s)
  <2>1. ~Busy(w, t) /\ ~Busy(w, t)'
    BY <1>3, WorkKeepsTask DEF Busy
  <2>2. \A v \in Workers \ {w} : (Busy(v, t)' <=> Busy(v, t)) /\ wpc'[v] = wpc[v] /\ wfail'[v] = wfail[v]
    BY <1>1 DEF Elsewhere, Busy
  <2>3. state'[t] = state[t] /\ kills'[t] = kills[t] /\ labels'[t] = labels[t]
    BY <1>1, <1>3 DEF Elsewhere
  <2>4. Unlabelled(t)' <=> Unlabelled(t)
    BY <2>1, <2>2 DEF Unlabelled
  <2>5. Warm(t)' => Warm(t)
    BY <2>1, <2>2, <2>3 DEF Warm
  <2> QED
    BY <2>3, <2>4, <2>5
<1> QED
  BY <1>2, <1>3

\* A worker's step on its own task: a kill takes it from a place where it runs to
\* one where it does not, and no other step makes it runnable.
LEMMA WorkOwn ==
  ASSUME Quiet, OneEach, Orderly, Marks, NEW w \in Workers, Work(w), NEW t \in Tasks,
         t = wtask[w], ~\E s \in Tasks : Poll(w, s), CountedAt(t)
  PROVE  /\ CountedAt(t)'
         /\ \/ kills'[t] = kills[t] /\ (Warm(t)' => Warm(t))
            \/ kills'[t] = Bump(kills[t]) /\ Warm(t) /\ ~Warm(t)'
<1> USE DEF Orderly
<1>1. Elsewhere(w) /\ wpc[w] # "idle" /\ (wpc'[w] # "idle" => wtask'[w] = t) /\ Busy(w, t)
  BY WorkElsewhere, WorkKeepsTask DEF Busy
<1>2. \A v \in Workers \ {w} : ~Busy(v, t) /\ ~Busy(v, t)'
  BY <1>1, Sole DEF Elsewhere, Busy
<1>3. /\ Unlabelled(t) <=> wpc[w] = "label" /\ wfail[w] = "kill"
      /\ Warm(t) <=> \/ wpc[w] \in {"claim", "claimed", "run"}
                     \/ state[t] \in {"Ready", "Backlog"} /\ wpc[w] \notin {"fail", "block"}
  BY <1>1, <1>2 DEF Unlabelled, Warm
<1>4. Busy(w, t)' <=> wpc'[w] # "idle"
  BY <1>1 DEF Busy
<1>5. /\ Unlabelled(t)' <=> wpc'[w] = "label" /\ wfail'[w] = "kill"
      /\ Warm(t)' <=> \/ wpc'[w] \in {"claim", "claimed", "run"}
                      \/ state'[t] \in {"Ready", "Backlog"} /\ wpc'[w] \notin {"fail", "block"}
  BY <1>2, <1>4 DEF Unlabelled, Warm
<1>6. /\ kills[t] \in 0..MaxCount /\ labels[t].retry \in 0..MaxCount
  BY DEF Typed, TypeOK, LabelSet
<1>7. labels'[t].retry = IF EmptyResult(w) \/ (wpc[w] = "label" /\ wfail[w] = "kill")
                         THEN Bump(labels[t].retry) ELSE labels[t].retry
  BY <1>1, WorkMarks
<1>8. ASSUME NEW k \in FailureKinds, Fail(w, k), k = "kill"
      PROVE  /\ CountedAt(t)' /\ kills'[t] = Bump(kills[t]) /\ Warm(t) /\ ~Warm(t)'
  <2>1. /\ wpc[w] = "run" /\ wpc'[w] = "label" /\ wfail'[w] = "kill" /\ state'[t] = "Blocked"
        /\ kills'[t] = Bump(kills[t]) /\ labels' = labels
    BY <1>8 DEF Fail, Goto, Transition, Typed, TypeOK
  <2>2. kills[t] <= labels[t].retry
    BY <1>3, <2>1 DEF CountedAt
  <2>3. Bump(kills[t]) <= Bump(labels[t].retry)
    BY <1>6, <2>2, BoundAssumption DEF Bump
  <2> QED
    BY <1>3, <1>5, <2>1, <2>3 DEF CountedAt
<1>9. CASE EmptyResult(w)
  <2>1. wpc[w] = "run" /\ wpc'[w] = "fail" /\ kills'[t] = Bump(kills[t])
    BY <1>9 DEF EmptyResult, Goto, Typed, TypeOK
  <2>2. kills[t] <= labels[t].retry
    BY <1>3, <2>1 DEF CountedAt
  <2>3. Bump(kills[t]) <= Bump(labels[t].retry)
    BY <1>6, <2>2, BoundAssumption DEF Bump
  <2> QED
    BY <1>3, <1>5, <1>7, <1>9, <2>1, <2>3 DEF CountedAt
<1>10. CASE LabelFailure(w)
  <2>1. /\ wpc[w] = "label" /\ wpc'[w] = "idle" /\ kills' = kills /\ state' = state /\ ~EmptyResult(w)
    BY <1>10 DEF LabelFailure, EmptyResult, WriteCopy, SetLabels, board, Idle, Goto, Typed, TypeOK
  <2> QED
    BY <1>3, <1>5, <1>7, <2>1 DEF CountedAt
<1>11. ASSUME kills' = kills, wpc[w] # "label", ~EmptyResult(w), ~(wpc'[w] = "label" /\ wfail'[w] = "kill")
       PROVE  CountedAt(t)'
  BY <1>3, <1>5, <1>7, <1>11 DEF CountedAt
<1>12. CASE ~EmptyResult(w) /\ (BlockThin(w) \/ Claim(w) \/ \E verify \in BOOLEAN : Succeed(w, verify))
  <2>1. /\ kills' = kills /\ wpc[w] \in {"claim", "run"} /\ wpc'[w] # "label"
    BY <1>12 DEF BlockThin, Claim, Succeed, Goto, Idle, Typed, TypeOK
  <2> QED
    BY <1>3, <1>11, <1>12, <2>1
<1>13. ASSUME NEW k \in FailureKinds, Fail(w, k), k # "kill", ~EmptyResult(w)
       PROVE  CountedAt(t)' /\ kills'[t] = kills[t] /\ Warm(t)
  <2>1. kills' = kills /\ wpc[w] = "run" /\ wfail'[w] # "kill"
    BY <1>13 DEF Fail, Typed, TypeOK
  <2> QED
    BY <1>3, <1>11, <1>13, <2>1
<1>14. CASE LabelThin(w) \/ ClearReasons(w) \/ LabelPr(w)
  <2>1. /\ kills' = kills /\ state' = state /\ ~EmptyResult(w)
        /\ wpc[w] \in {"thin", "claimed", "review"} /\ wpc'[w] \in {"idle", "run"}
        /\ wpc'[w] = "run" => wpc[w] = "claimed"
    BY <1>14 DEF LabelThin, ClearReasons, LabelPr, EmptyResult, WriteCopy, SetLabels, board, Goto, Idle, Typed, TypeOK
  <2> QED
    BY <1>3, <1>5, <1>11, <2>1
<1>15. CASE ~EmptyResult(w) /\ (DispatchFails(w) \/ FailFetch(w) \/ FailTransition(w))
  <2>1. /\ kills' = kills /\ wpc[w] \in {"run", "fail", "block"} /\ wpc'[w] \in {"fail", "block", "idle"}
        /\ wpc'[w] = "idle" => state'[t] \in Terminal \cup {"Blocked"}
    BY <1>15 DEF DispatchFails, FailFetch, FailTransition, Transition, board, Goto, Idle, Typed, TypeOK
  <2> QED
    BY <1>3, <1>5, <1>11, <1>15, <2>1 DEF Terminal
<1>16. ~GateCloses(w)
  BY DEF GateCloses, Quiet
<1> QED
  BY <1>8, <1>9, <1>10, <1>12, <1>13, <1>14, <1>15, <1>16 DEF Work

LEMMA TallyWork ==
  ASSUME Quiet, OneEach, Spared, NEW w \in Workers, Work(w)
  PROVE  Tally'
<1> USE DEF Spared
<1> SUFFICES ASSUME NEW t \in Tasks PROVE CountedAt(t)' /\ LeftAt(t)'
  BY DEF Tally
<1>1. CountedAt(t) /\ LeftAt(t)
  BY DEF Tally
<1>2. Hot(t)' <=> Hot(t)
  BY WorkElsewhere DEF Elsewhere, Hot, Orderly
<1>3. kills[t] \in Nat
  BY DEF Orderly, Typed, TypeOK
<1>4. /\ CountedAt(t)'
      /\ \/ kills'[t] = kills[t] /\ (Warm(t)' => Warm(t))
         \/ kills'[t] = Bump(kills[t]) /\ Warm(t) /\ ~Warm(t)'
  <2>1. CASE t # wtask[w] \/ \E s \in Tasks : Poll(w, s)
    BY <1>1, <2>1, WorkAside DEF CountedAt
  <2>2. CASE t = wtask[w] /\ ~\E s \in Tasks : Poll(w, s)
    BY <1>1, <2>2, WorkOwn
  <2> QED
    BY <2>1, <2>2
<1>5. CASE kills'[t] = kills[t] /\ (Warm(t)' => Warm(t))
  BY <1>1, <1>2, <1>4, <1>5 DEF LeftAt
<1>6. CASE kills'[t] = Bump(kills[t]) /\ Warm(t) /\ ~Warm(t)'
  <2>1. kills[t] # 4 /\ (kills[t] = 3 => ~Hot(t)) /\ kills[t] <= 4
    BY <1>1, <1>6 DEF LeftAt
  <2>2. kills'[t] = kills[t] \/ kills'[t] = kills[t] + 1
    BY <1>6 DEF Bump
  <2>3. kills'[t] <= 4 /\ (kills'[t] = 4 => kills[t] = 3)
    BY <1>3, <2>1, <2>2
  <2> QED
    BY <1>2, <1>4, <1>6, <2>1, <2>3 DEF LeftAt
<1> QED
  BY <1>4, <1>5, <1>6

\* A new listing: a requeue of a task that was killed three times is decided only
\* while the third kill is being reported and the task is Blocked.
LEMMA TallyList ==
  ASSUME Quiet, OneEach, Spared, NEW u \in Unblockers, NEW mem \in BOOLEAN, NEW gate \in BOOLEAN, NEW missed,
         ListBoard(u, mem, gate, missed), NEW t \in Tasks
  PROVE  CountedAt(t)' /\ LeftAt(t)'
<1> USE DEF Spared, Orderly
<1>1. CountedAt(t) /\ LeftAt(t) /\ Fine(labels[t])
  BY DEF Tally, Marks
<1>2. /\ UNCHANGED <<state, labels, kills, wpc, wtask, wfail>>
      /\ \A v \in Unblockers : plan'[v][t] = Decision(t, mem, gate, missed)
  BY DEF ListBoard, board, works, OneEach, Typed
<1>3. (Unlabelled(t)' <=> Unlabelled(t)) /\ (Warm(t)' <=> Warm(t))
  BY <1>2 DEF Unlabelled, Warm, Busy
<1>4. kills[t] \in 0..MaxCount /\ labels[t].retry \in 0..MaxCount
  BY DEF Typed, TypeOK, LabelSet
<1>5. ASSUME Hot(t)', kills[t] >= 3
      PROVE  kills[t] = 3 /\ ~Warm(t)
  <2>1. ~Decision(t, mem, gate, missed).done /\ Decision(t, mem, gate, missed).to \notin Terminal
    BY <1>2, <1>5 DEF Hot
  <2>2. ~Exhausted(t)
    BY <1>1, <2>1, DecisionQuiet
  <2>3. labels[t].retry < 3
    BY <1>1, <1>4, <2>2 DEF Exhausted, HasTag, Fine
  <2>4. Unlabelled(t)
    BY <1>1, <1>4, <1>5, <2>3 DEF CountedAt
  <2>5. kills[t] = 3 /\ labels[t].retry > 0
    BY <1>1, <1>4, <1>5, <2>3, <2>4, BoundAssumption DEF CountedAt, Bump
  <2>6. PICK w \in Workers : Busy(w, t) /\ wpc[w] = "label"
    BY <2>4 DEF Unlabelled
  <2>7. age[t] = 0
    BY <2>6 DEF Apart
  <2>8. Kind[t] # "investigate"
    BY <2>6, KindAssumption DEF Matched, Busy
  <2>9. state[t] = "Blocked"
    BY <1>1, <2>1, <2>5, <2>7, <2>8, DecisionQuiet
  <2>10. \A v \in Workers : Busy(v, t) => v = w
    BY <2>6, Sole
  <2> QED
    BY <2>5, <2>6, <2>9, <2>10 DEF Warm
<1> QED
  BY <1>1, <1>2, <1>3, <1>4, <1>5 DEF CountedAt, LeftAt

LEMMA TallyBoard ==
  ASSUME Quiet, OneEach, Spared, UNCHANGED works,
         \/ \E u \in Unblockers : List(u) \/ Apply(u) \/ \E t \in Tasks : ApplyFails(u, t)
         \/ \E t \in Tasks : Cancel(t) \/ Promote(t) \/ MarkDead(t) \/ MergePr(t) \/ Tick(t)
  PROVE  Tally'
<1> USE DEF Spared, Orderly
<1>0. \A t \in Tasks : (Unlabelled(t)' <=> Unlabelled(t)) /\ CountedAt(t) /\ LeftAt(t)
  BY DEF works, Unlabelled, Busy, Tally
<1>1. ASSUME NEW t \in Tasks, kills'[t] = kills[t], labels'[t].retry = labels[t].retry,
             Warm(t)' => Warm(t), Hot(t)' => Hot(t)
      PROVE  CountedAt(t)' /\ LeftAt(t)'
  BY <1>0, <1>1 DEF CountedAt, LeftAt
<1>2. ASSUME NEW t \in Tasks, state'[t] = state[t] \/ state'[t] \in Terminal \/ state[t] = "Backlog"
      PROVE  Warm(t)' => Warm(t)
  BY <1>2 DEF works, Warm, Busy, Terminal
<1>3. CASE \E u \in Unblockers : List(u)
  BY <1>3, TallyList DEF List, Tally
<1>4. ASSUME NEW u \in Unblockers, NEW r \in Tasks, ApplyTransition(u, r) PROVE Tally'
  <2>1. /\ ~plan[u][r].done /\ Transition(r, plan[u][r].to) /\ kills' = kills
        /\ plan' = [plan EXCEPT ![u] = [plan[u] EXCEPT ![r] = [plan[u][r] EXCEPT !.done = TRUE]]]
    BY <1>4 DEF ApplyTransition
  <2>2. /\ state'[r] = plan[u][r].to /\ labels' = labels
        /\ \A t \in Tasks \ {r} : state'[t] = state[t]
    BY <2>1, TransitionElsewhere
  <2>3. plan[u][r] \in Acts
    BY DEF Typed
  <2>4. [plan[u][r] EXCEPT !.done = TRUE].done
    BY <2>3 DEF Acts
  <2>5. \A v \in Unblockers : plan'[v][r].done /\ \A t \in Tasks \ {r} : plan'[v][t] = plan[v][t]
    BY <2>1, <2>4 DEF OneEach, Typed
  <2>6. ~Hot(r)' /\ \A t \in Tasks \ {r} : Hot(t)' <=> Hot(t)
    BY <2>5 DEF Hot
  <2>7. \A t \in Tasks \ {r} : CountedAt(t)' /\ LeftAt(t)'
    BY <1>1, <1>2, <2>1, <2>2, <2>6
  <2>8. CountedAt(r)' /\ LeftAt(r)'
    <3>1. CASE plan[u][r].to \in Terminal
      BY <3>1, <1>1, <1>2, <2>1, <2>2, <2>6
    <3>2. CASE plan[u][r].to \notin Terminal
      <4>1. Hot(r)
        BY <3>2, <2>1 DEF Hot
      <4> QED
        BY <4>1, <1>0, <2>1, <2>2, <2>6 DEF CountedAt, LeftAt
    <3> QED
      BY <3>1, <3>2
  <2> QED
    BY <2>7, <2>8 DEF Tally
<1>5. ASSUME NEW u \in Unblockers, NEW r \in Tasks, ApplyLabels(u, r) PROVE Tally'
  <2>1. UNCHANGED <<state, labels>> /\ kills' = kills /\ plan' = [plan EXCEPT ![u][r] = NoAct]
    BY <1>5, QuietLabels DEF board, ApplyLabels
  <2>2. \A v \in Unblockers, t \in Tasks : plan'[v][t] = plan[v][t] \/ plan'[v][t].done
    BY <2>1 DEF Typed, NoAct
  <2>3. \A t \in Tasks : Hot(t)' => Hot(t)
    BY <2>2 DEF Hot
  <2> QED
    BY <1>1, <1>2, <2>1, <2>3 DEF Tally
<1>6. ~\E u \in Unblockers, t \in Tasks : ApplyFails(u, t)
  BY DEF ApplyFails, Quiet
<1>7. ASSUME NEW r \in Tasks, Cancel(r) \/ Promote(r) PROVE Tally'
  <2>1. /\ labels' = labels /\ kills' = kills /\ plan' = plan
        /\ \A t \in Tasks : state'[t] = state[t] \/ state'[t] \in Terminal \/ state[t] = "Backlog"
    BY <1>7 DEF Cancel, Promote, Transition, Terminal, Typed, TypeOK
  <2>2. \A t \in Tasks : Hot(t)' => Hot(t)
    BY <2>1 DEF Hot
  <2> QED
    BY <1>1, <1>2, <2>1, <2>2 DEF Tally
<1>8. ASSUME NEW r \in Tasks, MarkDead(r) \/ MergePr(r) \/ Tick(r) PROVE Tally'
  <2>1. /\ state' = state /\ kills' = kills /\ plan' = plan
        /\ labels' = labels \/ labels' = [labels EXCEPT ![r] = With(labels[r], {"dead"})]
    BY <1>8 DEF MarkDead, MergePr, Tick, SetLabels
  <2>2. With(labels[r], {"dead"}).retry = labels[r].retry
    BY DEF With, Typed, TypeOK, LabelSet
  <2>3. \A t \in Tasks : labels'[t].retry = labels[t].retry
    BY <2>1, <2>2 DEF Typed, TypeOK
  <2>4. \A t \in Tasks : Hot(t)' => Hot(t)
    BY <2>1 DEF Hot
  <2> QED
    BY <1>1, <1>2, <2>1, <2>3, <2>4 DEF Tally
<1> QED
  BY <1>3, <1>4, <1>5, <1>6, <1>7, <1>8 DEF Apply

LEMMA SparedInit == Init => Spared
<1> SUFFICES ASSUME Init PROVE Spared
  OBVIOUS
<1>1. Orderly /\ Marks
  BY OrderlyInit, MarksInit
<1>2. \A t \in Tasks : kills[t] = 0 /\ labels[t].retry = 0 /\ ~Unlabelled(t)
  BY DEF Init, NoLabels, Unlabelled, Busy
<1> QED
  BY <1>1, <1>2 DEF Spared, Tally, CountedAt, LeftAt

LEMMA SparedStep ==
  ASSUME Quiet, OneEach, Spared, [Next]_vars
  PROVE  Spared'
<1>1. Orderly'
  BY OrderlyStep DEF Spared
<1>2. CASE UNCHANGED vars
  BY <1>1, <1>2 DEF vars, board, works, Spared, Marks, Tally, CountedAt, LeftAt, Unlabelled, Hot, Warm, Busy
<1>3. ASSUME NEW w \in Workers, Work(w) PROVE Spared'
  BY <1>1, <1>3, MarksWork, TallyWork DEF Spared
<1>4. ~\E w \in Workers : Die(w)
  BY DEF Die, Quiet
<1>5. CASE \/ \E u \in Unblockers : List(u) \/ Apply(u) \/ \E t \in Tasks : ApplyFails(u, t)
           \/ \E t \in Tasks : Cancel(t) \/ Promote(t) \/ MarkDead(t) \/ MergePr(t) \/ Tick(t)
  <2>1. UNCHANGED works
    BY <1>5 DEF List, Apply, ListBoard, ApplyTransition, ApplyLabels, ApplyFails, Cancel, Promote,
      MarkDead, MergePr, Tick
  <2> QED
    BY <1>1, <1>5, <2>1, MarksBoard, TallyBoard DEF Spared
<1> QED
  BY <1>2, <1>3, <1>4, <1>5 DEF Next

\* With one worker of each role and one unblocker, and as long as nothing makes
\* the unblocker write back the labels of an old listing, Rule 1's cap of three
\* SIGKILLs is passed by one execution at most, on any board and for any bound on
\* the counters: stale requeues, operators and the delay between an outcome and
\* its labels included.
THEOREM KillsStayBounded == OneEach /\ Quiet => (Spec => []KillsBounded)
<1> SUFFICES ASSUME OneEach, Quiet PROVE Spec => []KillsBounded
  OBVIOUS
<1>1. Init => Spared
  BY SparedInit
<1>2. Spared /\ [Next]_vars => Spared'
  BY SparedStep
<1>3. Spared => KillsBounded
  BY DEF Spared, Tally, LeftAt, KillsBounded
<1> QED
  BY <1>1, <1>2, <1>3, PTL DEF Spec
============================================================================
