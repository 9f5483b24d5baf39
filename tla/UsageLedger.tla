---------------------------- MODULE UsageLedger ----------------------------
(***************************************************************************)
(* What the events of usage.json mean (execution/usage_store.py) to those  *)
(* who read them: the rate and concurrency gates of the coordinator, the   *)
(* choice of a worker backend (backends/worker_backend_selector.py) and    *)
(* the probe that retracts cooldowns (backends/worker_backend_probe.py).   *)
(* The sweeps of in_flight_reconcile.py write into it too.                 *)
(*                                                                         *)
(* All of them share one list, which every save cuts to the last seven     *)
(* days and to the last 1000 events of whatever kind (keep).  An append is *)
(* one step here; how appends of several processes interfere is the        *)
(* subject of UsageFile.  One executor backend and one worker backend: the *)
(* events of others only fill the list, as Noise does.                     *)
(***************************************************************************)
EXTENDS Integers, Sequences, FiniteSets

CONSTANTS
  Scenes,     \* who is at work, and the caps: see Scene
  Models,     \* WORKER_BACKEND_MODELS of the worker backend
  Wide,       \* limit kinds that stop every model, or name none
  Runs,       \* run ids, 1..n
  Hour, Day, Week,
  MaxReset,   \* bound on how far away the resets are that limit notices name
  MaxTime,    \* bound on the clock of every scene
  None

ASSUME WindowAssumption == /\ Hour \in Nat /\ Day \in Nat /\ Week \in Nat
                           /\ Hour <= Day /\ Day <= Week
ASSUME ResetAssumption == MaxReset \in Nat /\ \A s \in Scenes : s.reset \in 0..MaxReset
ASSUME BoundAssumption == MaxTime \in Nat /\ \A s \in Scenes : s.end \in 0..MaxTime
ASSUME KeepAssumption == \A s \in Scenes : s.keep \in Nat \ {0}
\* A cap may be 0, which admits nobody.
ASSUME CapAssumption ==
  \A s \in Scenes : /\ s.hourCap \in Nat /\ s.dayCap \in Nat /\ IsFiniteSet(s.executors)
                    /\ s.executors = {} => s.hourCap > 0 /\ s.dayCap > 0
ASSUME KeyAssumption == Models \cap Wide = {} /\ None \notin Models \cup Wide \cup Runs

\* A cooldown is keyed by (limit_kind, model): a model stands for its
\* model_weekly limit, a member of Wide for any other kind.
Keys == Models \cup Wide

\* A probe under way: the time of its snapshot, whether a limit of that snapshot
\* stops every model, the model that ran and is still to be acted on, or None, and
\* the models still to be probed.
Probes == [at : 0..MaxTime, wide : BOOLEAN, ok : Models \cup {None}, todo : SUBSET Models]
ASSUME ProbeAssumption == None \notin Probes

\* keys: the limits that are met; probing, noise, sweeping: BOOLEAN; executors: their set;
\* hourCap, dayCap, slotCap: max_per_hour, max_per_day, max_concurrent; keep: the
\* length the event list is cut to; reset: the farthest reset that is reported;
\* end: bound on the clock.
VARIABLES
  scene,
  now,
  events,     \* the event list in the file, oldest first
  pc, run,    \* executor -> its place in the dispatch, and its run id
  probe,      \* the probe of the worker backend, or None
  booked,     \* history: the executions recorded in the last day, <<time, number>>
  began,      \* history: executor -> when its slot was recorded
  swept,      \* history: executors that run and whose slot a sweep has closed
  limit,      \* history: key -> the reset last reported and not disproved since
  cut,        \* history: kinds whose events were cut while they still counted
  overtaken   \* history: keys whose last report is lost: it came after the probe's
              \* answer that cleared it, or it is over seven days old

ledger == <<now, events>>
dispatches == <<pc, run, began, swept, booked>>
vars == <<scene, ledger, dispatches, probe, limit, cut, overtaken>>

Kinds == {"started", "finished", "execution", "cooldown", "other"}
Events == [kind : Kinds, who : Keys \cup Runs \cup {None}, reset : 0..(MaxTime + MaxReset), at : 0..MaxTime]
Event(kind, who, reset) == [kind |-> kind, who |-> who, reset |-> reset, at |-> now]

Init ==
  /\ scene \in Scenes
  /\ now = 0
  /\ events = <<>>
  /\ pc = [e \in scene.executors |-> "idle"]
  /\ run = [e \in scene.executors |-> None]
  /\ began = [e \in scene.executors |-> 0]
  /\ swept = {}
  /\ booked = {}
  /\ probe = None
  /\ limit = [k \in Keys |-> 0]
  /\ cut = {}
  /\ overtaken = {}

----------------------------------------------------------------------------
(* The event list.                                                         *)

\* The i-th member of a set of positions is the one with i members up to it.
Nth(T, i) == CHOOSE j \in T : Cardinality({k \in T : k <= j}) = i

\* The events at some positions, in their order.
Pick(es, T) == [i \in 1..Cardinality(T) |-> es[Nth(T, i)]]

Fresh(es, t) == Pick(es, {i \in DOMAIN es : es[i].at + Week >= t})
Last(es, n) == IF Len(es) <= n THEN es ELSE SubSeq(es, Len(es) - n + 1, Len(es))

\* Mutant: the list is not cut.
PruneEventsByAge(es, t) == Fresh(es, t)

PruneEvents(es, t) == Last(Fresh(es, t), scene.keep)

\* Every reader prunes for itself, without writing.
Seen == PruneEvents(events, now)

Active(e, t) == e.kind = "cooldown" /\ e.reset > t

\* The events a reader still counts, a cooldown only for the seven days.
Counts(e) ==
  \/ e.kind = "execution" /\ e.at + Day >= now
  \/ e.kind = "started" /\ e.at + Day >= now /\ \E x \in DOMAIN run : run[x] = e.who
  \/ Active(e, now) /\ e.at + Week >= now

\* save: the list is pruned and written.
Save(es, t) ==
  /\ events' = PruneEvents(es, t)
  /\ cut' = cut \cup {es[i].kind : i \in {j \in DOMAIN es :
              /\ Counts(es[j])
              /\ Cardinality({n \in (j + 1)..Len(es) : es[n].at + Week >= t}) >= scene.keep}}

\* _append_event
AppendEvent(e) == Save(Append(events, e), now)

----------------------------------------------------------------------------
(* The gates.                                                              *)

\* Mutant: an execution counts for its window only until the clock moves on.
ExecCountStrict(window) ==
  LET seen == Seen IN
  Cardinality({i \in DOMAIN seen : seen[i].kind = "execution" /\ seen[i].at + window > now})

\* _exec_count
ExecCount(window) ==
  LET seen == Seen IN
  Cardinality({i \in DOMAIN seen : seen[i].kind = "execution" /\ seen[i].at + window >= now})

\* global_rate_decision and budget_decision_for_backend.
RateFree == ExecCount(Hour) < scene.hourCap /\ ExecCount(Day) < scene.dayCap

\* Mutant: a start counts for an hour only.
OpenSlotsHour ==
  LET seen == Seen IN
  {seen[i].who : i \in {j \in DOMAIN seen :
     /\ seen[j].kind = "started" /\ seen[j].at + Hour >= now
     /\ \A n \in j..Len(seen) : ~(seen[n].kind = "finished" /\ seen[n].who = seen[j].who)}}

\* total_concurrent_runs and concurrent_runs_for_backend: starts of the last day
\* that no later end closes.
OpenSlots ==
  LET seen == Seen IN
  {seen[i].who : i \in {j \in DOMAIN seen :
     /\ seen[j].kind = "started" /\ seen[j].at + Day >= now
     /\ \A n \in j..Len(seen) : ~(seen[n].kind = "finished" /\ seen[n].who = seen[j].who)}}

SlotFree == Cardinality(OpenSlots) < scene.slotCap

----------------------------------------------------------------------------
(* ExecutionCoordinator.execute, as far as it reads and writes events.     *)

Goto(e, p) == pc' = [pc EXCEPT ![e] = p]

\* The resource gate and the backend's caps.
Gate(e) ==
  /\ pc[e] = "idle" /\ RateFree /\ SlotFree
  /\ Goto(e, "admitted")
  /\ UNCHANGED <<scene, ledger, run, began, swept, booked, probe, limit, cut, overtaken>>

\* A run id no event and no executor has.
Unused(r) ==
  /\ \A i \in DOMAIN events : events[i].who # r
  /\ \A e \in DOMAIN run : run[e] # r

\* record_execution_started, under the first id that is not in use.
Start(e) ==
  /\ pc[e] = "admitted"
  /\ \E r \in Runs :
       /\ Unused(r) /\ \A q \in 1..(r - 1) : ~Unused(q)
       /\ run' = [run EXCEPT ![e] = r]
       /\ AppendEvent(Event("started", r, 0))
  /\ began' = [began EXCEPT ![e] = now]
  /\ swept' = swept \ {e}
  /\ Goto(e, "running")
  /\ UNCHANGED <<scene, now, booked, probe, limit, overtaken>>

\* The finally block: record_execution_finished.
Finish(e) ==
  /\ pc[e] = "running"
  /\ AppendEvent(Event("finished", run[e], 0))
  /\ run' = [run EXCEPT ![e] = None]
  /\ began' = [began EXCEPT ![e] = 0]
  /\ swept' = swept \ {e}
  /\ Goto(e, "book")
  /\ UNCHANGED <<scene, now, booked, probe, limit, overtaken>>

\* record_execution, once per dispatch, after the run.
Book(e) ==
  /\ pc[e] = "book"
  /\ AppendEvent(Event("execution", None, 0))
  /\ booked' = booked \cup {<<now, Cardinality({b \in booked : b[1] = now}) + 1>>}
  /\ Goto(e, "outcome")
  /\ UNCHANGED <<scene, now, run, began, swept, probe, limit, overtaken>>

\* record_execution_outcome, or record_quota_event.
Outcome(e) ==
  /\ pc[e] = "outcome"
  /\ AppendEvent(Event("other", None, 0))
  /\ Goto(e, "idle")
  /\ UNCHANGED <<scene, now, run, began, swept, booked, probe, limit, overtaken>>

\* The executor is killed; what it has not recorded by then is never recorded.
Kill(e) ==
  /\ pc[e] # "idle"
  /\ Goto(e, "idle")
  /\ run' = [run EXCEPT ![e] = None]
  /\ began' = [began EXCEPT ![e] = 0]
  /\ swept' = swept \ {e}
  /\ UNCHANGED <<scene, ledger, booked, probe, limit, cut, overtaken>>

\* clear_orphaned_in_flight, at startup and by the watchdog: an open slot whose
\* task the board does not know gets its end recorded.  The ledger has run ids
\* and the board task ids, so that is every open slot, that of a running dispatch
\* too.  An executor that records its own end between the listing and this write
\* gets a second one, which closes nothing; InFlight has the steps of a sweep.
Sweep(r) ==
  /\ scene.sweeping /\ r \in OpenSlots
  /\ AppendEvent(Event("finished", r, 0))
  /\ swept' = swept \cup {e \in scene.executors : run[e] = r}
  /\ UNCHANGED <<scene, now, pc, run, began, booked, probe, limit, overtaken>>

\* Another event: of another backend, a warning, a scope violation, an
\* escalation, a proposal.
Noise ==
  /\ scene.noise
  /\ AppendEvent(Event("other", None, 0))
  /\ UNCHANGED <<scene, now, dispatches, probe, limit, overtaken>>

----------------------------------------------------------------------------
(* Cooldowns.                                                              *)

Without(es, gone) == Pick(es, DOMAIN es \ gone)

\* The active cooldowns a new report of the same limit replaces.
Superseded(k) == {i \in DOMAIN events : Active(events[i], now) /\ events[i].who = k}

\* The limits that a model which ran disproves.
Disproved(k) == k = probe.ok \/ (k \in Wide /\ probe.wide /\ probe.ok # None)

\* record_worker_backend_cooldown, by the coordinator, the selector, the
\* controller's on-cooldown hook or the budget guard.
RecordCooldown(k, reset) ==
  /\ k \in scene.keys
  /\ Save(Append(Without(events, Superseded(k)), Event("cooldown", k, reset)), now)
  /\ limit' = [limit EXCEPT ![k] = reset]
  /\ overtaken' = IF probe # None /\ Disproved(k) THEN overtaken \cup {k} ELSE overtaken \ {k}
  /\ UNCHANGED <<scene, now, dispatches, probe>>

\* The active limits and their resets, as every reader of cooldowns finds them.
Reported ==
  LET seen == Seen IN
  {<<seen[i].who, seen[i].reset>> : i \in {j \in DOMAIN seen : Active(seen[j], now)}}

ActiveKeys == {r[1] : r \in Reported}

\* refresh_cooldowns: the snapshot, and which models it gives to probe; an
\* account-wide limit has all of them probed.  The time of the snapshot is the
\* time of everything that follows.
BeginProbe ==
  /\ scene.probing /\ probe = None /\ ActiveKeys # {}
  /\ LET wide == ActiveKeys \cap Wide # {} IN
     probe' = [at |-> now, wide |-> wide, ok |-> None,
               todo |-> IF wide THEN Models ELSE ActiveKeys]
  /\ UNCHANGED <<scene, ledger, dispatches, limit, cut, overtaken>>

\* probe_model answers: limited or unreachable, and the next model is tried; or
\* it ran, which disproves its own limit and any that stops every model.
ProbeFails(m) ==
  /\ probe # None /\ probe.ok = None /\ m \in probe.todo
  /\ probe' = IF probe.todo = {m} THEN None ELSE [probe EXCEPT !.todo = @ \ {m}]
  /\ UNCHANGED <<scene, ledger, dispatches, limit, cut, overtaken>>

ProbeRuns(m) ==
  /\ probe # None /\ probe.ok = None /\ m \in probe.todo
  /\ probe' = [probe EXCEPT !.ok = m, !.todo = @ \ {m}]
  /\ limit' = [k \in Keys |-> IF k = m \/ (k \in Wide /\ probe.wide) THEN 0 ELSE limit[k]]
  /\ UNCHANGED <<scene, ledger, dispatches, cut, overtaken>>

\* Mutant: the cooldowns of all models go with the one that was probed.
ClearedAll == {i \in DOMAIN events : Active(events[i], probe.at)}

\* The active cooldowns a successful probe retracts.
Cleared ==
  {i \in DOMAIN events :
     /\ Active(events[i], probe.at)
     /\ IF events[i].who \in Models THEN events[i].who = probe.ok ELSE probe.wide}

\* clear_worker_backend_cooldown: what was retracted is noted in an event.
Clear ==
  /\ probe # None /\ probe.ok # None
  /\ LET kept == Without(events, Cleared) IN
     Save(IF Cleared = {} THEN kept
          ELSE Append(kept, [Event("other", None, 0) EXCEPT !.at = probe.at]), probe.at)
  /\ probe' = IF probe.todo = {} THEN None ELSE [probe EXCEPT !.ok = None, !.wide = FALSE]
  /\ UNCHANGED <<scene, now, dispatches, limit, overtaken>>

\* Mutant: one model's weekly limit retires the backend.
BlockedUntilAny(active) ==
  LET resets == {r[2] : r \in active} IN
  IF active = {} THEN 0 ELSE CHOOSE r \in resets : \A s \in resets : s <= r

Latest(active, k) ==
  LET resets == {r[2] : r \in {q \in active : q[1] = k}} IN
  IF resets = {} THEN 0 ELSE CHOOSE r \in resets : \A s \in resets : s <= r

\* worker_backend_blocked_until, from the active (key, reset) pairs; 0 when the
\* backend is not blocked.
BlockedUntil(active) ==
  LET wide == {Latest(active, k) : k \in Wide} \ {0}
      models == {Latest(active, m) : m \in Models} IN
  IF wide # {} THEN CHOOSE r \in wide : \A s \in wide : s <= r
  ELSE IF models # {} /\ 0 \notin models THEN CHOOSE r \in models : \A s \in models : r <= s
  ELSE 0

\* select_worker_backend sends a run to the backend when this is 0.
Horizon == BlockedUntil(Reported)

----------------------------------------------------------------------------
\* What is over is forgotten by the histories; a cooldown whose reset is farther
\* away than the seven days of the list is lost before it.
Tick ==
  /\ now < scene.end
  /\ now' = now + 1
  /\ limit' = [k \in Keys |-> IF limit[k] > now + 1 THEN limit[k] ELSE 0]
  /\ booked' = {b \in booked : b[1] + Day >= now + 1}
  /\ overtaken' = overtaken \cup {events[i].who : i \in {j \in DOMAIN events :
       Active(events[j], now + 1) /\ ~(events[j].at + Week >= now + 1)}}
  /\ UNCHANGED <<scene, events, pc, run, began, swept, probe, cut>>

Dispatching ==
  \E e \in scene.executors : Gate(e) \/ Start(e) \/ Finish(e) \/ Book(e) \/ Outcome(e) \/ Kill(e)
Cooling == \E k \in Keys, d \in 1..scene.reset : RecordCooldown(k, now + d)
Probing == BeginProbe \/ Clear \/ \E m \in Models : ProbeFails(m) \/ ProbeRuns(m)

Sweeping == \E r \in Runs : Sweep(r)

Next == Dispatching \/ Sweeping \/ Noise \/ Cooling \/ Probing \/ Tick

Spec == Init /\ [][Next]_vars

----------------------------------------------------------------------------
(* Properties.                                                             *)

TypeOK ==
  /\ scene \in Scenes /\ now \in 0..MaxTime
  /\ events \in Seq(Events) /\ Len(events) <= scene.keep
  /\ pc \in [scene.executors -> {"idle", "admitted", "running", "book", "outcome"}]
  /\ run \in [scene.executors -> Runs \cup {None}]
  /\ began \in [scene.executors -> 0..MaxTime]
  /\ swept \subseteq scene.executors
  /\ booked \subseteq (0..MaxTime) \X Nat
  /\ probe \in Probes \cup {None}
  /\ limit \in [Keys -> 0..(MaxTime + MaxReset)]
  /\ cut \subseteq Kinds /\ overtaken \subseteq Keys

Spent(window) == Cardinality({b \in booked : b[1] + window >= now})

\* The rolling caps, checked before a run and charged after it, are overshot by
\* fewer executions than there are executors, in the hour and in the day, unless
\* the list was cut while executions in it still counted.
RateBound ==
  "execution" \notin cut =>
    \A w \in {<<Hour, scene.hourCap>>, <<Day, scene.dayCap>>} :
      Spent(w[1]) < w[2] + Cardinality(scene.executors)

\* A dispatch that has recorded its start and is running holds an open slot for
\* the gates, for a day, unless its start was cut or a sweep took it for an
\* orphan: other runs that start, end or die do not close it.
SlotSeen ==
  "started" \notin cut =>
    \A e \in scene.executors :
      pc[e] = "running" /\ began[e] + Day >= now =>
        run[e] \in OpenSlots \/ e \in swept

\* A limit that was reported, has not reset and has not been disproved since by a
\* probe is in the list, once, with its latest reset: coalescing, the clearing
\* of other limits and other events do not lose it.  Three things do: the cut, a
\* probe that answered before the report and clears after it, and seven days, if
\* the reset is farther away.
CooldownKept ==
  "cooldown" \notin cut =>
    \A k \in Keys \ overtaken :
      limit[k] > now => {r \in Reported : r[1] = k} = {<<k, limit[k]>>}

\* The limits that are known leave no model to run at time t.
Stopped(t) ==
  (\E k \in Wide : limit[k] > t) \/ (Models # {} /\ \A m \in Models : limit[m] > t)

\* The backend is passed over exactly while the known limits stop every model,
\* and it stays stopped until the time that is given as the end of the block: one
\* model's weekly limit does not retire it, and no reset is awaited too long.
BlockedHonest ==
  "cooldown" \notin cut /\ overtaken = {} /\ probe = None =>
    /\ Horizon # 0 <=> Stopped(now)
    /\ \A t \in now..(Horizon - 1) : Stopped(t)
=============================================================================
