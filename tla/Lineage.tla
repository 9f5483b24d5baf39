------------------------------- MODULE Lineage -------------------------------
(***************************************************************************)
(* How the fleet multiplies its own work.  A task's outcome may create     *)
(* others: a goal that wants verification creates a test task, a failed    *)
(* test a repair goal, a goal whose diff is too wide one goal per chunk of *)
(* files, an improve task one goal per suggestion (board_worker/outcomes). *)
(* Three brakes bound the tree: the retry-count label along a lineage, a   *)
(* ceiling on open fleet tasks and a cap on the open descendants of a      *)
(* lineage root (board_worker/work_ceiling).  Both caps are read from a    *)
(* listing before the creation and nothing is held in between.  The last   *)
(* chunk to finish closes the task that was split.                         *)
(*                                                                         *)
(* The labels of a task are the fields of its record.  The labels that     *)
(* only the unblocking rules read are TaskBoard's subject.                 *)
(***************************************************************************)
EXTENDS Naturals, Sequences, FiniteSets

CONSTANTS
  Workers,
  Chunks,       \* max_chunks of split_files_into_chunks
  Suggestions,  \* suggestions read from improve-output.json, at most
  Ceiling,      \* max_open_fleet_tasks; 0 disables it
  Boards,       \* the situations to start from
  MaxTasks,     \* bound: tasks ever on the board
  MaxCount      \* bound: retry-counts

\* What comes between, once in a behaviour: a request of that kind fails, a
\* task is requeued, or claimed from a stale listing.  In "review" nothing
\* does, and the repository has await_review.
Scenes == {"list", "create", "write", "requeue", "stale", "review"}
Kinds == {"goal", "test", "improve"}

\* first: the authored task; cap: max_descendants_per_root, 0 disables it;
\* room: bound on the tasks of this board; kills: bound on the retry-count up to
\* which executors are killed, 0 for none.
ASSUME BoardAssumption ==
  Boards \subseteq [first : Kinds, cap : Nat, room : 1..MaxTasks, kills : 0..MaxCount, scene : Scenes]
ASSUME BrakeAssumption == /\ Ceiling \in Nat /\ Chunks \in Nat \ {0}
                          /\ Suggestions \in Nat /\ MaxTasks \in Nat
ASSUME FleetAssumption == IsFiniteSet(Workers)

MaxFollowUpRetries == 3   \* _MAX_FOLLOW_UP_RETRIES
MaxSplitRetries == 2

ASSUME CountAssumption == MaxCount \in Nat /\ MaxCount >= MaxFollowUpRetries

States == {"Ready", "Running", "Blocked", "In Review", "Done"}
Ids == 1..MaxTasks
NoId == 0

\* born: the retry-count it is created with; from: original-task-id; root:
\* lineage-root; split: the label source: scope-split.
Records == [kind : Kinds, state : States, born : 0..MaxFollowUpRetries,
            from : 0..MaxTasks, root : 0..MaxTasks, split : BOOLEAN]

Authored(k) == [kind |-> k, state |-> "Ready", born |-> 0, from |-> NoId, root |-> NoId,
                split |-> FALSE]

VARIABLES
  task,     \* the board: a sequence of records, a task's id is its index
  count,    \* task -> its retry-count on the board
  board,    \* the situation; its scene is "none" once it happened
  at,       \* worker -> its place
  on,       \* worker -> the task it works on
  job,      \* worker -> what its outcome creates
  left,     \* worker -> creations left
  carry,    \* worker -> the retry-count of the issue it carries
  closed,   \* history: tasks closed because their last chunk finished
  marks     \* history: <<task, what happened to it>>

work == <<at, on, job, left, carry>>
vars == <<task, count, board, work, closed, marks>>

Places == {"idle", "run", "brakes", "create", "suggest", "failed", "settle", "close", "closing"}
Jobs == {"none", "verify", "repair", "split"}
Marks == {"again", "early", "unread", "unwritten", "reviewed"}

TypeOK ==
  /\ task \in Seq(Records) /\ Len(task) <= board.room
  /\ count \in Seq(0..MaxCount) /\ Len(count) = Len(task)
  /\ board \in [first : Kinds, cap : Nat, room : 1..MaxTasks, kills : 0..MaxCount,
                scene : Scenes \cup {"none"}]
  /\ at \in [Workers -> Places]
  /\ on \in [Workers -> 0..MaxTasks]
  /\ \A w \in Workers : at[w] # "idle" => on[w] \in DOMAIN task
  /\ job \in [Workers -> Jobs]
  /\ left \in [Workers -> Nat]
  /\ carry \in [Workers -> 0..MaxCount]
  /\ closed \subseteq DOMAIN task
  /\ marks \subseteq Ids \X Marks

Init ==
  /\ board \in Boards
  /\ task = <<Authored(board.first)>>
  /\ count = <<0>>
  /\ at = [w \in Workers |-> "idle"]
  /\ on = [w \in Workers |-> NoId]
  /\ job = [w \in Workers |-> "none"]
  /\ left = [w \in Workers |-> 0]
  /\ carry = [w \in Workers |-> 0]
  /\ closed = {}
  /\ marks = {}

\* The issue the worker carries, read when it was claimed.  Of what the handlers
\* read from it only the retry-count is ever written again: that one is carry[w].
Mine(w) == task[on[w]]

Goto(w, p) == at' = [at EXCEPT ![w] = p]
Mark(t, m) == marks' = marks \cup {<<t, m>>}
Lost(f) == board.scene = f /\ board' = [board EXCEPT !.scene = "none"]
Sound == UNCHANGED board
Transition(t, s) == task' = [task EXCEPT ![t].state = s]

\* The label writes of a handler, when it makes any, replace the task's labels by
\* those of the carried issue: its retry-count comes back with them.
Relabel(w) == count' \in {count, [count EXCEPT ![on[w]] = carry[w]]}

\* increment_retry_count: the executor was killed.
Killed(w) == carry[w] < board.kills /\ count' = [count EXCEPT ![on[w]] = carry[w] + 1]

\* The worker forgets its task and polls again.
Rest(w) ==
  /\ Goto(w, "idle")
  /\ on' = [on EXCEPT ![w] = NoId]
  /\ job' = [job EXCEPT ![w] = "none"]
  /\ left' = [left EXCEPT ![w] = 0]
  /\ carry' = [carry EXCEPT ![w] = 0]

----------------------------------------------------------------------------
(* Claiming.                                                               *)

Claim(w, t) ==
  /\ at[w] = "idle"
  /\ \/ /\ task[t].state = "Ready" /\ Sound
        /\ carry' = [carry EXCEPT ![w] = count[t]]
        /\ UNCHANGED <<count, marks>>
     \* the listing and the transition are two requests: the task is taken, and
     \* its labels may be cleared of a blocked-reason as they were listed
     \/ /\ task[t].state # "Ready" /\ Lost("stale") /\ Mark(t, "again")
        /\ \E c \in task[t].born..count[t] :
             /\ carry' = [carry EXCEPT ![w] = c]
             /\ count' \in {count, [count EXCEPT ![t] = c]}
  /\ Transition(t, "Running")
  /\ Goto(w, "run")
  /\ on' = [on EXCEPT ![w] = t]
  /\ UNCHANGED <<job, left, closed>>

----------------------------------------------------------------------------
(* The brakes.                                                             *)

Open(r) == r.state # "Done"
FleetCreated(r) == r.from # NoId
FleetOpen == {t \in DOMAIN task : Open(task[t]) /\ FleetCreated(task[t])}
OpenDescendants(root) == {t \in DOMAIN task : Open(task[t]) /\ task[t].root = root}

\* Mutant: the cap refuses one creation too late.
RootReachedLate(root) == board.cap > 0 /\ Cardinality(OpenDescendants(root)) > board.cap

RootReached(root) == board.cap > 0 /\ Cardinality(OpenDescendants(root)) >= board.cap
CeilingReached == Ceiling > 0 /\ Cardinality(FleetOpen) >= Ceiling

\* lineage-root of the task, or the task itself.
LineageRoot(w) == IF Mine(w).root = NoId THEN on[w] ELSE Mine(w).root

RetriesLeft(w, j) == carry[w] < (IF j = "split" THEN MaxSplitRetries ELSE MaxFollowUpRetries)

\* Where the handler goes on once its creations are made or refused.
After(j) == IF j = "split" THEN "failed" ELSE "settle"

\* The worker turns to the creations its outcome asks for, if the lineage
\* has retries left.
Spawn(w, j, n) ==
  /\ job' = [job EXCEPT ![w] = j]
  /\ left' = [left EXCEPT ![w] = n]
  /\ Goto(w, IF RetriesLeft(w, j) THEN "brakes" ELSE After(j))
  /\ UNCHANGED <<task, count, board, on, carry, closed, marks>>

\* A listing that fails lets the creation through.
Unread(w) == Lost("list") /\ Mark(LineageRoot(w), "unread")

\* The two listings follow one another and are taken as one.
Brakes(w) ==
  /\ at[w] = "brakes"
  /\ LET reached == CeilingReached \/ RootReached(LineageRoot(w))
     IN  \/ reached /\ Goto(w, After(job[w])) /\ Sound /\ UNCHANGED marks
         \/ ~reached /\ Goto(w, "create") /\ Sound /\ UNCHANGED marks
         \/ reached /\ Goto(w, "create") /\ Unread(w)
  /\ UNCHANGED <<task, count, on, job, left, carry, closed>>

----------------------------------------------------------------------------
(* Creations.                                                              *)

\* Mutant: a child starts a lineage of its own.
ChildUnrooted(w) ==
  [kind |-> IF job[w] = "verify" THEN "test" ELSE "goal", state |-> "Ready",
   born |-> carry[w] + 1, from |-> on[w], root |-> on[w],
   split |-> Mine(w).split \/ job[w] = "split"]

\* The labels of a follow-up or of a chunk: source labels are inherited, the
\* one of a split too.
Child(w) ==
  [kind |-> IF job[w] = "verify" THEN "test" ELSE "goal", state |-> "Ready",
   born |-> carry[w] + 1, from |-> on[w], root |-> LineageRoot(w),
   split |-> Mine(w).split \/ job[w] = "split"]

\* The labels of an improve suggestion: neither retry-count nor lineage-root.
Suggested(w) ==
  [kind |-> "goal", state |-> "Ready", born |-> 0, from |-> on[w], root |-> NoId,
   split |-> Mine(w).split]

Room == Len(task) < board.room

\* create_issue for the follow-up, or for the next chunk.
Create(w) ==
  /\ at[w] = "create" /\ Room
  /\ task' = Append(task, Child(w))
  /\ count' = Append(count, Child(w).born)
  /\ left' = [left EXCEPT ![w] = @ - 1]
  /\ Goto(w, IF left[w] > 1 THEN "create" ELSE After(job[w]))
  /\ UNCHANGED <<board, on, job, carry, closed, marks>>

\* A chunk that cannot be created is skipped.
ChunkLost(w) ==
  /\ at[w] = "create" /\ job[w] = "split" /\ Lost("create")
  /\ left' = [left EXCEPT ![w] = @ - 1]
  /\ Goto(w, IF left[w] > 1 THEN "create" ELSE After(job[w]))
  /\ UNCHANGED <<task, count, on, job, carry, closed, marks>>

\* A follow-up that cannot be created ends the handler: the task is left
\* Running.
FollowUpRaises(w) ==
  /\ at[w] = "create" /\ job[w] # "split" /\ Lost("create")
  /\ IF job[w] = "verify"
       THEN Goto(w, "close") /\ UNCHANGED <<on, job, left, carry>>
       ELSE Rest(w)
  /\ Mark(on[w], "unwritten")
  /\ UNCHANGED <<task, count, closed>>

\* One improve suggestion; one that cannot be created is skipped.
Suggest(w) ==
  /\ at[w] = "suggest"
  /\ IF left[w] = 0
       THEN Goto(w, "close") /\ Sound /\ UNCHANGED <<task, count, left>>
       ELSE /\ left' = [left EXCEPT ![w] = @ - 1]
            /\ \/ /\ Room /\ Sound
                  /\ task' = Append(task, Suggested(w))
                  /\ count' = Append(count, Suggested(w).born)
               \/ Lost("create") /\ UNCHANGED <<task, count>>
            /\ UNCHANGED at
  /\ UNCHANGED <<on, job, carry, closed, marks>>

----------------------------------------------------------------------------
(* Outcomes.                                                               *)

\* handle_success of a goal that wants verification.
NeedsVerification(w) == at[w] = "run" /\ Mine(w).kind = "goal" /\ Spawn(w, "verify", 1)

\* handle_failure of a task whose diff is over the cap.
TooWide(w) == at[w] = "run" /\ \E n \in 1..Chunks : Spawn(w, "split", n)

\* handle_failure otherwise.
Fails(w) ==
  /\ at[w] = "run"
  /\ Goto(w, "failed")
  /\ UNCHANGED <<task, count, board, on, job, left, carry, closed, marks>>

\* A failed test asks for a repair.
Repair(w) == at[w] = "failed" /\ Mine(w).kind = "test" /\ Spawn(w, "repair", 1)

\* handle_success otherwise: the transition, or its failure, and the next step.
Succeeds(w) ==
  /\ at[w] = "run"
  /\ LET done == IF Mine(w).kind = "goal" /\ board.scene = "review" THEN "In Review" ELSE "Done"
     IN  \/ /\ Transition(on[w], done) /\ Relabel(w) /\ Sound
            /\ IF done = "Done" THEN UNCHANGED marks ELSE Mark(on[w], "reviewed")
            /\ IF Mine(w).kind = "improve"
                 THEN Goto(w, "suggest") /\ \E n \in 0..Suggestions : left' = [left EXCEPT ![w] = n]
                 ELSE Goto(w, "close") /\ UNCHANGED left
         \/ /\ Lost("write")
            /\ Mark(on[w], "unwritten")
            /\ Goto(w, "close")
            /\ UNCHANGED <<task, count, left>>
  /\ UNCHANGED <<on, job, carry, closed>>

\* The transition after the creations: Done for a goal being verified, Blocked
\* for a failure; then the labels of a failure, which count a kill.  A comment
\* that raises between the two leaves the labels as they are.
Settle(w) ==
  /\ at[w] = "settle" \/ (at[w] = "failed" /\ Mine(w).kind # "test")
  /\ \/ /\ Transition(on[w], IF job[w] = "verify" THEN "Done" ELSE "Blocked")
        /\ Relabel(w) \/ (job[w] # "verify" /\ Killed(w))
        /\ Sound /\ UNCHANGED marks
     \/ Lost("write") /\ Mark(on[w], "unwritten") /\ UNCHANGED <<task, count>>
  /\ IF job[w] = "verify"
       THEN Goto(w, "close") /\ UNCHANGED <<on, job, left, carry>>
       ELSE Rest(w)
  /\ UNCHANGED closed

\* The executor leaves no result, or an empty one because it was killed, or its
\* branch is out of scope: the labels, then fail_task, which leaves a task that
\* is Done meanwhile as it is.  Nothing is created.
Breaks(w) ==
  /\ at[w] = "run"
  /\ Relabel(w) \/ Killed(w)
  /\ \/ Mine(w).state = "Done" /\ Sound /\ UNCHANGED <<task, marks>>
     \/ Mine(w).state # "Done" /\ Transition(on[w], "Blocked") /\ Sound /\ UNCHANGED marks
     \/ Mine(w).state # "Done" /\ Lost("write") /\ Mark(on[w], "unwritten") /\ UNCHANGED task
  /\ Rest(w)
  /\ UNCHANGED closed

----------------------------------------------------------------------------
(* maybe_close_split_parent                                                *)

Siblings(p) == {t \in DOMAIN task : task[t].from = p /\ task[t].split}

\* Mutant: a sibling that failed counts as finished.
AllOthersSettled(w, p) == \A t \in Siblings(p) \ {on[w]} : task[t].state \in {"Done", "Blocked"}

AllOthersDone(w, p) == \A t \in Siblings(p) \ {on[w]} : task[t].state = "Done"

\* Mutant: only the chunks of the first split are looked at.
IsChunkFirst(w) == Mine(w).split /\ Mine(w).from # NoId /\ Mine(w).born = 1

IsChunk(w) == Mine(w).split /\ Mine(w).from # NoId

CloseCheck(w) ==
  /\ at[w] = "close"
  /\ LET p == Mine(w).from
     IN  \/ ~IsChunk(w) /\ Rest(w) /\ Sound /\ UNCHANGED marks
         \/ /\ IsChunk(w) /\ task[p].state # "Blocked"
            /\ Rest(w) /\ Sound /\ Mark(p, "early")
         \/ /\ IsChunk(w) /\ task[p].state = "Blocked" /\ ~AllOthersDone(w, p)
            /\ Rest(w) /\ Sound /\ UNCHANGED marks
         \/ /\ IsChunk(w) /\ task[p].state = "Blocked" /\ AllOthersDone(w, p)
            /\ Goto(w, "closing") /\ Sound /\ UNCHANGED <<on, job, left, carry, marks>>
         \/ IsChunk(w) /\ Rest(w) /\ Lost("list") /\ Mark(p, "unread")
  /\ UNCHANGED <<task, count, closed>>

ClosesParent(w) ==
  /\ at[w] = "closing"
  /\ \/ /\ Transition(Mine(w).from, "Done") /\ Sound
        /\ closed' = closed \cup {Mine(w).from}
        /\ UNCHANGED marks
     \/ /\ Lost("write")
        /\ Mark(Mine(w).from, "unwritten")
        /\ UNCHANGED <<task, closed>>
  /\ Rest(w)
  /\ UNCHANGED count

----------------------------------------------------------------------------
(* The rest of the fleet.                                                  *)

\* board_unblock returns a stale Running task to the queue, and a Blocked goal
\* with the labels it was listed with, a blocked-reason removed.
Requeue(t) ==
  /\ \/ task[t].state = "Running" /\ UNCHANGED count
     \/ /\ task[t].state = "Blocked" /\ task[t].kind # "test"
        /\ \E c \in task[t].born..count[t] : count' = [count EXCEPT ![t] = c]
  /\ Lost("requeue")
  /\ Transition(t, "Ready")
  /\ Mark(t, "again")
  /\ UNCHANGED <<work, closed>>

\* The pull request of a task in review is merged.
Merge(t) ==
  /\ task[t].state = "In Review"
  /\ Transition(t, "Done")
  /\ UNCHANGED <<count, board, work, closed, marks>>

Next ==
  \/ \E w \in Workers :
       \/ \E t \in DOMAIN task : Claim(w, t)
       \/ NeedsVerification(w) \/ TooWide(w) \/ Fails(w) \/ Repair(w)
       \/ Succeeds(w) \/ Brakes(w) \/ Create(w) \/ ChunkLost(w)
       \/ FollowUpRaises(w) \/ Suggest(w) \/ Settle(w) \/ Breaks(w) \/ CloseCheck(w) \/ ClosesParent(w)
  \/ \E t \in DOMAIN task : Requeue(t) \/ Merge(t)

Spec == Init /\ [][Next]_vars

----------------------------------------------------------------------------
Marked(t) == {m \in Marks : <<t, m>> \in marks}
Authors == {t \in DOMAIN task : task[t].root = NoId}

\* The descendants of one lineage root that are open are bounded by the cap,
\* whatever the interleaving of the workers: each worker reads the board before
\* it creates and may add what it read room for, up to one split, after the
\* others did.  A chunk count is not part of the check, so a split overshoots
\* by itself.  Listings that fail lift the cap for that root, and a descendant
\* that a stale listing hands out again once it is Done is open on top.
RootBound ==
  board.cap > 0 =>
    \A r \in Authors :
      \/ Cardinality({t \in OpenDescendants(r) : "again" \notin Marked(t)})
           <= board.cap - 1 + Chunks * Cardinality(Workers)
      \/ "unread" \in Marked(r)

\* A lineage ends: every task made from another one is created with a higher
\* retry-count than that one was, in the same lineage, and never with one above
\* the cap; so a chain of follow-ups and chunks is at most three long however
\* often its members are requeued, killed and run again.  A kill counts the same
\* label up, past the cap too, and a worker with an older copy counts it down
\* again: never below what the task was created with.
LineageEnds ==
  \A t \in DOMAIN task :
    /\ task[t].born <= MaxFollowUpRetries /\ task[t].born <= count[t]
    /\ task[t].root # NoId =>
         /\ task[t].from \in DOMAIN task
         /\ task[t].born > task[task[t].from].born
         /\ IF task[task[t].from].root = NoId
              THEN task[t].root = task[t].from
              ELSE task[t].root = task[task[t].from].root

\* A task closed because "all scope-split children completed" has no child that
\* is still unfinished, unless the child's own outcome was not written or awaits
\* review, or the child or the closed task was handed out twice.
ClosedHonest ==
  \A p \in closed : \A t \in Siblings(p) :
    task[t].state = "Done" \/ Marked(t) # {} \/ "again" \in Marked(p)

\* A split task does not stay Blocked once all its children are done: whichever
\* order the last ones finish in, one of them sees the others Done.  The check
\* is made only by a child that finishes while the split task is Blocked and
\* the board can be read; a child may finish first, because it can be claimed
\* before the split task is Blocked.  A child that was itself split and closed
\* does not check its own parent: closing does not reach up the tree.
LastChildCloses ==
  (\A w \in Workers : at[w] = "idle") =>
    \A p \in DOMAIN task :
      task[p].state = "Blocked" /\ Siblings(p) # {} =>
        \/ Marked(p) # {}
        \/ \E t \in Siblings(p) : task[t].state # "Done" \/ Marked(t) # {} \/ t \in closed
=============================================================================
