---------------------------- MODULE LineageProofs ----------------------------
(***************************************************************************)
(* The types of the lineage model, the end of every lineage, the closing   *)
(* of split tasks and the cap on the descendants of a root, for any number *)
(* of workers, chunks and tasks and any setting of the caps.               *)
(***************************************************************************)
EXTENDS Lineage, TLAPS, FiniteSetTheorems

\* A worker that may create still has the retries it was granted, because the
\* issue it carries does not change while it creates; one that is about to close
\* has a parent to close.
Granted ==
  \A w \in Workers :
    /\ at[w] \in {"brakes", "create"} => job[w] # "none" /\ RetriesLeft(w, job[w]) /\ left[w] > 0
    /\ at[w] = "closing" => IsChunk(w)

\* Labels name tasks that are on the board.
Linked == \A t \in DOMAIN task : task[t].from \in 0..Len(task) /\ task[t].root \in 0..Len(task)

\* The issue a worker carries has at least the retry-count it was created with.
Carried == \A w \in Workers : at[w] # "idle" => task[on[w]].born <= carry[w]

Inv == TypeOK /\ Granted /\ Linked /\ LineageEnds /\ Carried

\* What a step may do to the counts on the board when it creates nothing.
Counted ==
  /\ count' \in Seq(0..MaxCount) /\ Len(count') = Len(task)
  /\ \A t \in DOMAIN task : task[t].born <= count'[t]

\* What no step does to a task that is on the board: only its state changes.
Kept ==
  /\ task' \in Seq(Records)
  /\ DOMAIN task \subseteq DOMAIN task'
  /\ \A t \in DOMAIN task :
       /\ task'[t].kind = task[t].kind /\ task'[t].born = task[t].born
       /\ task'[t].from = task[t].from /\ task'[t].root = task[t].root
       /\ task'[t].split = task[t].split

\* A transition writes the state of one task.
LEMMA TransitionKeeps ==
  ASSUME task \in Seq(Records), NEW t \in DOMAIN task, NEW s \in States, Transition(t, s)
  PROVE  Kept /\ Len(task') = Len(task) /\ DOMAIN task' = DOMAIN task
<1>0. task[t] \in Records
  OBVIOUS
<1>1. task[t] \in Records /\ "state" \in DOMAIN task[t]
  BY <1>0 DEF Records
<1>2. [task[t] EXCEPT !.state = s] \in Records
  BY <1>1 DEF Records
<1>3. task' \in Seq(Records) /\ Len(task') = Len(task) /\ DOMAIN task' = DOMAIN task
  BY <1>2 DEF Transition
<1>4. task'[t] = [task[t] EXCEPT !.state = s]
  BY DEF Transition
<1>5. \A u \in DOMAIN task : u # t => task'[u] = task[u]
  BY DEF Transition
<1>6. /\ task'[t].kind = task[t].kind /\ task'[t].born = task[t].born
      /\ task'[t].from = task[t].from /\ task'[t].root = task[t].root
      /\ task'[t].split = task[t].split
  BY <1>1, <1>4 DEF Records
<1> QED
  BY <1>3, <1>5, <1>6 DEF Kept

\* A creation adds one task at the end.
LEMMA AppendKeeps ==
  ASSUME task \in Seq(Records), NEW r \in Records, task' = Append(task, r)
  PROVE  /\ Kept
         /\ Len(task') = Len(task) + 1 /\ DOMAIN task' = DOMAIN task \cup {Len(task) + 1}
         /\ task'[Len(task) + 1] = r
<1>1. /\ task' \in Seq(Records)
      /\ Len(task') = Len(task) + 1 /\ DOMAIN task' = DOMAIN task \cup {Len(task) + 1}
      /\ task'[Len(task) + 1] = r
      /\ \A t \in DOMAIN task : task'[t] = task[t]
  OBVIOUS
<1> QED
  BY <1>1 DEF Kept

LEMMA SameKeeps ==
  ASSUME task \in Seq(Records), UNCHANGED task
  PROVE  Kept /\ Len(task') = Len(task) /\ DOMAIN task' = DOMAIN task
  BY DEF Kept

\* Every task on the board has its counts.
LEMMA CountTypes ==
  ASSUME TypeOK
  PROVE  /\ DOMAIN count = DOMAIN task
         /\ \A t \in DOMAIN task : count[t] \in 0..MaxCount /\ task[t].born \in 0..MaxFollowUpRetries
<1>1. count \in Seq(0..MaxCount) /\ Len(count) = Len(task)
  BY DEF TypeOK
<1>2. task \in Seq(Records)
  BY DEF TypeOK
<1>3. DOMAIN count = 1..Len(count) /\ \A t \in DOMAIN count : count[t] \in 0..MaxCount
  <2>1. DOMAIN count = 1..Len(count)
    BY <1>1
  <2>2. ASSUME NEW t \in DOMAIN count PROVE count[t] \in 0..MaxCount
    <3> DEFINE S == 0..MaxCount
    <3>1. count \in Seq(S)
      BY <1>1
    <3> HIDE DEF S
    <3>2. count[t] \in S
      BY <3>1
    <3> QED
      BY <3>2 DEF S
  <2> QED
    BY <2>1, <2>2
<1>4. DOMAIN task = 1..Len(task) /\ \A t \in DOMAIN task : task[t] \in Records
  BY <1>2
<1>5. \A r \in Records : r.born \in 0..MaxFollowUpRetries
  BY DEF Records
<1>6. DOMAIN count = DOMAIN task
  BY <1>1, <1>3, <1>4
<1>7. \A t \in DOMAIN task : count[t] \in 0..MaxCount
  BY <1>3, <1>6
<1>8. \A t \in DOMAIN task : task[t].born \in 0..MaxFollowUpRetries
  BY <1>4, <1>5
<1> QED
  BY <1>6, <1>7, <1>8

\* A creation adds one count.
LEMMA CountAdded ==
  ASSUME TypeOK, NEW c \in 0..MaxCount, count' = Append(count, c)
  PROVE  /\ count' \in Seq(0..MaxCount) /\ Len(count') = Len(task) + 1
         /\ \A t \in DOMAIN task : count'[t] = count[t]
         /\ count'[Len(task) + 1] = c
<1>1. count \in Seq(0..MaxCount) /\ Len(count) = Len(task)
  BY DEF TypeOK
<1>2. /\ count' \in Seq(0..MaxCount) /\ Len(count') = Len(count) + 1
      /\ \A t \in DOMAIN count : count'[t] = count[t]
      /\ count'[Len(count) + 1] = c
  BY <1>1
<1>3. DOMAIN count = DOMAIN task
  BY CountTypes
<1> QED
  BY <1>1, <1>2, <1>3

\* When no task is created, the labels stay linked and every lineage ends.
LEMMA LabelsKept ==
  ASSUME TypeOK, Linked, LineageEnds, Kept, Len(task') = Len(task), DOMAIN task' = DOMAIN task,
         Counted
  PROVE  Linked' /\ LineageEnds'
<1>1. Linked'
  BY DEF Kept, Linked
<1>2. LineageEnds'
  <2> SUFFICES ASSUME NEW t \in DOMAIN task
               PROVE  /\ task'[t].born <= MaxFollowUpRetries /\ task'[t].born <= count'[t]
                      /\ task'[t].root # NoId =>
                           /\ task'[t].from \in DOMAIN task
                           /\ task'[t].born > task'[task'[t].from].born
                           /\ IF task'[task'[t].from].root = NoId
                                THEN task'[t].root = task'[t].from
                                ELSE task'[t].root = task'[task'[t].from].root
    BY DEF LineageEnds
  <2> QED
    BY DEF Kept, LineageEnds, Counted
<1> QED
  BY <1>1, <1>2

\* A new task whose labels follow its maker's is linked and ends.
LEMMA LabelsMade ==
  ASSUME TypeOK, Linked, LineageEnds, Kept, NEW r \in Records, NEW o \in DOMAIN task,
         Len(task') = Len(task) + 1, DOMAIN task' = DOMAIN task \cup {Len(task) + 1},
         task'[Len(task) + 1] = r, r.from = o, r.root \in 0..Len(task),
         count' = Append(count, r.born),
         r.root # NoId =>
           /\ r.born > task[o].born
           /\ r.root = (IF task[o].root = NoId THEN o ELSE task[o].root)
  PROVE  Linked' /\ LineageEnds'
<1>0. Len(task) \in Nat /\ DOMAIN task = 1..Len(task)
  BY DEF TypeOK
<1>5. /\ \A t \in DOMAIN task : count'[t] = count[t]
      /\ count'[Len(task) + 1] = r.born
  <2>1. r.born \in 0..MaxCount
    BY CountAssumption DEF Records, MaxFollowUpRetries
  <2> QED
    BY <2>1, CountAdded
<1>1. Linked'
  <2> SUFFICES ASSUME NEW t \in DOMAIN task'
               PROVE  task'[t].from \in 0..Len(task') /\ task'[t].root \in 0..Len(task')
    BY DEF Linked
  <2>1. 0..Len(task) \subseteq 0..Len(task') /\ o \in 0..Len(task)
    BY <1>0
  <2>2. CASE t \in DOMAIN task
    <3>1. task'[t].from = task[t].from /\ task'[t].root = task[t].root
      BY <2>2 DEF Kept
    <3>2. task[t].from \in 0..Len(task) /\ task[t].root \in 0..Len(task)
      BY <2>2 DEF Linked
    <3> QED
      BY <2>1, <3>1, <3>2
  <2>3. CASE t = Len(task) + 1
    BY <2>1, <2>3
  <2> QED
    BY <2>2, <2>3
<1>2. ASSUME NEW t \in DOMAIN task
      PROVE  /\ task'[t].born <= MaxFollowUpRetries /\ task'[t].born <= count'[t]
             /\ task'[t].root # NoId =>
                  /\ task'[t].from \in DOMAIN task'
                  /\ task'[t].born > task'[task'[t].from].born
                  /\ IF task'[task'[t].from].root = NoId
                       THEN task'[t].root = task'[t].from
                       ELSE task'[t].root = task'[task'[t].from].root
  <2>1. /\ task'[t].born = task[t].born /\ task'[t].from = task[t].from
        /\ task'[t].root = task[t].root
    BY DEF Kept
  <2>2. task[t].born <= MaxFollowUpRetries /\ task[t].born <= count[t]
    BY DEF LineageEnds
  <2>3. task[t].root # NoId =>
          /\ task[t].from \in DOMAIN task /\ task[t].born > task[task[t].from].born
          /\ IF task[task[t].from].root = NoId
               THEN task[t].root = task[t].from
               ELSE task[t].root = task[task[t].from].root
    BY DEF LineageEnds
  <2>4. task[t].from \in DOMAIN task =>
          /\ task'[task[t].from].born = task[task[t].from].born
          /\ task'[task[t].from].root = task[task[t].from].root
    BY DEF Kept
  <2> QED
    BY <1>5, <2>1, <2>2, <2>3, <2>4 DEF Kept
<1>3. r.born <= MaxFollowUpRetries /\ r.born <= count'[Len(task) + 1]
  BY <1>5 DEF Records, MaxFollowUpRetries
<1>4. /\ r.from \in DOMAIN task'
      /\ r.root # NoId =>
           /\ r.born > task'[r.from].born
           /\ IF task'[r.from].root = NoId
                THEN r.root = r.from
                ELSE r.root = task'[r.from].root
  BY DEF Kept
<1> QED
  BY <1>1, <1>2, <1>3, <1>4 DEF LineageEnds

\* The grants of the workers that do not move are kept.
LEMMA OthersGranted ==
  ASSUME TypeOK, Granted, Kept, NEW w \in Workers,
         \A v \in Workers \ {w} :
           /\ at'[v] = at[v] /\ on'[v] = on[v] /\ job'[v] = job[v] /\ left'[v] = left[v]
           /\ carry'[v] = carry[v],
         at'[w] \in {"brakes", "create"} =>
           job'[w] # "none" /\ RetriesLeft(w, job[w])' /\ left'[w] > 0,
         at'[w] = "closing" => IsChunk(w)'
  PROVE  Granted'
<1> SUFFICES ASSUME NEW v \in Workers \ {w}
             PROVE  /\ at'[v] \in {"brakes", "create"} =>
                         job'[v] # "none" /\ RetriesLeft(v, job[v])' /\ left'[v] > 0
                    /\ at'[v] = "closing" => IsChunk(v)'
  BY DEF Granted
<1>1. at[v] # "idle" => on[v] \in DOMAIN task
  BY DEF TypeOK
<1>2. ASSUME at[v] # "idle"
      PROVE  /\ task'[on[v]].born = task[on[v]].born
             /\ task'[on[v]].split = task[on[v]].split
             /\ task'[on[v]].from = task[on[v]].from
  BY <1>1, <1>2 DEF Kept
<1> QED
  BY <1>2 DEF Granted, RetriesLeft, IsChunk, Mine

LEMMA InitInv == Init => Inv
<1> SUFFICES ASSUME Init PROVE Inv
  OBVIOUS
<1>1. board \in [first : Kinds, cap : Nat, room : 1..MaxTasks, kills : 0..MaxCount, scene : Scenes]
  BY BoardAssumption DEF Init
<1>2. board.first \in Kinds /\ board.room \in 1..MaxTasks
  BY <1>1
<1>3. Authored(board.first) \in Records
  BY <1>2, BrakeAssumption
  DEF Authored, Records, States, NoId, MaxFollowUpRetries
<1>4. /\ task \in Seq(Records) /\ Len(task) = 1 /\ DOMAIN task = {1}
      /\ task[1] = Authored(board.first)
  BY <1>3 DEF Init
<1>5. board \in [first : Kinds, cap : Nat, room : 1..MaxTasks, kills : 0..MaxCount,
                 scene : Scenes \cup {"none"}]
  BY <1>1
<1>6. /\ at \in [Workers -> Places] /\ on \in [Workers -> 0..MaxTasks]
      /\ job \in [Workers -> Jobs] /\ left \in [Workers -> Nat]
      /\ \A w \in Workers : at[w] = "idle"
      /\ closed = {} /\ marks = {}
  BY BrakeAssumption DEF Init, Places, Jobs, NoId
<1>10. /\ count \in Seq(0..MaxCount) /\ Len(count) = 1 /\ count[1] = 0
       /\ carry \in [Workers -> 0..MaxCount]
  BY CountAssumption DEF Init
<1>7. TypeOK
  BY <1>2, <1>4, <1>5, <1>6, <1>10, BrakeAssumption DEF TypeOK
<1>8. Granted /\ Carried
  BY <1>6 DEF Granted, Carried
<1>9. Linked /\ LineageEnds
  BY <1>4, <1>10 DEF Linked, LineageEnds, Authored, NoId, MaxFollowUpRetries
<1> QED
  BY <1>7, <1>8, <1>9 DEF Inv

\* The scene may be consumed; the rest of the situation stays.
BoardType == [first : Kinds, cap : Nat, room : 1..MaxTasks, kills : 0..MaxCount,
              scene : Scenes \cup {"none"}]

LEMMA BoardKept ==
  ASSUME board \in BoardType, NEW f, Sound \/ Lost(f)
  PROVE  board' \in BoardType /\ board'.room = board.room
<1>1. CASE Sound
  BY <1>1 DEF Sound
<1>2. CASE Lost(f)
  <2>1. "scene" \in DOMAIN board
    BY DEF BoardType
  <2> QED
    BY <1>2, <2>1 DEF Lost, BoardType
<1> QED
  BY <1>1, <1>2

\* The parts of TypeOK that concern the board, after a step that creates
\* nothing.
LEMMA TypesWithout ==
  ASSUME TypeOK, Kept, Len(task') = Len(task), DOMAIN task' = DOMAIN task,
         board' \in BoardType, board'.room = board.room,
         at' \in [Workers -> Places], on' \in [Workers -> 0..MaxTasks],
         \A w \in Workers : at'[w] # "idle" => on'[w] \in DOMAIN task,
         job' \in [Workers -> Jobs], left' \in [Workers -> Nat],
         Counted, carry' \in [Workers -> 0..MaxCount],
         closed' \subseteq DOMAIN task, marks' \subseteq Ids \X Marks
  PROVE  TypeOK'
  BY DEF TypeOK, Kept, BoardType, Counted

\* What the steps do to the counts.
LEMMA SameCounted ==
  ASSUME Inv, UNCHANGED count
  PROVE  Counted
  BY DEF Inv, TypeOK, LineageEnds, Counted

LEMMA CountWritten ==
  ASSUME Inv, NEW t \in DOMAIN task, NEW c \in 0..MaxCount, task[t].born <= c,
         count' = [count EXCEPT ![t] = c]
  PROVE  Counted
<1>1. count \in Seq(0..MaxCount) /\ Len(count) = Len(task) /\ task \in Seq(Records)
  BY DEF Inv, TypeOK
<1>2. \A u \in DOMAIN task : task[u].born <= count[u]
  BY DEF Inv, LineageEnds
<1>3. DOMAIN count = DOMAIN task
  BY <1>1
<1> QED
  BY <1>1, <1>2, <1>3 DEF Counted

LEMMA LabelWrites ==
  ASSUME Inv, NEW w \in Workers, at[w] # "idle", Relabel(w) \/ Killed(w)
  PROVE  Counted
<1>1. on[w] \in DOMAIN task /\ carry[w] \in 0..MaxCount /\ task[on[w]].born <= carry[w]
  BY DEF Inv, TypeOK, Carried
<1>2. CASE UNCHANGED count
  BY <1>2, SameCounted
<1>3. CASE count' = [count EXCEPT ![on[w]] = carry[w]]
  BY <1>1, <1>3, CountWritten
<1>4. CASE Killed(w)
  <2>1. carry[w] < board.kills /\ board.kills \in 0..MaxCount
    BY <1>4 DEF Killed, Inv, TypeOK
  <2>2. task[on[w]] \in Records
    BY <1>1 DEF Inv, TypeOK
  <2>3. carry[w] + 1 \in 0..MaxCount /\ task[on[w]].born <= carry[w] + 1
    BY <1>1, <2>1, <2>2, CountAssumption DEF Records
  <2> QED
    BY <1>1, <1>4, <2>3, CountWritten DEF Killed
<1> QED
  BY <1>2, <1>3, <1>4 DEF Relabel

\* Ids of tasks, of their makers and of their roots are in range.
LEMMA IdsInRange ==
  ASSUME TypeOK, Linked
  PROVE  /\ DOMAIN task \subseteq Ids /\ Len(task) \in Nat /\ DOMAIN task = 1..Len(task)
         /\ Len(task) <= MaxTasks
         /\ \A w \in Workers : at[w] # "idle" =>
              /\ on[w] \in DOMAIN task /\ Mine(w) \in Records
              /\ LineageRoot(w) \in DOMAIN task
              /\ IsChunk(w) => Mine(w).from \in DOMAIN task
<1>1. Len(task) \in Nat /\ DOMAIN task = 1..Len(task)
  BY DEF TypeOK
<1>2. board.room \in 1..MaxTasks /\ Len(task) <= board.room
  BY DEF TypeOK
<1>3. DOMAIN task \subseteq Ids /\ Len(task) <= MaxTasks
  BY <1>1, <1>2, BrakeAssumption DEF Ids
<1>4. ASSUME NEW w \in Workers, at[w] # "idle"
      PROVE  /\ on[w] \in DOMAIN task /\ Mine(w) \in Records
             /\ LineageRoot(w) \in DOMAIN task
             /\ IsChunk(w) => Mine(w).from \in DOMAIN task
  <2>1. on[w] \in DOMAIN task
    BY <1>4 DEF TypeOK
  <2>2. Mine(w) \in Records
    BY <2>1 DEF TypeOK, Mine
  <2>3. Mine(w).root \in 0..Len(task) /\ Mine(w).from \in 0..Len(task)
    BY <2>1 DEF Linked, Mine
  <2> QED
    BY <1>1, <2>1, <2>2, <2>3 DEF LineageRoot, IsChunk, NoId
<1> QED
  BY <1>1, <1>3, <1>4

\* A worker's move: its place, task, job, creations left and carried count become
\* p, o, j, n and c.
Moves(w, p, o, j, n, c) ==
  /\ at' = [at EXCEPT ![w] = p] /\ on' = [on EXCEPT ![w] = o]
  /\ job' = [job EXCEPT ![w] = j] /\ left' = [left EXCEPT ![w] = n]
  /\ carry' = [carry EXCEPT ![w] = c]

\* The move leaves the worker where it may be.
MayBe(p, o, j, n, c) ==
  /\ p \in Places /\ o \in 0..MaxTasks /\ j \in Jobs /\ n \in Nat /\ c \in 0..MaxCount
  /\ p # "idle" => o \in DOMAIN task /\ task[o].born <= c
  /\ p \in {"brakes", "create"} =>
       /\ j # "none" /\ n > 0
       /\ c < (IF j = "split" THEN MaxSplitRetries ELSE MaxFollowUpRetries)
  /\ p = "closing" => task[o].split /\ task[o].from # NoId

\* A step that creates nothing and moves one worker keeps the invariant.
LEMMA QuietStep ==
  ASSUME Inv, NEW w \in Workers, NEW p, NEW o, NEW j, NEW n, NEW c, Counted,
         Kept, Len(task') = Len(task), DOMAIN task' = DOMAIN task,
         board' \in BoardType, board'.room = board.room,
         Moves(w, p, o, j, n, c), MayBe(p, o, j, n, c),
         closed' \subseteq DOMAIN task, marks' \subseteq Ids \X Marks
  PROVE  Inv'
<1>1. TypeOK /\ Granted /\ Linked /\ LineageEnds /\ Carried
  BY DEF Inv
<1>2. /\ at \in [Workers -> Places] /\ on \in [Workers -> 0..MaxTasks]
      /\ job \in [Workers -> Jobs] /\ left \in [Workers -> Nat]
      /\ carry \in [Workers -> 0..MaxCount]
      /\ \A v \in Workers : at[v] # "idle" => on[v] \in DOMAIN task
  BY <1>1 DEF TypeOK
<1>3. /\ at' \in [Workers -> Places] /\ on' \in [Workers -> 0..MaxTasks]
      /\ job' \in [Workers -> Jobs] /\ left' \in [Workers -> Nat]
      /\ carry' \in [Workers -> 0..MaxCount]
      /\ \A v \in Workers : at'[v] # "idle" => on'[v] \in DOMAIN task
      /\ at'[w] = p /\ on'[w] = o /\ job'[w] = j /\ left'[w] = n /\ carry'[w] = c
      /\ \A v \in Workers \ {w} :
           /\ at'[v] = at[v] /\ on'[v] = on[v] /\ job'[v] = job[v] /\ left'[v] = left[v]
           /\ carry'[v] = carry[v]
  BY <1>2 DEF Moves, MayBe
<1>4. TypeOK'
  BY <1>1, <1>3, TypesWithout
<1>5. p # "idle" => /\ task'[o].born = task[o].born /\ task'[o].split = task[o].split
                    /\ task'[o].from = task[o].from
  BY DEF Kept, MayBe
<1>6. p \in {"brakes", "create"} => RetriesLeft(w, job[w])'
  BY <1>3, <1>5 DEF MayBe, RetriesLeft, Mine
<1>7. p = "closing" => IsChunk(w)'
  BY <1>3, <1>5 DEF MayBe, IsChunk, Mine
<1>8. Granted'
  <2>1. p \in {"brakes", "create"} => j # "none" /\ n > 0
    BY DEF MayBe
  <2> QED
    BY <1>1, <1>3, <1>6, <1>7, <2>1, OthersGranted
<1>9. Linked' /\ LineageEnds'
  BY <1>1, LabelsKept
<1>10. Carried'
  <2> SUFFICES ASSUME NEW v \in Workers, at'[v] # "idle"
               PROVE  task'[on'[v]].born <= carry'[v]
    BY DEF Carried
  <2>1. CASE v = w
    BY <1>3, <1>5, <2>1 DEF MayBe
  <2>2. CASE v # w
    <3>1. at[v] # "idle" /\ on'[v] = on[v] /\ carry'[v] = carry[v] /\ on[v] \in DOMAIN task
      BY <1>2, <1>3, <2>2
    <3>2. task[on[v]].born <= carry[v] /\ task'[on[v]].born = task[on[v]].born
      BY <1>1, <3>1 DEF Carried, Kept
    <3> QED
      BY <3>1, <3>2
  <2> QED
    BY <2>1, <2>2
<1> QED
  BY <1>4, <1>8, <1>9, <1>10 DEF Inv

\* What a worker's step may use: the types of its own fields.
LEMMA OfWorker ==
  ASSUME Inv, NEW w \in Workers
  PROVE  /\ at[w] \in Places /\ on[w] \in 0..MaxTasks /\ job[w] \in Jobs /\ left[w] \in Nat
         /\ at \in [Workers -> Places] /\ on \in [Workers -> 0..MaxTasks]
         /\ job \in [Workers -> Jobs] /\ left \in [Workers -> Nat]
         /\ carry \in [Workers -> 0..MaxCount]
         /\ at[w] # "idle" => task[on[w]].born <= carry[w]
         /\ task \in Seq(Records) /\ board \in BoardType
         /\ closed \subseteq DOMAIN task /\ marks \subseteq Ids \X Marks
  BY DEF Inv, TypeOK, BoardType, Carried

LEMMA ClaimStep ==
  ASSUME Inv, NEW w \in Workers, NEW t \in DOMAIN task, Claim(w, t) PROVE Inv'
<1> USE OfWorker, IdsInRange DEF Inv
<1>1. Kept /\ Len(task') = Len(task) /\ DOMAIN task' = DOMAIN task
  BY TransitionKeeps DEF Claim, States
<1>2. board' \in BoardType /\ board'.room = board.room
  BY BoardKept DEF Claim
<1>0. /\ task[t].born \in 0..MaxFollowUpRetries
      /\ count[t] \in 0..MaxCount /\ task[t].born <= count[t]
  <2>1. TypeOK /\ LineageEnds
    OBVIOUS
  <2> QED
    BY <2>1, CountTypes DEF LineageEnds
<1>6. PICK c \in 0..MaxCount :
        /\ carry' = [carry EXCEPT ![w] = c] /\ task[t].born <= c
        /\ UNCHANGED count \/ count' = [count EXCEPT ![t] = c]
  <2>1. task[t].born..count[t] \subseteq 0..MaxCount
    BY <1>0, CountAssumption DEF MaxFollowUpRetries
  <2>2. CASE carry' = [carry EXCEPT ![w] = count[t]] /\ UNCHANGED count
    <3> DEFINE c == count[t]
    <3>1. c \in 0..MaxCount /\ task[t].born <= c /\ carry' = [carry EXCEPT ![w] = c] /\ UNCHANGED count
      BY <1>0, <2>2
    <3> HIDE DEF c
    <3> QED
      BY <3>1
  <2>3. CASE \E c \in task[t].born..count[t] :
               /\ carry' = [carry EXCEPT ![w] = c]
               /\ count' \in {count, [count EXCEPT ![t] = c]}
    <3>1. PICK c \in task[t].born..count[t] :
             /\ carry' = [carry EXCEPT ![w] = c]
             /\ count' \in {count, [count EXCEPT ![t] = c]}
      BY <2>3
    <3>2. c \in 0..MaxCount /\ task[t].born <= c
      BY <1>0, <2>1, <3>1
    <3> QED
      BY <3>1, <3>2
  <2> QED
    BY <2>2, <2>3 DEF Claim
<1>7. Counted
  BY <1>6, SameCounted, CountWritten
<1>3. Moves(w, "run", t, job[w], left[w], c)
  BY <1>6 DEF Claim, Goto, Moves
<1>4. MayBe("run", t, job[w], left[w], c)
  BY <1>6 DEF MayBe, Places, Ids
<1>5. closed' \subseteq DOMAIN task /\ marks' \subseteq Ids \X Marks
  BY DEF Claim, Mark, Marks
<1> QED
  BY <1>1, <1>2, <1>3, <1>4, <1>5, <1>7, QuietStep

\* A worker that turns to its creations.
LEMMA SpawnStep ==
  ASSUME Inv, NEW w \in Workers, at[w] # "idle", NEW j \in Jobs \ {"none"}, NEW n \in Nat \ {0},
         Spawn(w, j, n)
  PROVE  Inv'
<1> USE OfWorker, IdsInRange DEF Inv
<1> DEFINE p == IF RetriesLeft(w, j) THEN "brakes" ELSE After(j)
<1>1. Kept /\ Len(task') = Len(task) /\ DOMAIN task' = DOMAIN task /\ Counted
  BY SameKeeps, SameCounted DEF Spawn
<1>2. board' \in BoardType /\ board'.room = board.room
  BY DEF Spawn
<1>3. Moves(w, p, on[w], j, n, carry[w])
  BY DEF Spawn, Goto, Moves
<1>4. MayBe(p, on[w], j, n, carry[w])
  BY DEF MayBe, Places, After, RetriesLeft, Mine
<1>5. closed' \subseteq DOMAIN task /\ marks' \subseteq Ids \X Marks
  BY DEF Spawn
<1> HIDE DEF p
<1> QED
  BY <1>1, <1>2, <1>3, <1>4, <1>5, QuietStep

LEMMA BrakesStep == ASSUME Inv, NEW w \in Workers, Brakes(w) PROVE Inv'
<1> USE OfWorker, IdsInRange DEF Inv
<1>1. Kept /\ Len(task') = Len(task) /\ DOMAIN task' = DOMAIN task /\ Counted
  BY SameKeeps, SameCounted DEF Brakes
<1>2. board' \in BoardType /\ board'.room = board.room
  BY BoardKept DEF Brakes, Unread
<1>3. PICK p \in {After(job[w]), "create"} : Moves(w, p, on[w], job[w], left[w], carry[w])
  BY DEF Brakes, Goto, Moves
<1>4. MayBe(p, on[w], job[w], left[w], carry[w])
  BY DEF Brakes, MayBe, Places, After, Granted, RetriesLeft, Mine
<1>5. closed' \subseteq DOMAIN task /\ marks' \subseteq Ids \X Marks
  BY DEF Brakes, Unread, Mark, Marks
<1> QED
  BY <1>1, <1>2, <1>3, <1>4, <1>5, QuietStep

LEMMA ChunkLostStep == ASSUME Inv, NEW w \in Workers, ChunkLost(w) PROVE Inv'
<1> USE OfWorker, IdsInRange DEF Inv
<1> DEFINE p == IF left[w] > 1 THEN "create" ELSE After(job[w])
<1>1. Kept /\ Len(task') = Len(task) /\ DOMAIN task' = DOMAIN task /\ Counted
  BY SameKeeps, SameCounted DEF ChunkLost
<1>2. board' \in BoardType /\ board'.room = board.room
  BY BoardKept DEF ChunkLost
<1>3. Moves(w, p, on[w], job[w], left[w] - 1, carry[w])
  BY DEF ChunkLost, Goto, Moves
<1>4. MayBe(p, on[w], job[w], left[w] - 1, carry[w])
  BY DEF ChunkLost, MayBe, Places, After, Granted, RetriesLeft, Mine
<1>5. closed' \subseteq DOMAIN task /\ marks' \subseteq Ids \X Marks
  BY DEF ChunkLost
<1> HIDE DEF p
<1> QED
  BY <1>1, <1>2, <1>3, <1>4, <1>5, QuietStep

LEMMA RestIsMove ==
  ASSUME Inv, NEW w \in Workers, Rest(w)
  PROVE  Moves(w, "idle", NoId, "none", 0, 0) /\ MayBe("idle", NoId, "none", 0, 0)
  BY BrakeAssumption, CountAssumption DEF Rest, Goto, Moves, MayBe, Places, Jobs, NoId

LEMMA FollowUpRaisesStep == ASSUME Inv, NEW w \in Workers, FollowUpRaises(w) PROVE Inv'
<1> USE OfWorker, IdsInRange DEF Inv
<1>1. Kept /\ Len(task') = Len(task) /\ DOMAIN task' = DOMAIN task /\ Counted
  BY SameKeeps, SameCounted DEF FollowUpRaises
<1>2. board' \in BoardType /\ board'.room = board.room
  BY BoardKept DEF FollowUpRaises
<1>5. closed' \subseteq DOMAIN task /\ marks' \subseteq Ids \X Marks
  BY DEF FollowUpRaises, Mark, Marks
<1>3. CASE job[w] = "verify"
  <2>1. Moves(w, "close", on[w], job[w], left[w], carry[w])
    BY <1>3 DEF FollowUpRaises, Goto, Moves
  <2>2. MayBe("close", on[w], job[w], left[w], carry[w])
    BY DEF FollowUpRaises, MayBe, Places
  <2> QED
    BY <1>1, <1>2, <1>5, <2>1, <2>2, QuietStep
<1>4. CASE job[w] # "verify"
  <2>1. Rest(w)
    BY <1>4 DEF FollowUpRaises
  <2> QED
    BY <1>1, <1>2, <1>5, <2>1, RestIsMove, QuietStep
<1> QED
  BY <1>3, <1>4

LEMMA FailsStep == ASSUME Inv, NEW w \in Workers, Fails(w) PROVE Inv'
<1> USE OfWorker, IdsInRange DEF Inv
<1>1. Kept /\ Len(task') = Len(task) /\ DOMAIN task' = DOMAIN task /\ Counted
  BY SameKeeps, SameCounted DEF Fails
<1>2. /\ board' \in BoardType /\ board'.room = board.room
      /\ closed' \subseteq DOMAIN task /\ marks' \subseteq Ids \X Marks
  BY DEF Fails
<1>3. Moves(w, "failed", on[w], job[w], left[w], carry[w])
  BY DEF Fails, Goto, Moves
<1>4. MayBe("failed", on[w], job[w], left[w], carry[w])
  BY DEF Fails, MayBe, Places
<1> QED
  BY <1>1, <1>2, <1>3, <1>4, QuietStep

LEMMA SucceedsStep == ASSUME Inv, NEW w \in Workers, Succeeds(w) PROVE Inv'
<1> USE OfWorker, IdsInRange DEF Inv
<1> DEFINE done == IF Mine(w).kind = "goal" /\ board.scene = "review" THEN "In Review" ELSE "Done"
<1>0. at[w] # "idle" /\ on[w] \in DOMAIN task
  BY DEF Succeeds
<1>1. (UNCHANGED task /\ Lost("write")) \/ (Transition(on[w], done) /\ Sound)
  BY Zenon DEF Succeeds
<1>10. Counted
  <2>1. UNCHANGED count \/ Relabel(w)
    BY Zenon DEF Succeeds
  <2> QED
    BY <1>0, <2>1, SameCounted, LabelWrites
<1>2. Kept /\ Len(task') = Len(task) /\ DOMAIN task' = DOMAIN task
  <2>1. CASE UNCHANGED task
    BY <2>1, SameKeeps
  <2>2. CASE Transition(on[w], done)
    BY <1>0, <2>2, TransitionKeeps DEF States
  <2> QED
    BY <1>1, <2>1, <2>2
<1>3. board' \in BoardType /\ board'.room = board.room
  BY <1>1, BoardKept
<1>4. PICK n \in Nat : left' = [left EXCEPT ![w] = n]
  <2>1. CASE UNCHANGED left
    BY <2>1
  <2>2. CASE \E n \in 0..Suggestions : left' = [left EXCEPT ![w] = n]
    <3>1. 0..Suggestions \subseteq Nat
      BY BrakeAssumption
    <3> QED
      BY <2>2, <3>1, Zenon
  <2>3. UNCHANGED left \/ \E n \in 0..Suggestions : left' = [left EXCEPT ![w] = n]
    BY Zenon DEF Succeeds
  <2> QED
    BY <2>1, <2>2, <2>3
<1>5. PICK p \in {"close", "suggest"} : at' = [at EXCEPT ![w] = p]
  BY Zenon DEF Succeeds, Goto
<1>6. Moves(w, p, on[w], job[w], n, carry[w])
  BY <1>4, <1>5 DEF Succeeds, Moves
<1>7. MayBe(p, on[w], job[w], n, carry[w])
  BY <1>0 DEF MayBe, Places
<1>8. closed' \subseteq DOMAIN task
  BY DEF Succeeds
<1>9. marks' \subseteq Ids \X Marks
  <2>1. UNCHANGED marks \/ Mark(on[w], "reviewed") \/ Mark(on[w], "unwritten")
    BY Zenon DEF Succeeds
  <2> QED
    BY <1>0, <2>1 DEF Mark, Marks
<1> HIDE DEF done
<1> QED
  BY <1>2, <1>3, <1>6, <1>7, <1>8, <1>9, <1>10, QuietStep

LEMMA SettleStep == ASSUME Inv, NEW w \in Workers, Settle(w) PROVE Inv'
<1> USE OfWorker, IdsInRange DEF Inv
<1>0. at[w] # "idle" /\ on[w] \in DOMAIN task
  BY DEF Settle
<1>1. Kept /\ Len(task') = Len(task) /\ DOMAIN task' = DOMAIN task /\ Counted
  <2>1. Kept /\ Len(task') = Len(task) /\ DOMAIN task' = DOMAIN task
    BY <1>0, SameKeeps, TransitionKeeps DEF Settle, States
  <2>2. UNCHANGED count \/ Relabel(w) \/ Killed(w)
    BY DEF Settle
  <2> QED
    BY <1>0, <2>1, <2>2, SameCounted, LabelWrites
<1>2. board' \in BoardType /\ board'.room = board.room
  BY BoardKept DEF Settle
<1>5. closed' \subseteq DOMAIN task /\ marks' \subseteq Ids \X Marks
  BY <1>0 DEF Settle, Mark, Marks
<1>3. CASE job[w] = "verify"
  <2>1. Moves(w, "close", on[w], job[w], left[w], carry[w])
    BY <1>3 DEF Settle, Goto, Moves
  <2>2. MayBe("close", on[w], job[w], left[w], carry[w])
    BY <1>0 DEF MayBe, Places
  <2> QED
    BY <1>1, <1>2, <1>5, <2>1, <2>2, QuietStep
<1>4. CASE job[w] # "verify"
  <2>1. Rest(w)
    BY <1>4 DEF Settle
  <2> QED
    BY <1>1, <1>2, <1>5, <2>1, RestIsMove, QuietStep
<1> QED
  BY <1>3, <1>4

LEMMA BreaksStep == ASSUME Inv, NEW w \in Workers, Breaks(w) PROVE Inv'
<1> USE OfWorker, IdsInRange DEF Inv
<1>0. at[w] # "idle" /\ on[w] \in DOMAIN task
  BY DEF Breaks
<1>1. Kept /\ Len(task') = Len(task) /\ DOMAIN task' = DOMAIN task
  BY <1>0, SameKeeps, TransitionKeeps DEF Breaks, States
<1>2. board' \in BoardType /\ board'.room = board.room
  BY BoardKept DEF Breaks
<1>3. Counted
  BY <1>0, LabelWrites DEF Breaks
<1>4. closed' \subseteq DOMAIN task /\ marks' \subseteq Ids \X Marks
  BY <1>0 DEF Breaks, Mark, Marks
<1>5. Rest(w)
  BY DEF Breaks
<1> QED
  BY <1>1, <1>2, <1>3, <1>4, <1>5, RestIsMove, QuietStep

LEMMA CloseCheckStep == ASSUME Inv, NEW w \in Workers, CloseCheck(w) PROVE Inv'
<1> USE OfWorker, IdsInRange DEF Inv
<1>0. at[w] # "idle" /\ on[w] \in DOMAIN task
  BY DEF CloseCheck
<1>1. Kept /\ Len(task') = Len(task) /\ DOMAIN task' = DOMAIN task /\ Counted
  BY SameKeeps, SameCounted DEF CloseCheck
<1>2. board' \in BoardType /\ board'.room = board.room
  BY BoardKept DEF CloseCheck
<1>5. closed' \subseteq DOMAIN task /\ marks' \subseteq Ids \X Marks
  BY <1>0 DEF CloseCheck, Mark, Marks
<1>3. CASE Rest(w)
  BY <1>1, <1>2, <1>5, <1>3, RestIsMove, QuietStep
<1>4. CASE IsChunk(w) /\ Goto(w, "closing") /\ UNCHANGED <<on, job, left, carry>>
  <2>1. Moves(w, "closing", on[w], job[w], left[w], carry[w])
    BY <1>4 DEF Goto, Moves
  <2>2. MayBe("closing", on[w], job[w], left[w], carry[w])
    BY <1>0, <1>4 DEF MayBe, Places, IsChunk, Mine
  <2> QED
    BY <1>1, <1>2, <1>5, <2>1, <2>2, QuietStep
<1> QED
  BY <1>3, <1>4 DEF CloseCheck

LEMMA ClosesParentStep == ASSUME Inv, NEW w \in Workers, ClosesParent(w) PROVE Inv'
<1> USE OfWorker, IdsInRange DEF Inv
<1>0. Mine(w).from \in DOMAIN task
  BY DEF ClosesParent, Granted
<1>1. Kept /\ Len(task') = Len(task) /\ DOMAIN task' = DOMAIN task /\ Counted
  BY <1>0, SameKeeps, TransitionKeeps, SameCounted DEF ClosesParent, States
<1>2. board' \in BoardType /\ board'.room = board.room
  BY BoardKept DEF ClosesParent
<1>5. closed' \subseteq DOMAIN task /\ marks' \subseteq Ids \X Marks
  BY <1>0 DEF ClosesParent, Mark, Marks
<1>3. Rest(w)
  BY DEF ClosesParent
<1> QED
  BY <1>1, <1>2, <1>5, <1>3, RestIsMove, QuietStep

\* A step of the rest of the fleet writes one state.
LEMMA FleetStep ==
  ASSUME Inv, NEW t \in DOMAIN task, Requeue(t) \/ Merge(t) PROVE Inv'
<1>1. TypeOK /\ Granted /\ Linked /\ LineageEnds /\ Carried
  BY DEF Inv
<1>2. Kept /\ Len(task') = Len(task) /\ DOMAIN task' = DOMAIN task
  BY <1>1, TransitionKeeps DEF TypeOK, Requeue, Merge, States
<1>9. Counted
  <2>1. CASE UNCHANGED count
    BY <2>1, SameCounted
  <2>2. CASE \E c \in task[t].born..count[t] : count' = [count EXCEPT ![t] = c]
    <3>1. PICK c \in task[t].born..count[t] : count' = [count EXCEPT ![t] = c]
      BY <2>2
    <3>2. task[t].born \in 0..MaxFollowUpRetries /\ count[t] \in 0..MaxCount
      BY <1>1, CountTypes
    <3>3. c \in 0..MaxCount /\ task[t].born <= c
      BY <3>1, <3>2, CountAssumption DEF MaxFollowUpRetries
    <3> QED
      BY <3>1, <3>3, CountWritten
  <2> QED
    BY <2>1, <2>2 DEF Requeue, Merge
<1>3. board' \in BoardType /\ board'.room = board.room
  <2>1. board \in BoardType
    BY <1>1 DEF TypeOK, BoardType
  <2> QED
    BY <2>1, BoardKept DEF Requeue, Merge, Sound
<1>4. UNCHANGED <<at, on, job, left, carry, closed>>
  BY DEF Requeue, Merge, work
<1>5. marks' \subseteq Ids \X Marks
  <2>1. t \in Ids /\ marks \subseteq Ids \X Marks
    BY <1>1, IdsInRange DEF TypeOK
  <2>2. Mark(t, "again") \/ UNCHANGED marks
    BY DEF Requeue, Merge
  <2> QED
    BY <2>1, <2>2 DEF Mark, Marks
<1>6. TypeOK'
  BY <1>1, <1>2, <1>3, <1>4, <1>5, <1>9, TypesWithout DEF TypeOK
<1>7. Granted'
  <2> SUFFICES ASSUME NEW v \in Workers
               PROVE  /\ at[v] \in {"brakes", "create"} =>
                           job[v] # "none" /\ RetriesLeft(v, job[v])' /\ left[v] > 0
                      /\ at[v] = "closing" => IsChunk(v)'
    BY <1>4 DEF Granted
  <2>1. ASSUME at[v] # "idle"
        PROVE  /\ task'[on[v]].born = task[on[v]].born
               /\ task'[on[v]].split = task[on[v]].split
               /\ task'[on[v]].from = task[on[v]].from
    BY <1>1, <1>2, <2>1 DEF TypeOK, Kept
  <2> QED
    BY <1>1, <1>4, <2>1 DEF Granted, RetriesLeft, IsChunk, Mine
<1>8. Linked' /\ LineageEnds'
  BY <1>1, <1>2, <1>9, LabelsKept
<1>10. Carried'
  BY <1>1, <1>2, <1>4 DEF Carried, Kept, TypeOK
<1> QED
  BY <1>6, <1>7, <1>8, <1>10 DEF Inv

LEMMA RecordOf ==
  ASSUME NEW k \in Kinds, NEW s \in States, NEW r \in 0..MaxFollowUpRetries,
         NEW f \in 0..MaxTasks, NEW o \in 0..MaxTasks, NEW b \in BOOLEAN
  PROVE  [kind |-> k, state |-> s, born |-> r, from |-> f, root |-> o, split |-> b] \in Records
  BY DEF Records

\* The labels of a created task.
LEMMA ChildLabels ==
  ASSUME Inv, NEW w \in Workers, at[w] = "create"
  PROVE  /\ Child(w) \in Records
         /\ Child(w).from = on[w] /\ Child(w).root \in 0..Len(task)
         /\ Child(w).born > task[on[w]].born
         /\ Child(w).root = (IF task[on[w]].root = NoId THEN on[w] ELSE task[on[w]].root)
<1> USE OfWorker, IdsInRange DEF Inv
<1>1. RetriesLeft(w, job[w])
  BY DEF Granted
<1>2. Mine(w) \in Records /\ LineageRoot(w) \in 1..Len(task) /\ on[w] \in 1..Len(task)
  OBVIOUS
<1>3. carry[w] + 1 \in 0..MaxFollowUpRetries /\ carry[w] + 1 > Mine(w).born
  <2>1. Mine(w).born \in 0..MaxFollowUpRetries /\ Mine(w).born <= carry[w] /\ carry[w] \in Nat
    <3>1. Mine(w).born \in 0..MaxFollowUpRetries
      BY <1>2 DEF Records
    <3>2. Mine(w).born <= carry[w]
      BY DEF Mine
    <3>3. carry[w] \in 0..MaxCount
      OBVIOUS
    <3> QED
      BY <3>1, <3>2, <3>3
  <2>2. carry[w] < MaxFollowUpRetries
    BY <1>1, <2>1 DEF RetriesLeft, MaxSplitRetries, MaxFollowUpRetries
  <2> QED
    BY <2>1, <2>2 DEF MaxFollowUpRetries
<1>4. Mine(w).split \in BOOLEAN
  BY <1>2 DEF Records
<1>5. (Mine(w).split \/ job[w] = "split") \in BOOLEAN
  BY <1>4
<1>6. LineageRoot(w) \in 0..MaxTasks /\ on[w] \in 0..MaxTasks
  <2>1. Len(task) \in Nat /\ Len(task) <= MaxTasks
    OBVIOUS
  <2> QED
    BY <1>2, <2>1, BrakeAssumption
<1>7. Child(w) \in Records
  BY <1>3, <1>5, <1>6, Zenon DEF Child, Records, Kinds, States
<1>8. /\ Child(w).from = on[w] /\ Child(w).root = LineageRoot(w)
      /\ Child(w).born = carry[w] + 1
  BY DEF Child
<1> QED
  BY <1>2, <1>3, <1>7, <1>8 DEF LineageRoot, Mine

\* A step that creates one task and moves one worker keeps the types and the
\* grants.
LEMMA MakingStep ==
  ASSUME Inv, NEW w \in Workers, NEW r \in Records, NEW p, NEW n,
         Room, task' = Append(task, r), count' = Append(count, r.born), UNCHANGED <<board, closed, marks>>,
         Moves(w, p, on[w], job[w], n, carry[w]), MayBe(p, on[w], job[w], n, carry[w])
  PROVE  TypeOK' /\ Granted' /\ Carried'
<1> USE OfWorker, IdsInRange DEF Inv
<1>1. /\ Kept /\ Len(task') = Len(task) + 1
      /\ DOMAIN task' = DOMAIN task \cup {Len(task) + 1}
  BY AppendKeeps
<1>3. /\ at' \in [Workers -> Places] /\ on' \in [Workers -> 0..MaxTasks]
      /\ job' \in [Workers -> Jobs] /\ left' \in [Workers -> Nat]
      /\ carry' \in [Workers -> 0..MaxCount]
      /\ at'[w] = p /\ on'[w] = on[w] /\ job'[w] = job[w] /\ left'[w] = n
      /\ carry'[w] = carry[w]
      /\ \A v \in Workers \ {w} :
           /\ at'[v] = at[v] /\ on'[v] = on[v] /\ job'[v] = job[v] /\ left'[v] = left[v]
           /\ carry'[v] = carry[v]
  BY DEF Moves, MayBe
<1>4. \A v \in Workers : at'[v] # "idle" => on'[v] \in DOMAIN task'
  BY <1>1, <1>3 DEF TypeOK, MayBe
<1>5. Len(task') <= board'.room
  BY <1>1 DEF Room, TypeOK
<1>2. count' \in Seq(0..MaxCount) /\ Len(count') = Len(task')
  <2>1. r.born \in 0..MaxCount
    BY CountAssumption DEF Records, MaxFollowUpRetries
  <2> QED
    BY <1>1, <2>1 DEF TypeOK
<1>6. TypeOK'
  BY <1>1, <1>2, <1>3, <1>4, <1>5 DEF TypeOK, Kept
<1>7. p # "idle" => /\ task'[on[w]].born = task[on[w]].born
                    /\ task'[on[w]].split = task[on[w]].split
                    /\ task'[on[w]].from = task[on[w]].from
  BY <1>1 DEF Kept, MayBe
<1>8. p \in {"brakes", "create"} =>
        job[w] # "none" /\ n > 0 /\ RetriesLeft(w, job[w])'
  BY <1>3, <1>7 DEF MayBe, RetriesLeft, Mine
<1>9. p = "closing" => IsChunk(w)'
  BY <1>3, <1>7 DEF MayBe, IsChunk, Mine
<1>10. Granted'
  BY <1>1, <1>3, <1>6, <1>8, <1>9, OthersGranted
<1>11. Carried'
  <2> SUFFICES ASSUME NEW v \in Workers, at'[v] # "idle"
               PROVE  task'[on'[v]].born <= carry'[v]
    BY DEF Carried
  <2>0. p # "idle" => task[on[w]].born <= carry[w]
    BY DEF MayBe
  <2>1. CASE v = w
    BY <1>3, <1>7, <2>1, <2>0 DEF MayBe
  <2>2. CASE v # w
    <3>1. at[v] # "idle" /\ on'[v] = on[v] /\ carry'[v] = carry[v] /\ on[v] \in DOMAIN task
      BY <1>3, <2>2 DEF TypeOK
    <3>2. task[on[v]].born <= carry[v] /\ task'[on[v]].born = task[on[v]].born
      BY <1>1, <3>1 DEF Carried, Kept
    <3> QED
      BY <3>1, <3>2
  <2> QED
    BY <2>1, <2>2
<1> QED
  BY <1>6, <1>10, <1>11

LEMMA CreateStep == ASSUME Inv, NEW w \in Workers, Create(w) PROVE Inv'
<1> USE OfWorker, IdsInRange DEF Inv
<1> DEFINE p == IF left[w] > 1 THEN "create" ELSE After(job[w])
<1>1. at[w] = "create" /\ on[w] \in DOMAIN task
  BY DEF Create
<1>2. Moves(w, p, on[w], job[w], left[w] - 1, carry[w])
  BY DEF Create, Goto, Moves
<1>3. MayBe(p, on[w], job[w], left[w] - 1, carry[w])
  BY <1>1 DEF MayBe, Places, After, Granted, RetriesLeft, Mine
<1>4. /\ Room /\ task' = Append(task, Child(w)) /\ count' = Append(count, Child(w).born)
      /\ UNCHANGED <<board, closed, marks>>
  BY DEF Create
<1> HIDE DEF p
<1>5. TypeOK' /\ Granted' /\ Carried'
  BY <1>1, <1>2, <1>3, <1>4, ChildLabels, MakingStep
<1>6. Linked' /\ LineageEnds'
  BY <1>1, <1>4, ChildLabels, AppendKeeps, LabelsMade
<1> QED
  BY <1>5, <1>6

LEMMA SuggestStep == ASSUME Inv, NEW w \in Workers, Suggest(w) PROVE Inv'
<1> USE OfWorker, IdsInRange DEF Inv
<1>1. at[w] = "suggest" /\ on[w] \in DOMAIN task
  BY DEF Suggest
<1>2. CASE UNCHANGED <<task, count>>
  <2>1. Kept /\ Len(task') = Len(task) /\ DOMAIN task' = DOMAIN task /\ Counted
    BY <1>2, SameKeeps, SameCounted
  <2>2. board' \in BoardType /\ board'.room = board.room
    <3>1. Sound \/ Lost("create")
      BY DEF Suggest
    <3> QED
      BY <3>1, BoardKept
  <2>3. PICK p \in {"close", "suggest"}, n \in Nat : Moves(w, p, on[w], job[w], n, carry[w])
    <3>1. CASE left[w] = 0
      <4>1. Moves(w, "close", on[w], job[w], left[w], carry[w])
        BY <1>1, <3>1 DEF Suggest, Goto, Moves
      <4> QED
        BY <4>1
    <3>2. CASE left[w] # 0
      <4>1. Moves(w, "suggest", on[w], job[w], left[w] - 1, carry[w])
        BY <1>1, <3>2 DEF Suggest, Moves
      <4>2. left[w] - 1 \in Nat
        BY <3>2
      <4> QED
        BY <4>1, <4>2
    <3> QED
      BY <3>1, <3>2
  <2>4. MayBe(p, on[w], job[w], n, carry[w])
    BY <1>1 DEF MayBe, Places
  <2>5. closed' \subseteq DOMAIN task /\ marks' \subseteq Ids \X Marks
    BY DEF Suggest
  <2> QED
    BY <2>1, <2>2, <2>3, <2>4, <2>5, QuietStep
<1>3. CASE /\ left[w] # 0 /\ Room /\ task' = Append(task, Suggested(w)) /\ Sound
           /\ count' = Append(count, Suggested(w).born)
  <2>1. Mine(w).split \in BOOLEAN
    BY <1>1 DEF Records
  <2>2. Suggested(w) = [kind |-> "goal", state |-> "Ready", born |-> 0, from |-> on[w],
                        root |-> NoId, split |-> Mine(w).split]
    BY DEF Suggested
  <2>3. Suggested(w) \in Records /\ Suggested(w).from = on[w] /\ Suggested(w).root = NoId
    <3>1. /\ NoId \in 0..MaxTasks /\ 0 \in 0..MaxFollowUpRetries /\ on[w] \in 0..MaxTasks
          /\ "goal" \in Kinds /\ "Ready" \in States
      BY BrakeAssumption DEF MaxFollowUpRetries, NoId, Kinds, States
    <3>2. Suggested(w) \in Records
      BY <2>1, <2>2, <3>1, RecordOf
    <3> QED
      BY <2>2, <3>2
  <2>4. Moves(w, "suggest", on[w], job[w], left[w] - 1, carry[w])
    BY <1>1, <1>3 DEF Suggest, Moves
  <2>5. MayBe("suggest", on[w], job[w], left[w] - 1, carry[w])
    <3>1. left[w] - 1 \in Nat /\ on[w] \in 0..MaxTasks /\ carry[w] \in 0..MaxCount
      BY <1>3
    <3>2. task[on[w]].born <= carry[w] /\ job[w] \in Jobs
      BY <1>1
    <3> QED
      BY <1>1, <3>1, <3>2 DEF MayBe, Places
  <2>6. UNCHANGED <<board, closed, marks>>
    BY <1>3 DEF Suggest, Sound
  <2>7. TypeOK' /\ Granted' /\ Carried'
    BY <1>3, <2>3, <2>4, <2>5, <2>6, MakingStep
  <2>8. NoId \in 0..Len(task)
    BY DEF NoId
  <2>9. Linked' /\ LineageEnds'
    BY <1>1, <1>3, <2>3, <2>8, AppendKeeps, LabelsMade
  <2> QED
    BY <2>7, <2>9
<1> QED
  BY <1>2, <1>3 DEF Suggest

\* The conjunction is inductive.
LEMMA InvStep == Inv /\ [Next]_vars => Inv'
<1> SUFFICES ASSUME Inv, [Next]_vars PROVE Inv'
  OBVIOUS
<1>1. ASSUME NEW w \in Workers, NEW t \in DOMAIN task, Claim(w, t) PROVE Inv'
  BY <1>1, ClaimStep
<1>2. ASSUME NEW w \in Workers, NeedsVerification(w) \/ Repair(w) PROVE Inv'
  BY <1>2, SpawnStep DEF NeedsVerification, Repair, Jobs
<1>3. ASSUME NEW w \in Workers, TooWide(w) PROVE Inv'
  <2>1. PICK n \in 1..Chunks : Spawn(w, "split", n)
    BY <1>3 DEF TooWide
  <2>2. n \in Nat \ {0}
    BY BrakeAssumption
  <2> QED
    BY <1>3, <2>1, <2>2, SpawnStep DEF TooWide, Jobs
<1>4. ASSUME NEW w \in Workers,
             \/ Fails(w) \/ Succeeds(w) \/ Brakes(w) \/ Create(w) \/ ChunkLost(w)
             \/ FollowUpRaises(w) \/ Suggest(w) \/ Settle(w) \/ Breaks(w) \/ CloseCheck(w) \/ ClosesParent(w)
      PROVE  Inv'
  BY <1>4, FailsStep, SucceedsStep, BrakesStep, CreateStep, ChunkLostStep, FollowUpRaisesStep,
     SuggestStep, SettleStep, BreaksStep, CloseCheckStep, ClosesParentStep
<1>5. ASSUME NEW t \in DOMAIN task, Requeue(t) \/ Merge(t) PROVE Inv'
  BY <1>5, FleetStep
<1>6. CASE UNCHANGED vars
  BY <1>6 DEF vars, work, Inv, TypeOK, Granted, Linked, LineageEnds, Carried, RetriesLeft, IsChunk, Mine
<1> QED
  BY <1>1, <1>2, <1>3, <1>4, <1>5, <1>6 DEF Next

\* The specification keeps its types: every task has its retry-count, within the
\* bound on kills, no task is created with one past the cap, and no worker carries
\* a task that is not there.
THEOREM TypeCorrect == Spec => []TypeOK
<1>1. Inv => TypeOK
  BY DEF Inv
<1> QED
  BY <1>1, InitInv, InvStep, PTL DEF Spec

\* Every chain of follow-ups and chunks ends after three generations and keeps
\* its root, however its members are claimed twice, requeued, killed and run
\* again: neither a kill nor an older copy of the labels takes a count below what
\* the task was created with.
THEOREM EveryLineageEnds == Spec => []LineageEnds
<1>1. Inv => LineageEnds
  BY DEF Inv
<1> QED
  BY <1>1, InitInv, InvStep, PTL DEF Spec

----------------------------------------------------------------------------
(* What a closed task was closed for, and that one chunk closes it.        *)

\* Places of a worker before the state of its task is written, and after.
Before == {"run", "brakes", "create", "failed", "settle"}
Past == {"suggest", "close", "closing"}

Once(t) == "again" \notin Marked(t)
Settled(t) == task[t].state = "Done" \/ Marked(t) # {}
Free(t) == \A w \in Workers : on[w] # t

\* A split task that is being closed or was closed.
Shut(t) == t \in closed \/ \E w \in Workers : at[w] = "closing" /\ task[on[w]].from = t

\* A worker without a task is idle.
Rested == \A w \in Workers : at[w] = "idle" => on[w] = NoId

\* A task that was handed out once has one worker at most, none while it waits
\* in the queue or is Blocked, and is Running until that worker has written its
\* outcome.
Lone ==
  \A t \in DOMAIN task : Once(t) =>
    /\ task[t].state \in {"Ready", "Blocked"} => Free(t)
    /\ \A w, v \in Workers : on[w] = t /\ on[v] = t => w = v
    /\ \A w \in Workers : on[w] = t /\ at[w] \in Before => task[t].state = "Running"

\* A worker that is past the outcome of its task has settled it, and only a
\* task so marked is in review.
Behind ==
  /\ \A w \in Workers : at[w] \in Past => Settled(on[w])
  /\ \A t \in DOMAIN task : task[t].state = "In Review" => Marked(t) # {}

\* What a task is being closed for stays true: it has no worker that could add
\* a child, and its children are settled.
Sealed ==
  \A t \in DOMAIN task : Once(t) /\ Shut(t) =>
    /\ task[t].state \in {"Blocked", "Done"} /\ Free(t)
    /\ \A u \in Siblings(t) : Settled(u)

Alone == Rested /\ Lone /\ Behind /\ Sealed

\* The task has a mark after the step.
Noted(t) == \E m \in Marks : <<t, m>> \in marks'

Others(w) == \A v \in Workers \ {w} : at'[v] = at[v] /\ on'[v] = on[v]

\* A step of a worker that leaves the board as it is.
Walks(w) ==
  /\ at[w] # "idle" /\ UNCHANGED <<task, closed>> /\ marks \subseteq marks' /\ Others(w)
  /\ \/ /\ at'[w] = "idle" /\ on'[w] = NoId
        /\ at[w] \in Past /\ IsChunk(w) =>
             LET p == Mine(w).from
             IN  \/ Noted(p)
                 \/ task[p].state = "Blocked" /\ ~AllOthersDone(w, p)
     \/ on'[w] = on[w] /\ at[w] \in Before /\ at'[w] \in Before
     \/ on'[w] = on[w] /\ at'[w] \in {"suggest", "close"} /\ (at[w] = "suggest" \/ Noted(on[w]))
     \/ /\ on'[w] = on[w] /\ at[w] = "close" /\ at'[w] = "closing"
        /\ IsChunk(w) /\ task[Mine(w).from].state = "Blocked" /\ AllOthersDone(w, Mine(w).from)

\* A step of a worker that writes the outcome of its task.
Writes(w, s) ==
  /\ at[w] \in Before /\ Transition(on[w], s) /\ UNCHANGED closed
  /\ marks \subseteq marks' /\ Others(w)
  /\ \/ s = "Blocked" /\ at'[w] = "idle" /\ on'[w] = NoId
     \/ /\ s \in {"Done", "In Review"} /\ at'[w] \in {"suggest", "close"} /\ on'[w] = on[w]
        /\ s = "In Review" => Noted(on[w])

\* A step of a worker that adds a task.
Makes(w, r) ==
  /\ r \in Records /\ r.state = "Ready" /\ r.from = on[w] /\ task' = Append(task, r)
  /\ UNCHANGED <<closed, marks>> /\ Others(w) /\ on'[w] = on[w]
  /\ \/ at[w] \in Before /\ at'[w] \in Before
     \/ at[w] = "suggest" /\ at'[w] = "suggest"

LEMMA MarksStay ==
  ASSUME marks \subseteq marks'
  PROVE  \A t : /\ Marked(t) \subseteq Marked(t)'
                /\ Marked(t) # {} => Marked(t)' # {}
                /\ Once(t)' => Once(t)
                /\ Noted(t) <=> Marked(t)' # {}
  BY DEF Marked, Once, Noted

\* The state of one task is written.
LEMMA TransitionIs ==
  ASSUME task \in Seq(Records), NEW t \in DOMAIN task, NEW s \in States, Transition(t, s)
  PROVE  /\ Kept /\ DOMAIN task' = DOMAIN task
         /\ task'[t].state = s
         /\ \A u \in DOMAIN task : u # t => task'[u] = task[u]
<1>1. task[t] \in Records
  OBVIOUS
<1>2. "state" \in DOMAIN task[t]
  BY <1>1 DEF Records
<1> QED
  BY <1>2, TransitionKeeps DEF Transition

\* A step that creates nothing keeps the children of a task.
LEMMA SameSiblings ==
  ASSUME Kept, DOMAIN task' = DOMAIN task
  PROVE  \A p : Siblings(p)' = Siblings(p)
<1>1. \A t \in DOMAIN task : task'[t].from = task[t].from /\ task'[t].split = task[t].split
  BY DEF Kept
<1> QED
  BY <1>1 DEF Siblings

LEMMA WalksAlone ==
  ASSUME Inv, Alone, NEW w \in Workers, Walks(w) PROVE Alone'
<1>0. /\ task' = task /\ closed' = closed /\ marks \subseteq marks' /\ Others(w) /\ at[w] # "idle"
      /\ on[w] \in DOMAIN task
  BY DEF Walks, Inv, TypeOK
<1>1. \A t : /\ Marked(t) # {} => Marked(t)' # {}
             /\ Once(t)' => Once(t)
  BY <1>0, MarksStay
<1>2. \A t : Settled(t) => Settled(t)'
  BY <1>0, <1>1 DEF Settled
<1>3. \A t : Siblings(t)' = Siblings(t)
  BY <1>0 DEF Siblings
<1>4. on'[w] = on[w] \/ on'[w] = NoId
  BY DEF Walks
<1>5. \A t \in DOMAIN task : Free(t) => Free(t)'
  <2>1. \A t \in DOMAIN task : t # NoId
    BY DEF Inv, TypeOK, NoId
  <2> QED
    BY <1>0, <1>4, <2>1 DEF Free, Others
<1>6. Rested'
  BY <1>0 DEF Alone, Rested, Walks, Others, Before
<1>7. Lone'
  <2> SUFFICES ASSUME NEW t \in DOMAIN task, Once(t)'
               PROVE  /\ task[t].state \in {"Ready", "Blocked"} => Free(t)'
                      /\ \A u, v \in Workers : on'[u] = t /\ on'[v] = t => u = v
                      /\ \A v \in Workers : on'[v] = t /\ at'[v] \in Before => task[t].state = "Running"
    BY <1>0 DEF Lone
  <2>1. t # NoId
    BY DEF Inv, TypeOK, NoId
  <2>2. /\ task[t].state \in {"Ready", "Blocked"} => Free(t)
        /\ \A u, v \in Workers : on[u] = t /\ on[v] = t => u = v
        /\ \A v \in Workers : on[v] = t /\ at[v] \in Before => task[t].state = "Running"
    BY <1>1 DEF Alone, Lone
  <2>3. \A v \in Workers : on'[v] = t => on[v] = t
    BY <1>0, <1>4, <2>1 DEF Others
  <2>4. \A v \in Workers : on'[v] = t /\ at'[v] \in Before => at[v] \in Before
    BY <1>0, <2>1 DEF Others, Walks, Before, Past
  <2> QED
    BY <1>5, <2>2, <2>3, <2>4
<1>8. Behind'
  <2>1. ASSUME NEW v \in Workers, at'[v] \in Past PROVE Settled(on[v])'
    <3>1. CASE v # w
      BY <1>0, <1>2, <2>1, <3>1 DEF Others, Alone, Behind
    <3>2. CASE v = w /\ at[w] \in Past
      BY <1>2, <1>4, <2>1, <3>2 DEF Walks, Alone, Behind, Past
    <3>3. CASE v = w /\ at[w] \notin Past
      <4>1. on'[w] = on[w] /\ Noted(on[w])
        BY <2>1, <3>3 DEF Walks, Past, Before
      <4> QED
        BY <3>3, <4>1 DEF Settled, Marked, Noted
    <3> QED
      BY <3>1, <3>2, <3>3
  <2>2. \A t \in DOMAIN task' : task'[t].state = "In Review" => Marked(t)' # {}
    BY <1>0, <1>1 DEF Alone, Behind
  <2> QED
    BY <2>1, <2>2 DEF Behind
<1>9. Sealed'
  <2> SUFFICES ASSUME NEW t \in DOMAIN task, Once(t)', Shut(t)'
               PROVE  /\ task[t].state \in {"Blocked", "Done"} /\ Free(t)'
                      /\ \A u \in Siblings(t) : Settled(u)'
    BY <1>0, <1>3 DEF Sealed
  <2>1. CASE Shut(t)
    BY <1>1, <1>2, <1>5, <2>1 DEF Alone, Sealed
  <2>2. CASE ~Shut(t)
    <3>1. at[w] = "close" /\ at'[w] = "closing" /\ task[on[w]].from = t
      BY <1>0, <2>2 DEF Shut, Walks, Others, Before
    <3>2. task[t].state = "Blocked" /\ AllOthersDone(w, t)
      BY <3>1 DEF Walks, Mine, Before
    <3>3. Free(t)
      BY <1>1, <3>2 DEF Alone, Lone
    <3>4. Settled(on[w])
      BY <3>1 DEF Alone, Behind, Past
    <3>5. \A u \in Siblings(t) : Settled(u)
      BY <3>2, <3>4 DEF AllOthersDone, Settled
    <3> QED
      BY <1>2, <1>5, <3>2, <3>3, <3>5
  <2> QED
    BY <2>1, <2>2
<1> QED
  BY <1>6, <1>7, <1>8, <1>9 DEF Alone

LEMMA WritesAlone ==
  ASSUME Inv, Alone, NEW w \in Workers, NEW s \in States, Writes(w, s) PROVE Alone'
<1>0. /\ closed' = closed /\ marks \subseteq marks' /\ Others(w) /\ at[w] \in Before
      /\ on[w] \in DOMAIN task /\ task \in Seq(Records)
  BY DEF Writes, Inv, TypeOK, Before
<1>a. /\ Kept /\ DOMAIN task' = DOMAIN task /\ task'[on[w]].state = s
      /\ \A u \in DOMAIN task : u # on[w] => task'[u] = task[u]
  BY <1>0, TransitionIs DEF Writes
<1>b. \A t \in DOMAIN task : t # NoId
  BY DEF Inv, TypeOK, NoId
<1>1. \A t : /\ Marked(t) # {} => Marked(t)' # {}
             /\ Once(t)' => Once(t)
  BY <1>0, MarksStay
<1>c. Once(on[w]) => task[on[w]].state = "Running" /\ \A v \in Workers : on[v] = on[w] => v = w
  BY <1>0 DEF Alone, Lone
<1>d. ~Once(on[w]) => Marked(on[w]) # {}
  BY DEF Once
<1>2. \A t \in DOMAIN task : Settled(t) => Settled(t)'
  BY <1>a, <1>1, <1>c, <1>d DEF Settled
<1>3. \A t : Siblings(t)' = Siblings(t)
  BY <1>a, SameSiblings
<1>4. on'[w] = on[w] \/ on'[w] = NoId
  BY DEF Writes
<1>5. \A t \in DOMAIN task : Free(t) => Free(t)'
  BY <1>0, <1>4, <1>b DEF Free, Others
<1>6. Rested'
  BY <1>0 DEF Alone, Rested, Writes, Others
<1>7. Lone'
  <2> SUFFICES ASSUME NEW t \in DOMAIN task, Once(t)'
               PROVE  /\ task'[t].state \in {"Ready", "Blocked"} => Free(t)'
                      /\ \A u, v \in Workers : on'[u] = t /\ on'[v] = t => u = v
                      /\ \A v \in Workers : on'[v] = t /\ at'[v] \in Before => task'[t].state = "Running"
    BY <1>a DEF Lone
  <2>2. /\ task[t].state \in {"Ready", "Blocked"} => Free(t)
        /\ \A u, v \in Workers : on[u] = t /\ on[v] = t => u = v
        /\ \A v \in Workers : on[v] = t /\ at[v] \in Before => task[t].state = "Running"
    BY <1>1 DEF Alone, Lone
  <2>3. \A v \in Workers : on'[v] = t => on[v] = t
    BY <1>0, <1>4, <1>b DEF Others
  <2>4. ~(at'[w] \in Before)
    BY DEF Writes, Before
  <2>5. CASE t # on[w]
    BY <1>0, <1>a, <1>5, <2>2, <2>3, <2>4, <2>5 DEF Others
  <2>6. CASE t = on[w]
    <3>1. \A v \in Workers : on'[v] = t => v = w
      BY <2>2, <2>3, <2>6
    <3>2. s \in {"Ready", "Blocked"} => Free(t)'
      BY <1>b, <3>1 DEF Writes, Free
    <3> QED
      BY <1>a, <2>4, <2>6, <3>1, <3>2
  <2> QED
    BY <2>5, <2>6
<1>8. Behind'
  <2>1. ASSUME NEW v \in Workers, at'[v] \in Past PROVE Settled(on[v])'
    <3>1. CASE v # w
      <4>1. on[v] \in DOMAIN task /\ on'[v] = on[v] /\ Settled(on[v])
        BY <1>0, <2>1, <3>1 DEF Others, Alone, Behind, Inv, TypeOK, Past
      <4>2. Settled(on[v])' <=> (task'[on[v]].state = "Done" \/ Marked(on[v])' # {})
        BY <4>1 DEF Settled, Marked
      <4> QED
        BY <1>2, <4>1, <4>2 DEF Settled, Marked
    <3>2. CASE v = w
      <4>1. on'[w] = on[w] /\ (s = "Done" \/ Noted(on[w]))
        BY <2>1, <3>2 DEF Writes, Past
      <4> QED
        BY <1>a, <3>2, <4>1 DEF Settled, Marked, Noted
    <3> QED
      BY <3>1, <3>2
  <2>2. \A t \in DOMAIN task' : task'[t].state = "In Review" => Marked(t)' # {}
    BY <1>0, <1>a, <1>1, MarksStay DEF Alone, Behind, Writes
  <2> QED
    BY <2>1, <2>2 DEF Behind
<1>9. Sealed'
  <2> SUFFICES ASSUME NEW t \in DOMAIN task, Once(t)', Shut(t)'
               PROVE  /\ task'[t].state \in {"Blocked", "Done"} /\ Free(t)'
                      /\ \A u \in Siblings(t) : Settled(u)'
    BY <1>a, <1>3 DEF Sealed
  <2>1. Shut(t)
    <3>1. \A v \in Workers : at'[v] = "closing" => /\ at[v] = "closing" /\ on'[v] = on[v]
                                                  /\ task'[on[v]].from = task[on[v]].from
      BY <1>0, <1>a DEF Writes, Others, Kept, Inv, TypeOK
    <3> QED
      BY <1>0, <3>1 DEF Shut
  <2>2. /\ task[t].state \in {"Blocked", "Done"} /\ Free(t)
        /\ \A u \in Siblings(t) : Settled(u)
    BY <1>1, <2>1 DEF Alone, Sealed
  <2>3. t # on[w]
    BY <2>2 DEF Free
  <2>4. Siblings(t) \subseteq DOMAIN task
    BY DEF Siblings
  <2> QED
    BY <1>a, <1>2, <1>5, <2>2, <2>3, <2>4
<1> QED
  BY <1>6, <1>7, <1>8, <1>9 DEF Alone

LEMMA MakesAlone ==
  ASSUME Inv, Alone, NEW w \in Workers, NEW r, Makes(w, r) PROVE Alone'
<1>0. /\ closed' = closed /\ marks' = marks /\ Others(w) /\ at[w] # "idle" /\ on'[w] = on[w]
      /\ on[w] \in DOMAIN task /\ task \in Seq(Records) /\ closed \subseteq DOMAIN task
  BY DEF Makes, Inv, TypeOK, Before
<1> DEFINE new == Len(task) + 1
<1>a. /\ Kept /\ DOMAIN task' = DOMAIN task \cup {new} /\ task'[new] = r /\ new \notin DOMAIN task
      /\ \A u \in DOMAIN task : task'[u] = task[u]
  BY <1>0, AppendKeeps DEF Makes
<1>b. \A v \in Workers : on'[v] = on[v]
  BY <1>0 DEF Others
<1>c. \A v \in Workers : on[v] # new
  <2>1. \A v \in Workers : at[v] # "idle" => on[v] \in DOMAIN task
    BY DEF Inv, TypeOK
  <2>2. \A v \in Workers : at[v] = "idle" => on[v] = NoId
    BY DEF Alone, Rested
  <2>3. NoId # new
    BY <1>0 DEF NoId
  <2> QED
    BY <1>a, <2>1, <2>2, <2>3
<1>1. \A t : Marked(t)' = Marked(t) /\ Once(t)' = Once(t)
  BY <1>0 DEF Marked, Once
<1>2. \A t \in DOMAIN task : Settled(t)' = Settled(t)
  BY <1>a, <1>1 DEF Settled
<1>3. \A t : t # on[w] => Siblings(t)' = Siblings(t)
  BY <1>a DEF Siblings, Makes
<1>4. r.state = "Ready" /\ r.from = on[w]
  BY DEF Makes
<1>5. \A t : Free(t)' = Free(t)
  BY <1>b DEF Free
<1> HIDE DEF new
<1>6. Rested'
  BY <1>0, <1>b DEF Alone, Rested, Makes, Others, Before
<1>7. Lone'
  <2>1. \A v \in Workers : at'[v] \in Before => at[v] \in Before
    BY <1>0 DEF Makes, Others, Before
  <2>2. ASSUME NEW t \in DOMAIN task, Once(t)'
        PROVE  /\ task'[t].state \in {"Ready", "Blocked"} => Free(t)'
               /\ \A u, v \in Workers : on'[u] = t /\ on'[v] = t => u = v
               /\ \A v \in Workers : on'[v] = t /\ at'[v] \in Before => task'[t].state = "Running"
    BY <1>a, <1>b, <1>1, <1>5, <2>1, <2>2 DEF Alone, Lone
  <2>3. Free(new)
    BY <1>c DEF Free
  <2>4. \A v \in Workers : on'[v] # new
    BY <1>b, <1>c
  <2> QED
    BY <1>a, <1>5, <2>2, <2>3, <2>4 DEF Lone
<1>8. Behind'
  <2>1. ASSUME NEW v \in Workers, at'[v] \in Past PROVE Settled(on[v])'
    <3>1. at[v] \in Past
      BY <1>0, <2>1 DEF Makes, Others, Past, Before
    <3>2. on[v] \in DOMAIN task /\ Settled(on[v]) /\ on'[v] = on[v]
      BY <1>b, <3>1 DEF Alone, Behind, Inv, TypeOK, Past
    <3> QED
      BY <1>a, <1>1, <3>2 DEF Settled, Marked
  <2>2. \A t \in DOMAIN task' : task'[t].state = "In Review" => Marked(t)' # {}
    BY <1>a, <1>1, <1>4 DEF Alone, Behind
  <2> QED
    BY <2>1, <2>2 DEF Behind
<1>9. Sealed'
  <2> SUFFICES ASSUME NEW t \in DOMAIN task', Once(t)', Shut(t)'
               PROVE  /\ task'[t].state \in {"Blocked", "Done"} /\ Free(t)'
                      /\ \A u \in Siblings(t)' : Settled(u)'
    BY DEF Sealed
  <2>1. \A v \in Workers : at'[v] = "closing" => /\ at[v] = "closing" /\ on'[v] = on[v]
                                                /\ on[v] \in DOMAIN task
                                                /\ task'[on[v]].from = task[on[v]].from
    BY <1>0, <1>a DEF Makes, Others, Before, Inv, TypeOK
  <2>2. Shut(t)
    BY <1>0, <2>1 DEF Shut
  <2>3. t \in DOMAIN task
    <3>1. ASSUME NEW v \in Workers, at[v] = "closing" PROVE task[on[v]].from \in DOMAIN task
      BY <3>1, IdsInRange DEF Inv, Granted, Mine
    <3> QED
      BY <1>0, <2>2, <3>1 DEF Shut
  <2>4. /\ task[t].state \in {"Blocked", "Done"} /\ Free(t)
        /\ \A u \in Siblings(t) : Settled(u)
    BY <1>1, <2>2, <2>3 DEF Alone, Sealed
  <2>5. t # on[w]
    BY <2>4 DEF Free
  <2>6. Siblings(t) \subseteq DOMAIN task
    BY DEF Siblings
  <2> QED
    BY <1>a, <1>2, <1>3, <1>5, <2>3, <2>4, <2>5, <2>6
<1> QED
  BY <1>6, <1>7, <1>8, <1>9 DEF Alone

\* Steps that write the state of one task from outside: a claim, the end of a
\* split task, a requeue and a merge.  Each either marks the task or leaves it
\* settled.
Turns(t, s) ==
  /\ Transition(t, s) /\ marks \subseteq marks'
  /\ \/ ~Once(t)'
     \/ s = "Running" /\ task[t].state = "Ready"
     \/ s = "Done"
  /\ s # "In Review"

LEMMA TurnsKeeps ==
  ASSUME Inv, NEW t \in DOMAIN task, NEW s \in States, Turns(t, s)
  PROVE  /\ Kept /\ DOMAIN task' = DOMAIN task /\ task'[t].state = s
         /\ \A u \in DOMAIN task : u # t => task'[u] = task[u]
         /\ \A u : /\ Marked(u) # {} => Marked(u)' # {}
                   /\ Once(u)' => Once(u)
         /\ \A u \in DOMAIN task : Settled(u) => Settled(u)'
         /\ \A u : Siblings(u)' = Siblings(u)
<1>1. /\ Kept /\ DOMAIN task' = DOMAIN task /\ task'[t].state = s
      /\ \A u \in DOMAIN task : u # t => task'[u] = task[u]
  BY TransitionIs DEF Turns, Inv, TypeOK
<1>2. \A u : /\ Marked(u) # {} => Marked(u)' # {}
             /\ Once(u)' => Once(u)
  BY MarksStay DEF Turns
<1>3. ~Once(t)' => Marked(t)' # {}
  BY DEF Once
<1>4. \A u \in DOMAIN task : Settled(u) => Settled(u)'
  BY <1>1, <1>2, <1>3 DEF Settled, Turns
<1> QED
  BY <1>1, <1>2, <1>4, SameSiblings

\* Without a worker that moves.
LEMMA TurnsAlone ==
  ASSUME Inv, Alone, NEW t \in DOMAIN task, NEW s \in States, Turns(t, s),
         UNCHANGED <<at, on, closed>>,
         Once(t)' => task[t].state = "In Review" /\ s = "Done"
  PROVE  Alone'
<1>1. /\ Kept /\ DOMAIN task' = DOMAIN task /\ task'[t].state = s
      /\ \A u \in DOMAIN task : u # t => task'[u] = task[u]
      /\ \A u : /\ Marked(u) # {} => Marked(u)' # {}
                /\ Once(u)' => Once(u)
      /\ \A u \in DOMAIN task : Settled(u) => Settled(u)'
      /\ \A u : Siblings(u)' = Siblings(u)
  BY TurnsKeeps
<1>2. at' = at /\ on' = on /\ closed' = closed
  OBVIOUS
<1>3. \A u : Free(u)' = Free(u)
  BY <1>2 DEF Free
<1>6. Rested'
  BY <1>2 DEF Alone, Rested
<1>7. Lone'
  <2> SUFFICES ASSUME NEW u \in DOMAIN task, Once(u)'
               PROVE  /\ task'[u].state \in {"Ready", "Blocked"} => Free(u)'
                      /\ \A w, v \in Workers : on'[w] = u /\ on'[v] = u => w = v
                      /\ \A w \in Workers : on'[w] = u /\ at'[w] \in Before => task'[u].state = "Running"
    BY <1>1 DEF Lone
  <2>1. /\ task[u].state \in {"Ready", "Blocked"} => Free(u)
        /\ \A w, v \in Workers : on[w] = u /\ on[v] = u => w = v
        /\ \A w \in Workers : on[w] = u /\ at[w] \in Before => task[u].state = "Running"
    BY <1>1 DEF Alone, Lone
  <2> QED
    BY <1>1, <1>2, <1>3, <2>1
<1>8. Behind'
  <2>1. ASSUME NEW v \in Workers, at'[v] \in Past PROVE Settled(on[v])'
    <3>1. on[v] \in DOMAIN task /\ Settled(on[v]) /\ on'[v] = on[v]
      BY <1>2, <2>1 DEF Alone, Behind, Inv, TypeOK, Past
    <3>2. Settled(on[v])' <=> (task'[on[v]].state = "Done" \/ Marked(on[v])' # {})
      BY <3>1 DEF Settled, Marked
    <3> QED
      BY <1>1, <3>1, <3>2 DEF Settled, Marked
  <2>2. \A u \in DOMAIN task' : task'[u].state = "In Review" => Marked(u)' # {}
    BY <1>1 DEF Alone, Behind, Turns
  <2> QED
    BY <2>1, <2>2 DEF Behind
<1>9. Sealed'
  <2> SUFFICES ASSUME NEW u \in DOMAIN task, Once(u)', Shut(u)'
               PROVE  /\ task'[u].state \in {"Blocked", "Done"} /\ Free(u)
                      /\ \A v \in Siblings(u) : Settled(v)'
    BY <1>1, <1>3 DEF Sealed
  <2>1. Shut(u)
    <3>1. \A v \in Workers : at[v] = "closing" => task'[on[v]].from = task[on[v]].from
      BY <1>1 DEF Kept, Inv, TypeOK
    <3> QED
      BY <1>2, <3>1 DEF Shut
  <2>2. /\ task[u].state \in {"Blocked", "Done"} /\ Free(u)
        /\ \A v \in Siblings(u) : Settled(v)
    BY <1>1, <2>1 DEF Alone, Sealed
  <2>3. Siblings(u) \subseteq DOMAIN task
    BY DEF Siblings
  <2> QED
    BY <1>1, <2>2, <2>3
<1> QED
  BY <1>6, <1>7, <1>8, <1>9 DEF Alone

LEMMA ClaimAlone ==
  ASSUME Inv, Alone, NEW w \in Workers, NEW t \in DOMAIN task, Claim(w, t) PROVE Alone'
<1>0. /\ at[w] = "idle" /\ at'[w] = "run" /\ on'[w] = t /\ Others(w) /\ closed' = closed
      /\ marks \subseteq marks' /\ t \in Ids
  BY IdsInRange DEF Claim, Goto, Others, Inv, TypeOK, Mark
<1>a. Once(t)' => task[t].state = "Ready"
  BY <1>0 DEF Claim, Mark, Once, Marked, Marks
<1>1. /\ Kept /\ DOMAIN task' = DOMAIN task /\ task'[t].state = "Running"
      /\ \A u \in DOMAIN task : u # t => task'[u] = task[u]
      /\ \A u : /\ Marked(u) # {} => Marked(u)' # {}
                /\ Once(u)' => Once(u)
      /\ \A u \in DOMAIN task : Settled(u) => Settled(u)'
      /\ \A u : Siblings(u)' = Siblings(u)
  BY <1>0, <1>a, TurnsKeeps DEF Claim, Turns, States
<1>2. t # NoId /\ on[w] = NoId
  BY <1>0 DEF Inv, TypeOK, NoId, Alone, Rested
<1>3. \A u : u # t => (Free(u) => Free(u)')
  BY <1>0 DEF Free, Others
<1>6. Rested'
  BY <1>0 DEF Alone, Rested, Others
<1>7. Lone'
  <2> SUFFICES ASSUME NEW u \in DOMAIN task, Once(u)'
               PROVE  /\ task'[u].state \in {"Ready", "Blocked"} => Free(u)'
                      /\ \A x, v \in Workers : on'[x] = u /\ on'[v] = u => x = v
                      /\ \A v \in Workers : on'[v] = u /\ at'[v] \in Before => task'[u].state = "Running"
    BY <1>1 DEF Lone
  <2>1. /\ task[u].state \in {"Ready", "Blocked"} => Free(u)
        /\ \A x, v \in Workers : on[x] = u /\ on[v] = u => x = v
        /\ \A v \in Workers : on[v] = u /\ at[v] \in Before => task[u].state = "Running"
    BY <1>1 DEF Alone, Lone
  <2>2. CASE u # t
    BY <1>0, <1>1, <1>3, <2>1, <2>2 DEF Others
  <2>3. CASE u = t
    <3>1. Free(t)
      BY <1>a, <2>1, <2>3
    <3>2. \A v \in Workers : on'[v] = t => v = w
      BY <1>0, <3>1 DEF Free, Others
    <3> QED
      BY <1>1, <2>3, <3>2
  <2> QED
    BY <2>2, <2>3
<1>8. Behind'
  <2>1. ASSUME NEW v \in Workers, at'[v] \in Past PROVE Settled(on[v])'
    <3>0. v # w
      BY <1>0, <2>1 DEF Past
    <3>1. on[v] \in DOMAIN task /\ Settled(on[v]) /\ on'[v] = on[v]
      BY <1>0, <2>1, <3>0 DEF Alone, Behind, Inv, TypeOK, Past, Others
    <3>2. Settled(on[v])' <=> (task'[on[v]].state = "Done" \/ Marked(on[v])' # {})
      BY <3>1 DEF Settled, Marked
    <3> QED
      BY <1>1, <3>1, <3>2 DEF Settled, Marked
  <2>2. \A u \in DOMAIN task' : task'[u].state = "In Review" => Marked(u)' # {}
    BY <1>1 DEF Alone, Behind
  <2> QED
    BY <2>1, <2>2 DEF Behind
<1>9. Sealed'
  <2> SUFFICES ASSUME NEW u \in DOMAIN task, Once(u)', Shut(u)'
               PROVE  /\ task'[u].state \in {"Blocked", "Done"} /\ Free(u)'
                      /\ \A v \in Siblings(u) : Settled(v)'
    BY <1>1 DEF Sealed
  <2>1. Shut(u)
    <3>1. \A v \in Workers : at'[v] = "closing" =>
            /\ at[v] = "closing" /\ on'[v] = on[v] /\ task'[on[v]].from = task[on[v]].from
      BY <1>0, <1>1 DEF Kept, Inv, TypeOK, Others
    <3> QED
      BY <1>0, <3>1 DEF Shut
  <2>2. /\ task[u].state \in {"Blocked", "Done"} /\ Free(u)
        /\ \A v \in Siblings(u) : Settled(v)
    BY <1>1, <2>1 DEF Alone, Sealed
  <2>3. u # t
    BY <1>a, <2>2
  <2>4. Siblings(u) \subseteq DOMAIN task
    BY DEF Siblings
  <2> QED
    BY <1>1, <1>3, <2>2, <2>3, <2>4
<1> QED
  BY <1>6, <1>7, <1>8, <1>9 DEF Alone

\* The last chunk closes the task that was split.
LEMMA ShutsAlone ==
  ASSUME Inv, Alone, NEW w \in Workers, NEW p, at[w] = "closing", p = Mine(w).from,
         Transition(p, "Done"), closed' = closed \cup {p}, UNCHANGED marks, Rest(w)
  PROVE  Alone'
<1>0. /\ at'[w] = "idle" /\ on'[w] = NoId /\ Others(w) /\ marks \subseteq marks'
      /\ p \in DOMAIN task /\ on[w] \in DOMAIN task
  BY IdsInRange DEF Rest, Goto, Others, Inv, TypeOK, Granted
<1>1. /\ Kept /\ DOMAIN task' = DOMAIN task /\ task'[p].state = "Done"
      /\ \A u \in DOMAIN task : u # p => task'[u] = task[u]
      /\ \A u : /\ Marked(u) # {} => Marked(u)' # {}
                /\ Once(u)' => Once(u)
      /\ \A u \in DOMAIN task : Settled(u) => Settled(u)'
      /\ \A u : Siblings(u)' = Siblings(u)
  BY <1>0, TurnsKeeps DEF Turns, States
<1>2. \A t \in DOMAIN task : t # NoId
  BY DEF Inv, TypeOK, NoId
<1>3. \A u \in DOMAIN task : Free(u) => Free(u)'
  BY <1>0, <1>2 DEF Free, Others
<1>4. Shut(p)
  BY DEF Shut, Mine
<1>5. Once(p) => Free(p)
  BY <1>0, <1>4 DEF Alone, Sealed
<1>6. Rested'
  BY <1>0 DEF Alone, Rested, Others
<1>7. Lone'
  <2> SUFFICES ASSUME NEW u \in DOMAIN task, Once(u)'
               PROVE  /\ task'[u].state \in {"Ready", "Blocked"} => Free(u)'
                      /\ \A x, v \in Workers : on'[x] = u /\ on'[v] = u => x = v
                      /\ \A v \in Workers : on'[v] = u /\ at'[v] \in Before => task'[u].state = "Running"
    BY <1>1 DEF Lone
  <2>1. /\ task[u].state \in {"Ready", "Blocked"} => Free(u)
        /\ \A x, v \in Workers : on[x] = u /\ on[v] = u => x = v
        /\ \A v \in Workers : on[v] = u /\ at[v] \in Before => task[u].state = "Running"
    BY <1>1 DEF Alone, Lone
  <2>2. \A v \in Workers : on'[v] = u => v # w /\ on[v] = u /\ at'[v] = at[v]
    BY <1>0, <1>2 DEF Others
  <2>3. u = p => Free(u)
    BY <1>1, <1>5
  <2> QED
    BY <1>1, <1>3, <2>1, <2>2, <2>3 DEF Free
<1>8. Behind'
  <2>1. ASSUME NEW v \in Workers, at'[v] \in Past PROVE Settled(on[v])'
    <3>0. v # w
      BY <1>0, <2>1 DEF Past
    <3>1. on[v] \in DOMAIN task /\ Settled(on[v]) /\ on'[v] = on[v]
      BY <1>0, <2>1, <3>0 DEF Alone, Behind, Inv, TypeOK, Past, Others
    <3>2. Settled(on[v])' <=> (task'[on[v]].state = "Done" \/ Marked(on[v])' # {})
      BY <3>1 DEF Settled, Marked
    <3> QED
      BY <1>1, <3>1, <3>2 DEF Settled, Marked
  <2>2. \A u \in DOMAIN task' : task'[u].state = "In Review" => Marked(u)' # {}
    BY <1>1 DEF Alone, Behind
  <2> QED
    BY <2>1, <2>2 DEF Behind
<1>9. Sealed'
  <2> SUFFICES ASSUME NEW u \in DOMAIN task, Once(u)', Shut(u)'
               PROVE  /\ task'[u].state \in {"Blocked", "Done"} /\ Free(u)'
                      /\ \A v \in Siblings(u) : Settled(v)'
    BY <1>1 DEF Sealed
  <2>1. Shut(u)
    <3>1. \A v \in Workers : at'[v] = "closing" =>
            /\ at[v] = "closing" /\ on'[v] = on[v] /\ task'[on[v]].from = task[on[v]].from
      BY <1>0, <1>1 DEF Kept, Inv, TypeOK, Others
    <3>2. CASE u = p
      BY <1>4, <3>2
    <3>3. CASE u # p
      BY <3>1, <3>3 DEF Shut
    <3> QED
      BY <3>2, <3>3
  <2>2. /\ task[u].state \in {"Blocked", "Done"} /\ Free(u)
        /\ \A v \in Siblings(u) : Settled(v)
    BY <1>1, <2>1 DEF Alone, Sealed
  <2>4. Siblings(u) \subseteq DOMAIN task
    BY DEF Siblings
  <2> QED
    BY <1>1, <1>3, <2>2, <2>4
<1> QED
  BY <1>6, <1>7, <1>8, <1>9 DEF Alone

\* The last chunk writes the end of the split task.
Shuts(w) ==
  /\ at[w] = "closing" /\ Transition(Mine(w).from, "Done") /\ UNCHANGED marks
  /\ closed' = closed \cup {Mine(w).from} /\ Rest(w)

LEMMA MarkIs ==
  ASSUME NEW t, NEW m \in Marks, Mark(t, m)
  PROVE  marks \subseteq marks' /\ Noted(t)
  BY DEF Mark, Noted

LEMMA WalkForms ==
  ASSUME Inv, NEW w \in Workers,
         \/ NeedsVerification(w) \/ TooWide(w) \/ Fails(w) \/ Repair(w)
         \/ Brakes(w) \/ ChunkLost(w) \/ FollowUpRaises(w) \/ CloseCheck(w)
  PROVE  Walks(w)
<1> USE OfWorker
<1>1. ASSUME NEW j, NEW n, at[w] \in {"run", "failed"}, Spawn(w, j, n) PROVE Walks(w)
  BY <1>1 DEF Spawn, Goto, After, Walks, Others, Before
<1>2. CASE NeedsVerification(w) \/ TooWide(w) \/ Repair(w)
  BY <1>1, <1>2 DEF NeedsVerification, TooWide, Repair
<1>3. CASE Fails(w)
  BY <1>3 DEF Fails, Goto, Walks, Others, Before
<1>4. CASE Brakes(w)
  <2>1. marks \subseteq marks'
    BY <1>4 DEF Brakes, Unread, Mark
  <2>2. at[w] = "brakes" /\ UNCHANGED <<task, closed, on>> /\ \E p \in Before : Goto(w, p)
    BY <1>4 DEF Brakes, After, Before
  <2> QED
    BY <2>1, <2>2 DEF Goto, Walks, Others, Before
<1>5. CASE ChunkLost(w)
  BY <1>5 DEF ChunkLost, Goto, After, Walks, Others, Before
<1>6. CASE FollowUpRaises(w)
  <2>1. marks \subseteq marks' /\ Noted(on[w]) /\ at[w] = "create" /\ UNCHANGED <<task, closed>>
    BY <1>6, MarkIs DEF FollowUpRaises, Marks
  <2>2. \/ at' = [at EXCEPT ![w] = "close"] /\ UNCHANGED on
        \/ at' = [at EXCEPT ![w] = "idle"] /\ on' = [on EXCEPT ![w] = NoId]
    BY <1>6 DEF FollowUpRaises, Goto, Rest
  <2> QED
    BY <2>1, <2>2 DEF Walks, Others, Past
<1>7. CASE CloseCheck(w)
  <2> DEFINE p == Mine(w).from
  <2>0. at[w] = "close" /\ UNCHANGED <<task, closed>>
    BY <1>7 DEF CloseCheck
  <2>1. ASSUME Rest(w), marks \subseteq marks',
               IsChunk(w) => \/ Noted(p)
                             \/ task[p].state = "Blocked" /\ ~AllOthersDone(w, p)
        PROVE  Walks(w)
    BY <2>0, <2>1 DEF Walks, Rest, Goto, Others
  <2>2. CASE ~IsChunk(w) /\ Rest(w) /\ UNCHANGED marks
    BY <2>1, <2>2
  <2>3. CASE Rest(w) /\ \E m \in Marks : Mark(p, m)
    <3>1. marks \subseteq marks' /\ Noted(p)
      BY <2>3, MarkIs
    <3> QED
      BY <2>1, <2>3, <3>1
  <2>4. CASE task[p].state = "Blocked" /\ ~AllOthersDone(w, p) /\ Rest(w) /\ UNCHANGED marks
    BY <2>1, <2>4
  <2>5. CASE /\ IsChunk(w) /\ task[p].state = "Blocked" /\ AllOthersDone(w, p)
             /\ Goto(w, "closing") /\ UNCHANGED <<on, marks>>
    BY <2>0, <2>5 DEF Walks, Goto, Others
  <2> QED
    BY <1>7, <2>2, <2>3, <2>4, <2>5 DEF CloseCheck, Marks
<1> QED
  BY <1>2, <1>3, <1>4, <1>5, <1>6, <1>7

LEMMA WriteForms ==
  ASSUME Inv, NEW w \in Workers, Succeeds(w) \/ Settle(w) \/ Breaks(w)
  PROVE  Walks(w) \/ \E s \in States : Writes(w, s)
<1> USE OfWorker
<1>0. UNCHANGED closed /\ at[w] \in Before
  BY DEF Succeeds, Settle, Breaks, Before
<1>1. ASSUME Mark(on[w], "unwritten"), UNCHANGED task,
             \/ at' = [at EXCEPT ![w] = "close"] /\ UNCHANGED on
             \/ at' = [at EXCEPT ![w] = "idle"] /\ on' = [on EXCEPT ![w] = NoId]
      PROVE  Walks(w)
  <2>1. marks \subseteq marks' /\ Noted(on[w])
    BY <1>1, MarkIs DEF Marks
  <2> QED
    BY <1>0, <1>1, <2>1 DEF Walks, Others, Past, Before
<1>2. CASE Succeeds(w)
  <2> DEFINE done == IF Mine(w).kind = "goal" /\ board.scene = "review" THEN "In Review" ELSE "Done"
  <2>0. UNCHANGED on
    BY <1>2 DEF Succeeds
  <2>1. CASE Mark(on[w], "unwritten") /\ UNCHANGED task /\ Goto(w, "close")
    BY <1>1, <2>0, <2>1 DEF Goto
  <2>2. CASE /\ Transition(on[w], done)
             /\ IF done = "Done" THEN UNCHANGED marks ELSE Mark(on[w], "reviewed")
             /\ Goto(w, "suggest") \/ Goto(w, "close")
    <3>1. marks \subseteq marks' /\ (done = "In Review" => Noted(on[w]))
      BY <2>2, MarkIs DEF Marks
    <3>2. done \in {"Done", "In Review"} /\ done \in States
      BY DEF States
    <3>3. at'[w] \in {"suggest", "close"} /\ on'[w] = on[w] /\ Others(w)
      BY <2>0, <2>2 DEF Goto, Others
    <3> HIDE DEF done
    <3>4. Writes(w, done)
      BY <1>0, <2>2, <3>1, <3>2, <3>3 DEF Writes
    <3> QED
      BY <3>2, <3>4
  <2>3. \/ Mark(on[w], "unwritten") /\ UNCHANGED task /\ Goto(w, "close")
        \/ /\ Transition(on[w], done)
           /\ IF done = "Done" THEN UNCHANGED marks ELSE Mark(on[w], "reviewed")
           /\ Goto(w, "suggest") \/ Goto(w, "close")
    BY <1>2, Zenon DEF Succeeds
  <2> QED
    BY <2>1, <2>2, <2>3
<1>3. CASE Settle(w)
  <2>1. \/ job[w] = "verify" /\ at' = [at EXCEPT ![w] = "close"] /\ UNCHANGED on
        \/ job[w] # "verify" /\ at' = [at EXCEPT ![w] = "idle"] /\ on' = [on EXCEPT ![w] = NoId]
    BY <1>3 DEF Settle, Goto, Rest
  <2>2. CASE Mark(on[w], "unwritten") /\ UNCHANGED task
    BY <1>1, <2>1, <2>2
  <2>3. CASE Transition(on[w], IF job[w] = "verify" THEN "Done" ELSE "Blocked") /\ UNCHANGED marks
    <3>1. CASE job[w] = "verify"
      <4>1. Writes(w, "Done")
        BY <1>0, <2>1, <2>3, <3>1 DEF Writes, Others
      <4> QED
        BY <4>1 DEF States
    <3>2. CASE job[w] # "verify"
      <4>1. Writes(w, "Blocked")
        BY <1>0, <2>1, <2>3, <3>2 DEF Writes, Others
      <4> QED
        BY <4>1 DEF States
    <3> QED
      BY <3>1, <3>2
  <2> QED
    BY <1>3, <2>2, <2>3 DEF Settle
<1>4. CASE Breaks(w)
  <2>1. at' = [at EXCEPT ![w] = "idle"] /\ on' = [on EXCEPT ![w] = NoId]
    BY <1>4 DEF Breaks, Goto, Rest
  <2>2. CASE Mark(on[w], "unwritten") /\ UNCHANGED task
    BY <1>1, <2>1, <2>2
  <2>3. CASE UNCHANGED <<task, marks>>
    BY <1>0, <2>1, <2>3 DEF Walks, Others, Past, Before
  <2>4. CASE Transition(on[w], "Blocked") /\ UNCHANGED marks
    <3>1. Writes(w, "Blocked")
      BY <1>0, <2>1, <2>4 DEF Writes, Others
    <3> QED
      BY <3>1 DEF States
  <2> QED
    BY <1>4, <2>2, <2>3, <2>4 DEF Breaks
<1> QED
  BY <1>2, <1>3, <1>4

LEMMA MakeForms ==
  ASSUME Inv, NEW w \in Workers, Create(w) \/ Suggest(w)
  PROVE  Walks(w) \/ \E r : Makes(w, r)
<1> USE OfWorker
<1>1. CASE Create(w)
  <2>1. Child(w) \in Records /\ Child(w).from = on[w]
    BY <1>1, ChildLabels DEF Create
  <2>2. Child(w).state = "Ready"
    BY DEF Child
  <2>3. Makes(w, Child(w))
    BY <1>1, <2>1, <2>2 DEF Create, Makes, Goto, After, Others, Before
  <2> QED
    BY <2>3
<1>2. CASE Suggest(w)
  <2>0. at[w] = "suggest" /\ on[w] \in DOMAIN task /\ UNCHANGED <<on, closed, marks>>
    BY <1>2 DEF Suggest, Inv, TypeOK
  <2>1. CASE UNCHANGED task
    BY <1>2, <2>0, <2>1 DEF Suggest, Goto, Walks, Others
  <2>2. CASE task' = Append(task, Suggested(w)) /\ UNCHANGED at
    <3>1. Mine(w).split \in BOOLEAN
      BY <2>0, IdsInRange DEF Records, Inv
    <3>2. /\ NoId \in 0..MaxTasks /\ 0 \in 0..MaxFollowUpRetries /\ on[w] \in 0..MaxTasks
          /\ "goal" \in Kinds /\ "Ready" \in States
      BY BrakeAssumption DEF MaxFollowUpRetries, NoId, Kinds, States
    <3>3. Suggested(w) \in Records
      BY <3>1, <3>2, RecordOf DEF Suggested
    <3>4. Suggested(w).state = "Ready" /\ Suggested(w).from = on[w]
      BY DEF Suggested
    <3>5. Makes(w, Suggested(w))
      BY <2>0, <2>2, <3>3, <3>4 DEF Makes, Others
    <3> QED
      BY <3>5
  <2> QED
    BY <1>2, <2>1, <2>2 DEF Suggest
<1> QED
  BY <1>1, <1>2

LEMMA CloseForms ==
  ASSUME Inv, NEW w \in Workers, ClosesParent(w) PROVE Walks(w) \/ Shuts(w)
<1> USE OfWorker
<1>1. CASE Mark(Mine(w).from, "unwritten") /\ UNCHANGED <<task, closed>> /\ Rest(w)
  <2>1. marks \subseteq marks' /\ Noted(Mine(w).from)
    BY <1>1, MarkIs DEF Marks
  <2>2. at[w] = "closing"
    BY DEF ClosesParent
  <2> QED
    BY <1>1, <2>1, <2>2 DEF Walks, Rest, Goto, Others
<1> QED
  BY <1>1 DEF ClosesParent, Shuts

\* Every step of the specification is one of these.
LEMMA Forms ==
  ASSUME Inv, Next
  PROVE  \/ \E w \in Workers :
              \/ Walks(w) \/ Shuts(w)
              \/ \E s \in States : Writes(w, s)
              \/ \E r : Makes(w, r)
              \/ \E t \in DOMAIN task : Claim(w, t)
         \/ \E t \in DOMAIN task : Requeue(t) \/ Merge(t)
  BY WalkForms, WriteForms, MakeForms, CloseForms DEF Next

LEMMA FleetAlone ==
  ASSUME Inv, Alone, NEW t \in DOMAIN task, Requeue(t) \/ Merge(t) PROVE Alone'
<1>1. UNCHANGED <<at, on, closed>>
  BY DEF Requeue, Merge, work
<1>2. CASE Requeue(t)
  <2>1. marks \subseteq marks' /\ <<t, "again">> \in marks'
    BY <1>2 DEF Requeue, Mark
  <2>2. ~Once(t)'
    BY <2>1 DEF Once, Marked, Marks
  <2>3. Turns(t, "Ready")
    BY <1>2, <2>1, <2>2 DEF Turns, Requeue
  <2> QED
    BY <1>1, <2>2, <2>3, TurnsAlone DEF States
<1>3. CASE Merge(t)
  <2>1. Turns(t, "Done") /\ task[t].state = "In Review"
    BY <1>3 DEF Turns, Merge
  <2> QED
    BY <1>1, <2>1, TurnsAlone DEF States
<1> QED
  BY <1>2, <1>3

LEMMA AloneStep == Inv /\ Alone /\ [Next]_vars => Alone'
<1> SUFFICES ASSUME Inv, Alone, [Next]_vars PROVE Alone'
  OBVIOUS
<1>1. CASE Next
  <2>1. ASSUME NEW w \in Workers, Shuts(w) PROVE Alone'
    <3>1. PICK p : p = Mine(w).from
      OBVIOUS
    <3> QED
      BY <2>1, <3>1, ShutsAlone DEF Shuts
  <2> QED
    BY <1>1, <2>1, Forms, WalksAlone, WritesAlone, MakesAlone, ClaimAlone, FleetAlone
<1>2. CASE UNCHANGED vars
  <2>1. UNCHANGED <<task, at, on, closed, marks>>
    BY <1>2 DEF vars, work
  <2>2. \A t : /\ Marked(t)' = Marked(t) /\ Siblings(t)' = Siblings(t)
              /\ Free(t)' = Free(t) /\ Shut(t)' = Shut(t)
    BY <2>1 DEF Marked, Siblings, Free, Shut
  <2>3. \A t : Once(t)' = Once(t) /\ Settled(t)' = Settled(t)
    BY <2>1, <2>2 DEF Once, Settled
  <2>4. Rested' /\ Lone' /\ Sealed'
    BY <2>1, <2>2, <2>3 DEF Alone, Rested, Lone, Sealed
  <2>5. Behind'
    BY <2>1 DEF Alone, Behind, Settled, Marked
  <2> QED
    BY <2>4, <2>5 DEF Alone
<1> QED
  BY <1>1, <1>2

LEMMA InitAlone == Init => Alone
<1> SUFFICES ASSUME Init PROVE Alone
  OBVIOUS
<1>1. Inv
  BY InitInv
<1>2. \A w \in Workers : at[w] = "idle" /\ on[w] = NoId
  BY DEF Init
<1>3. \A t \in DOMAIN task : t # NoId
  BY <1>1 DEF Inv, TypeOK, NoId
<1>4. closed = {} /\ \A t \in DOMAIN task : task[t].state = "Ready"
  BY DEF Init, Authored
<1> QED
  BY <1>2, <1>3, <1>4 DEF Alone, Rested, Lone, Behind, Sealed, Free, Shut, Before, Past

\* A task is closed for its chunks only when none of them is unfinished,
\* whichever worker sees the last of them, for any number of workers, chunks
\* and tasks (maybe_close_split_parent).
THEOREM ClosingIsHonest == Spec => []ClosedHonest
<1>1. Inv /\ Alone => ClosedHonest
  <2> SUFFICES ASSUME Inv, Alone, NEW p \in closed, NEW t \in Siblings(p)
               PROVE  task[t].state = "Done" \/ Marked(t) # {} \/ "again" \in Marked(p)
    BY DEF ClosedHonest
  <2>1. p \in DOMAIN task /\ Shut(p)
    BY DEF Inv, TypeOK, Shut
  <2> QED
    BY <2>1 DEF Alone, Sealed, Settled, Once
<1> QED
  BY <1>1, InitInv, InvStep, InitAlone, AloneStep, PTL DEF Spec

\* A worker is on its way to look whether the task's parent can be closed.
Watched(t) == \E w \in Workers : at[w] \in Past /\ on[w] = t
Finished(t) == task[t].state = "Done" /\ Marked(t) = {} /\ t \notin closed

\* While a split task is not Blocked yet, no chunk of it that finished has
\* looked; once it is Blocked and the last chunk finished, one is yet to look.
Seen ==
  \A p \in DOMAIN task : Marked(p) = {} =>
    /\ task[p].state \notin {"Blocked", "Done"} =>
         \A t \in Siblings(p) : Finished(t) => Watched(t)
    /\ task[p].state = "Blocked" /\ Siblings(p) # {} /\ (\A t \in Siblings(p) : Finished(t)) =>
         \E t \in Siblings(p) : Watched(t)

\* What a step may do to a chunk's watch without disturbing Seen.
LEMMA SeenKept ==
  ASSUME Seen, NEW p \in DOMAIN task, Marked(p) = {}, Siblings(p)' = Siblings(p),
         task'[p].state = task[p].state \/ {task'[p].state, task[p].state} \cap {"Blocked", "Done"} = {},
         \A t \in Siblings(p) : Finished(t)' => Finished(t) \/ Watched(t)',
         \A t \in Siblings(p) : Watched(t) =>
           Watched(t)' \/ (task[p].state = "Blocked" /\ \E u \in Siblings(p) : ~Finished(u)')
  PROVE  /\ task'[p].state \notin {"Blocked", "Done"} =>
              \A t \in Siblings(p)' : Finished(t)' => Watched(t)'
         /\ task'[p].state = "Blocked" /\ Siblings(p)' # {} /\ (\A t \in Siblings(p)' : Finished(t)') =>
              \E t \in Siblings(p)' : Watched(t)'
<1>1. ASSUME task'[p].state \notin {"Blocked", "Done"}
      PROVE  \A t \in Siblings(p) : Finished(t)' => Watched(t)'
  BY <1>1 DEF Seen
<1>2. ASSUME task'[p].state = "Blocked", Siblings(p) # {}, \A t \in Siblings(p) : Finished(t)'
      PROVE  \E t \in Siblings(p) : Watched(t)'
  <2>1. task[p].state = "Blocked"
    BY <1>2
  <2>2. CASE \A t \in Siblings(p) : Finished(t)
    BY <1>2, <2>1, <2>2 DEF Seen
  <2>3. CASE \E t \in Siblings(p) : ~Finished(t)
    BY <1>2, <2>3
  <2> QED
    BY <2>2, <2>3
<1> QED
  BY <1>1, <1>2

LEMMA WalksSeen ==
  ASSUME Inv, Seen, NEW w \in Workers, Walks(w) PROVE Seen'
<1>0. /\ task' = task /\ closed' = closed /\ marks \subseteq marks' /\ Others(w)
      /\ on[w] \in DOMAIN task
  BY DEF Walks, Inv, TypeOK
<1>1. \A t : /\ Marked(t)' = {} => Marked(t) = {}
             /\ Noted(t) <=> Marked(t)' # {}
  BY <1>0, MarksStay
<1>2. \A t : Siblings(t)' = Siblings(t) /\ (Finished(t)' => Finished(t))
  BY <1>0, <1>1 DEF Siblings, Finished
<1> SUFFICES ASSUME NEW p \in DOMAIN task, Marked(p)' = {}
             PROVE  /\ task'[p].state \notin {"Blocked", "Done"} =>
                         \A t \in Siblings(p)' : Finished(t)' => Watched(t)'
                    /\ /\ task'[p].state = "Blocked" /\ Siblings(p)' # {}
                       /\ \A t \in Siblings(p)' : Finished(t)'
                       => \E t \in Siblings(p)' : Watched(t)'
  BY <1>0 DEF Seen
<1>3. ASSUME NEW t \in Siblings(p), Watched(t), ~Watched(t)'
      PROVE  task[p].state = "Blocked" /\ \E u \in Siblings(p) : ~Finished(u)'
  <2>1. PICK v \in Workers : at[v] \in Past /\ on[v] = t
    BY <1>3 DEF Watched
  <2>2. v = w
    BY <1>0, <1>3, <2>1 DEF Watched, Others
  <2>3. at'[w] = "idle" /\ on'[w] = NoId
    BY <1>3, <2>1, <2>2 DEF Walks, Watched, Before, Past
  <2>4. IsChunk(w) /\ Mine(w).from = p
    <3>1. p # NoId
      BY DEF Inv, TypeOK, NoId
    <3> QED
      BY <2>1, <2>2, <3>1 DEF Siblings, IsChunk, Mine
  <2>5. Noted(p) \/ (task[p].state = "Blocked" /\ ~AllOthersDone(w, p))
    BY <2>1, <2>2, <2>3, <2>4 DEF Walks, Before, Past
  <2>6. task[p].state = "Blocked" /\ ~AllOthersDone(w, p)
    BY <1>1, <2>5
  <2> QED
    BY <1>0, <2>6 DEF AllOthersDone, Finished
<1> QED
  BY <1>0, <1>1, <1>2, <1>3, SeenKept

LEMMA WritesSeen ==
  ASSUME Inv, Alone, Seen, NEW w \in Workers, NEW s \in States, Writes(w, s) PROVE Seen'
<1>0. /\ closed' = closed /\ marks \subseteq marks' /\ Others(w) /\ at[w] \in Before
      /\ on[w] \in DOMAIN task /\ task \in Seq(Records)
  BY DEF Writes, Inv, TypeOK, Before
<1>a. /\ Kept /\ DOMAIN task' = DOMAIN task /\ task'[on[w]].state = s
      /\ \A u \in DOMAIN task : u # on[w] => task'[u] = task[u]
  BY <1>0, TransitionIs DEF Writes
<1>1. \A t : /\ Marked(t)' = {} => Marked(t) = {}
             /\ Noted(t) <=> Marked(t)' # {}
  BY <1>0, MarksStay
<1>2. \A t : Siblings(t)' = Siblings(t)
  BY <1>a, SameSiblings
<1>3. \A t \in DOMAIN task : t # on[w] => (Finished(t)' => Finished(t))
  BY <1>0, <1>a, <1>1 DEF Finished
<1>4. \A t : Watched(t) => Watched(t)'
  BY <1>0 DEF Watched, Others, Before, Past
<1>5. PICK o \in DOMAIN task : o = on[w]
  BY <1>0
<1>6. Finished(o)' => Watched(o)'
  BY <1>a, <1>5 DEF Finished, Writes, Watched, Past
<1> SUFFICES ASSUME NEW p \in DOMAIN task, Marked(p)' = {}
             PROVE  /\ task'[p].state \notin {"Blocked", "Done"} =>
                         \A t \in Siblings(p)' : Finished(t)' => Watched(t)'
                    /\ /\ task'[p].state = "Blocked" /\ Siblings(p)' # {}
                       /\ \A t \in Siblings(p)' : Finished(t)'
                       => \E t \in Siblings(p)' : Watched(t)'
  BY <1>a DEF Seen
<1>7. Siblings(p) \subseteq DOMAIN task
  BY DEF Siblings
<1>8. CASE p # o
  <2>1. task'[p].state = task[p].state
    BY <1>a, <1>5, <1>8
  <2>2. \A t \in Siblings(p) : Finished(t)' => Finished(t) \/ Watched(t)'
    BY <1>3, <1>5, <1>6, <1>7
  <2> QED
    BY <1>1, <1>2, <1>4, <2>1, <2>2, SeenKept
<1>9. CASE p = o
  <2>1. Once(p)
    BY <1>1 DEF Once
  <2>2. task[p].state = "Running"
    BY <1>0, <1>5, <1>9, <2>1 DEF Alone, Lone
  <2>3. \A t \in Siblings(p) : Finished(t) => Watched(t)
    BY <1>1, <2>2 DEF Seen
  <2>4. \A t \in Siblings(p) : Finished(t)' => Watched(t)'
    BY <1>3, <1>4, <1>5, <1>6, <1>7, <2>3
  <2> QED
    BY <1>2, <2>4
<1> QED
  BY <1>8, <1>9

LEMMA MakesSeen ==
  ASSUME Inv, Seen, NEW w \in Workers, NEW r, Makes(w, r) PROVE Seen'
<1>0. /\ closed' = closed /\ marks' = marks /\ Others(w) /\ on'[w] = on[w]
      /\ on[w] \in DOMAIN task /\ task \in Seq(Records)
  BY DEF Makes, Inv, TypeOK, Before
<1>n. PICK new : new = Len(task) + 1
  OBVIOUS
<1>a. /\ Kept /\ DOMAIN task' = DOMAIN task \cup {new} /\ task'[new] = r /\ new \notin DOMAIN task
      /\ \A u \in DOMAIN task : task'[u] = task[u]
  BY <1>0, <1>n, AppendKeeps DEF Makes
<1>b. r.state = "Ready" /\ r.from = on[w]
  BY DEF Makes
<1>c. \A t \in DOMAIN task : task[t].from # new
  <2>1. \A t \in DOMAIN task : task[t].from \in 0..Len(task)
    BY DEF Inv, Linked
  <2>2. Len(task) \in Nat
    BY <1>0
  <2> QED
    BY <1>n, <2>1, <2>2
<1>1. \A t : Marked(t)' = Marked(t)
  BY <1>0 DEF Marked
<1>2. ~Finished(new)' /\ \A t \in DOMAIN task : Finished(t)' => Finished(t)
  BY <1>0, <1>a, <1>b, <1>1 DEF Finished
<1>3. \A t : Watched(t) => Watched(t)'
  BY <1>0 DEF Watched, Others, Makes, Past, Before
<1>4. Siblings(new)' = {}
  BY <1>0, <1>a, <1>b, <1>c DEF Siblings
<1>5. \A p : /\ Siblings(p) \subseteq DOMAIN task
             /\ Siblings(p)' = Siblings(p) \/ Siblings(p)' = Siblings(p) \cup {new}
  BY <1>a DEF Siblings
<1> SUFFICES ASSUME NEW p \in DOMAIN task, Marked(p)' = {}
             PROVE  /\ task'[p].state \notin {"Blocked", "Done"} =>
                         \A t \in Siblings(p)' : Finished(t)' => Watched(t)'
                    /\ /\ task'[p].state = "Blocked" /\ Siblings(p)' # {}
                       /\ \A t \in Siblings(p)' : Finished(t)'
                       => \E t \in Siblings(p)' : Watched(t)'
  BY <1>a, <1>4 DEF Seen
<1>6. CASE Siblings(p)' = Siblings(p)
  BY <1>a, <1>1, <1>2, <1>3, <1>5, <1>6, SeenKept
<1>7. CASE Siblings(p)' = Siblings(p) \cup {new}
  <2>1. ASSUME task'[p].state \notin {"Blocked", "Done"}, NEW t \in Siblings(p)', Finished(t)'
        PROVE  Watched(t)'
    <3>1. t \in Siblings(p) /\ Finished(t)
      BY <1>2, <1>5, <1>7, <2>1
    <3>2. task[p].state \notin {"Blocked", "Done"} /\ Marked(p) = {}
      BY <1>a, <1>1, <2>1
    <3> QED
      BY <1>3, <3>1, <3>2 DEF Seen
  <2>2. ~ \A t \in Siblings(p)' : Finished(t)'
    BY <1>2, <1>7
  <2> QED
    BY <2>1, <2>2
<1> QED
  BY <1>5, <1>6, <1>7

\* A step from outside that marks what it touches, or takes it from the queue.
LEMMA TurnsSeen ==
  ASSUME Inv, Seen, NEW t \in DOMAIN task, NEW s \in States, Turns(t, s), closed \subseteq closed',
         Marked(t)' = {} => s = "Done" \/ (s = "Running" /\ task[t].state = "Ready"),
         ~Finished(t)',
         \A p \in DOMAIN task : p # t \/ s # "Done" =>
           \A u \in Siblings(p) : Watched(u) => Watched(u)'
  PROVE  Seen'
<1>1. /\ Kept /\ DOMAIN task' = DOMAIN task /\ task'[t].state = s
      /\ \A u \in DOMAIN task : u # t => task'[u] = task[u]
      /\ \A u : Marked(u) # {} => Marked(u)' # {}
      /\ \A u : Siblings(u)' = Siblings(u)
  BY TurnsKeeps
<1>2. \A u \in DOMAIN task : Finished(u)' => Finished(u)
  BY <1>1 DEF Finished
<1> SUFFICES ASSUME NEW p \in DOMAIN task, Marked(p)' = {}
             PROVE  /\ task'[p].state \notin {"Blocked", "Done"} =>
                         \A u \in Siblings(p)' : Finished(u)' => Watched(u)'
                    /\ /\ task'[p].state = "Blocked" /\ Siblings(p)' # {}
                       /\ \A u \in Siblings(p)' : Finished(u)'
                       => \E u \in Siblings(p)' : Watched(u)'
  BY <1>1 DEF Seen
<1>3. Siblings(p) \subseteq DOMAIN task
  BY DEF Siblings
<1>5. CASE s = "Done" /\ p = t
  BY <1>1, <1>5
<1>6. CASE ~(s = "Done" /\ p = t)
  <2>1. task'[p].state = task[p].state \/ {task'[p].state, task[p].state} \cap {"Blocked", "Done"} = {}
    BY <1>1, <1>6
  <2>2. \A u \in Siblings(p) : Watched(u) => Watched(u)'
    BY <1>6
  <2> QED
    BY <1>1, <1>2, <1>3, <2>1, <2>2, SeenKept
<1> QED
  BY <1>5, <1>6

LEMMA ClaimSeen ==
  ASSUME Inv, Seen, NEW w \in Workers, NEW t \in DOMAIN task, Claim(w, t) PROVE Seen'
<1>0. /\ at[w] = "idle" /\ Others(w) /\ closed' = closed /\ marks \subseteq marks'
      /\ Transition(t, "Running")
  BY DEF Claim, Goto, Others, Inv, TypeOK, Mark
<1>1. (Noted(t) /\ ~Once(t)') \/ task[t].state = "Ready"
  BY DEF Claim, Mark, Once, Noted, Marked, Marks
<1>2. Turns(t, "Running")
  BY <1>0, <1>1 DEF Turns
<1>3. \A u : Watched(u) => Watched(u)'
  BY <1>0 DEF Watched, Others, Past
<1>4. Marked(t)' = {} => task[t].state = "Ready"
  BY <1>0, <1>1, MarksStay
<1>5. ~Finished(t)'
  <2>1. task'[t].state = "Running"
    BY <1>2, TurnsKeeps DEF States
  <2> QED
    BY <2>1 DEF Finished
<1> QED
  BY <1>0, <1>2, <1>3, <1>4, <1>5, TurnsSeen DEF States

LEMMA ShutsSeen ==
  ASSUME Inv, Seen, NEW w \in Workers, NEW p, at[w] = "closing", p = Mine(w).from,
         Transition(p, "Done"), closed' = closed \cup {p}, UNCHANGED marks, Rest(w)
  PROVE  Seen'
<1>0. Others(w) /\ p \in DOMAIN task
  BY IdsInRange DEF Rest, Goto, Others, Inv, TypeOK, Granted
<1>1. Turns(p, "Done")
  BY DEF Turns
<1>2. ASSUME NEW q \in DOMAIN task, q # p, NEW u \in Siblings(q), Watched(u) PROVE Watched(u)'
  <2>1. PICK v \in Workers : at[v] \in Past /\ on[v] = u
    BY <1>2 DEF Watched
  <2>2. v # w
    BY <1>2, <2>1 DEF Siblings, Mine
  <2> QED
    BY <1>0, <2>1, <2>2 DEF Watched, Others
<1>3. ~Finished(p)'
  BY DEF Finished
<1> QED
  BY <1>0, <1>1, <1>2, <1>3, TurnsSeen DEF States

LEMMA FleetSeen ==
  ASSUME Inv, Alone, Seen, NEW t \in DOMAIN task, Requeue(t) \/ Merge(t) PROVE Seen'
<1>1. UNCHANGED <<at, on, closed>> /\ marks \subseteq marks'
  BY DEF Requeue, Merge, work, Mark
<1>2. PICK s \in {"Ready", "Done"} : Transition(t, s) /\ (s = "Ready" => Mark(t, "again"))
  BY DEF Requeue, Merge
<1>3. Marked(t)' # {} /\ (s = "Ready" => ~Once(t)')
  <2>1. CASE s = "Ready"
    BY <1>2, <2>1 DEF Mark, Once, Marked, Marks
  <2>2. CASE s = "Done"
    <3>1. CASE task[t].state = "In Review"
      BY <1>1, <2>2, <3>1, MarksStay DEF Alone, Behind
    <3>2. CASE Mark(t, "again")
      BY <2>2, <3>2 DEF Mark, Marked, Marks
    <3> QED
      BY <3>1, <3>2 DEF Requeue, Merge
  <2> QED
    BY <2>1, <2>2
<1>4. Turns(t, s)
  BY <1>1, <1>2, <1>3 DEF Turns
<1>5. \A u : Watched(u)' = Watched(u)
  BY <1>1 DEF Watched
<1>6. ~Finished(t)'
  BY <1>3 DEF Finished
<1> QED
  BY <1>1, <1>3, <1>4, <1>5, <1>6, TurnsSeen DEF States

LEMMA SeenStep == Inv /\ Alone /\ Seen /\ [Next]_vars => Seen'
<1> SUFFICES ASSUME Inv, Alone, Seen, [Next]_vars PROVE Seen'
  OBVIOUS
<1>1. CASE Next
  <2>1. ASSUME NEW w \in Workers, Shuts(w) PROVE Seen'
    <3>1. PICK p : p = Mine(w).from
      OBVIOUS
    <3> QED
      BY <2>1, <3>1, ShutsSeen DEF Shuts
  <2> QED
    BY <1>1, <2>1, Forms, WalksSeen, WritesSeen, MakesSeen, ClaimSeen, FleetSeen
<1>2. CASE UNCHANGED vars
  <2>1. UNCHANGED <<task, at, on, closed, marks>>
    BY <1>2 DEF vars, work
  <2>2. \A t : Marked(t)' = Marked(t) /\ Siblings(t)' = Siblings(t) /\ Watched(t)' = Watched(t)
    BY <2>1 DEF Marked, Siblings, Watched
  <2>3. \A t : Finished(t)' = Finished(t)
    BY <2>1, <2>2 DEF Finished
  <2> QED
    BY <2>1, <2>2, <2>3 DEF Seen
<1> QED
  BY <1>1, <1>2

\* A split task does not stay Blocked when its chunks are done: one of them saw
\* the others Done and closed it, in whatever order they finished, unless a
\* chunk finished before the split task was Blocked, or a request failed.
THEOREM LastChunkCloses == Spec => []LastChildCloses
<1>1. Init => Seen
  <2> SUFFICES ASSUME Init PROVE Seen
    OBVIOUS
  <2>1. \A t \in DOMAIN task : task[t].state = "Ready"
    BY DEF Init, Authored
  <2> QED
    BY <2>1 DEF Seen, Siblings, Finished
<1>2. Seen => LastChildCloses
  <2> SUFFICES ASSUME Seen, \A w \in Workers : at[w] = "idle", NEW p \in DOMAIN task,
                      task[p].state = "Blocked", Siblings(p) # {}, Marked(p) = {}
               PROVE  \E t \in Siblings(p) : task[t].state # "Done" \/ Marked(t) # {} \/ t \in closed
    BY DEF LastChildCloses
  <2>1. \A t : ~Watched(t)
    BY DEF Watched, Past
  <2> QED
    BY <2>1 DEF Seen, Finished
<1> QED
  BY <1>1, <1>2, InitInv, InvStep, InitAlone, AloneStep, SeenStep, PTL DEF Spec

----------------------------------------------------------------------------
(* The cap on the open descendants of a root.                              *)

\* The open descendants of a root that no stale listing opened again, and the
\* creations its workers were let through to make.
Standing(r) == {t \in OpenDescendants(r) : Once(t)}
Promised(r) ==
  {x \in Workers \X (1..Chunks) : /\ at[x[1]] = "create" /\ LineageRoot(x[1]) = r
                                  /\ x[2] <= left[x[1]]}

\* No worker is let through with more creations than one split makes.
Metered == \A w \in Workers : at[w] \in {"brakes", "create"} => left[w] <= Chunks

\* What stands and what is promised keep to the bound together.
Bounded ==
  board.cap > 0 =>
    \A r \in Ids :
      \/ "unread" \in Marked(r)
      \/ Cardinality(Standing(r)) + Cardinality(Promised(r))
           <= board.cap - 1 + Chunks * Cardinality(Workers)

LEMMA AllPromised ==
  /\ IsFiniteSet(Workers \X (1..Chunks))
  /\ Cardinality(Workers \X (1..Chunks)) = Chunks * Cardinality(Workers)
  /\ Cardinality(Workers) \in Nat
<1>1. IsFiniteSet(1..Chunks) /\ Cardinality(1..Chunks) = Chunks
  BY BrakeAssumption, FS_Interval
<1>2. Cardinality(Workers) \in Nat /\ IsFiniteSet(Workers)
  BY FleetAssumption, FS_CardinalityType
<1>3. /\ IsFiniteSet(Workers \X (1..Chunks))
      /\ Cardinality(Workers \X (1..Chunks)) = Cardinality(Workers) * Cardinality(1..Chunks)
  BY <1>1, <1>2, FS_Product
<1> QED
  BY <1>1, <1>2, <1>3, BrakeAssumption

LEMMA PromisedFinite ==
  ASSUME NEW r
  PROVE  /\ IsFiniteSet(Promised(r)) /\ Cardinality(Promised(r)) \in Nat
         /\ Cardinality(Promised(r)) <= Chunks * Cardinality(Workers)
<1>1. Promised(r) \in SUBSET (Workers \X (1..Chunks))
  BY DEF Promised
<1> QED
  BY <1>1, AllPromised, FS_Subset, FS_CardinalityType

LEMMA StandingFinite ==
  ASSUME TypeOK, NEW r
  PROVE  /\ IsFiniteSet(Standing(r)) /\ Cardinality(Standing(r)) \in Nat
         /\ IsFiniteSet(OpenDescendants(r)) /\ Cardinality(OpenDescendants(r)) \in Nat
         /\ Cardinality(Standing(r)) <= Cardinality(OpenDescendants(r))
<1>1. Len(task) \in Nat /\ DOMAIN task = 1..Len(task)
  BY DEF TypeOK
<1>2. IsFiniteSet(DOMAIN task)
  BY <1>1, FS_Interval
<1>3. OpenDescendants(r) \in SUBSET DOMAIN task /\ Standing(r) \in SUBSET OpenDescendants(r)
  BY DEF OpenDescendants, Standing
<1>4. IsFiniteSet(OpenDescendants(r))
  BY <1>2, <1>3, FS_Subset
<1> QED
  BY <1>3, <1>4, FS_Subset, FS_CardinalityType

\* A task that is Done stays so, unless it is handed out again.
LEMMA DoneStays ==
  ASSUME Inv, Alone, Next
  PROVE  \A u \in DOMAIN task : task[u].state = "Done" /\ Once(u)' => task'[u].state = "Done"
<1> DEFINE Goal == \A u \in DOMAIN task : task[u].state = "Done" /\ Once(u)' => task'[u].state = "Done"
<1>0. task \in Seq(Records)
  BY DEF Inv, TypeOK
<1>1. ASSUME NEW w \in Workers, Walks(w) PROVE Goal
  BY <1>1 DEF Walks
<1>2. ASSUME NEW w \in Workers, Shuts(w) PROVE Goal
  <2>1. Mine(w).from \in DOMAIN task
    BY <1>2, IdsInRange DEF Shuts, Inv, Granted
  <2>2. Transition(Mine(w).from, "Done")
    BY <1>2 DEF Shuts
  <2> QED
    BY <1>0, <2>1, <2>2, TransitionIs DEF States
<1>3. ASSUME NEW w \in Workers, NEW s \in States, Writes(w, s) PROVE Goal
  <2>1. on[w] \in DOMAIN task /\ at[w] \in Before /\ marks \subseteq marks'
    BY <1>3 DEF Writes, Before, Inv, TypeOK
  <2>2. \A u \in DOMAIN task : u # on[w] => task'[u] = task[u]
    BY <1>0, <1>3, <2>1, TransitionIs DEF Writes
  <2>3. ASSUME NEW u \in DOMAIN task, u = on[w], Once(u)' PROVE task[u].state # "Done"
    <3>1. Once(u)
      BY <2>1, <2>3, MarksStay
    <3> QED
      BY <2>1, <2>3, <3>1 DEF Alone, Lone
  <2> QED
    BY <2>2, <2>3
<1>4. ASSUME NEW w \in Workers, NEW r, Makes(w, r) PROVE Goal
  BY <1>0, <1>4, AppendKeeps DEF Makes
<1>5. ASSUME NEW w \in Workers, NEW t \in DOMAIN task, Claim(w, t) PROVE Goal
  <2>1. Transition(t, "Running") /\ (task[t].state = "Done" => <<t, "again">> \in marks')
    BY <1>5 DEF Claim, Mark
  <2>2. task[t].state = "Done" => ~Once(t)'
    BY <2>1 DEF Once, Marked, Marks
  <2> QED
    BY <1>0, <2>1, <2>2, TransitionIs DEF States
<1>6. ASSUME NEW t \in DOMAIN task, Requeue(t) \/ Merge(t) PROVE Goal
  <2>1. (Transition(t, "Ready") \/ Transition(t, "Done")) /\ task[t].state # "Done"
    BY <1>6 DEF Requeue, Merge
  <2> QED
    BY <1>0, <2>1, TransitionIs DEF States
<1> QED
  BY <1>1, <1>2, <1>3, <1>4, <1>5, <1>6, Forms

\* A step that adds no descendant of the root adds nothing that stands.
LEMMA StandingShrinks ==
  ASSUME Inv, Alone, Next, Kept, marks \subseteq marks', NEW r \in Ids,
         \A u \in DOMAIN task' \ DOMAIN task : task'[u].root # r
  PROVE  Standing(r)' \subseteq Standing(r)
<1>1. \A u : Once(u)' => Once(u)
  BY MarksStay
<1>2. \A u \in DOMAIN task : task'[u].root = task[u].root
  BY DEF Kept
<1> QED
  BY <1>1, <1>2, DoneStays DEF Standing, OpenDescendants, Open

\* Only the brakes let a worker through to its creations.
Steady ==
  \A v \in Workers : at'[v] = "create" =>
    at[v] = "create" /\ on'[v] = on[v] /\ left'[v] \in Nat /\ left'[v] <= left[v]

LEMMA PromisedShrinks ==
  ASSUME Inv, Kept, Steady, NEW r PROVE Promised(r)' \subseteq Promised(r)
<1>1. ASSUME NEW v \in Workers, at'[v] = "create" PROVE LineageRoot(v)' = LineageRoot(v)
  <2>1. on[v] \in DOMAIN task /\ on'[v] = on[v]
    BY <1>1 DEF Steady, Inv, TypeOK
  <2>2. task'[on[v]].root = task[on[v]].root
    BY <2>1 DEF Kept
  <2> QED
    BY <2>1, <2>2 DEF LineageRoot, Mine
<1> SUFFICES ASSUME NEW x \in Promised(r)' PROVE x \in Promised(r)
  OBVIOUS
<1>2. /\ x \in Workers \X (1..Chunks) /\ x[1] \in Workers /\ x[2] \in 1..Chunks
      /\ at'[x[1]] = "create" /\ LineageRoot(x[1])' = r /\ x[2] <= left'[x[1]]
  BY DEF Promised
<1>3. /\ at[x[1]] = "create" /\ LineageRoot(x[1]) = r
      /\ left'[x[1]] \in Nat /\ left'[x[1]] <= left[x[1]] /\ left[x[1]] \in Nat
  BY <1>1, <1>2 DEF Steady, Inv, TypeOK
<1>4. x[2] <= left[x[1]]
  <2>1. x[2] \in Nat
    BY <1>2, BrakeAssumption
  <2> QED
    BY <1>2, <1>3, <2>1
<1> QED
  BY <1>2, <1>3, <1>4 DEF Promised

\* The situation keeps its cap.
LEMMA CapKept ==
  ASSUME board \in BoardType, NEW f, Sound \/ Lost(f)
  PROVE  board'.cap = board.cap /\ board.cap \in Nat
<1>1. board.cap \in Nat /\ "scene" \in DOMAIN board
  BY DEF BoardType
<1> QED
  BY <1>1 DEF Sound, Lost, BoardType

\* What every step but a passage of the brakes or a creation does.
Calm ==
  /\ Steady /\ Kept /\ marks \subseteq marks' /\ board'.cap = board.cap
  /\ \A u \in DOMAIN task' \ DOMAIN task : task'[u].root = NoId
  /\ \A v \in Workers : at'[v] = "brakes" =>
       (at[v] = "brakes" /\ left'[v] = left[v]) \/ left'[v] <= Chunks

LEMMA CalmWorker ==
  ASSUME Inv, NEW w \in Workers, Kept, marks \subseteq marks', NEW f, Sound \/ Lost(f),
         \A u \in DOMAIN task' \ DOMAIN task : task'[u].root = NoId,
         NEW p \in Places, at' = [at EXCEPT ![w] = p],
         \A v \in Workers \ {w} : on'[v] = on[v] /\ left'[v] = left[v],
         p = "create" => at[w] = "create" /\ on'[w] = on[w] /\ left'[w] \in Nat /\ left'[w] <= left[w],
         p = "brakes" => left'[w] <= Chunks
  PROVE  Calm
<1>1. board'.cap = board.cap
  BY OfWorker, CapKept
<1>2. \A v \in Workers \ {w} : at'[v] = at[v] /\ left[v] \in Nat
  BY OfWorker
<1>3. at'[w] = p
  BY OfWorker
<1>4. Steady
  BY <1>2, <1>3 DEF Steady
<1>5. \A v \in Workers : at'[v] = "brakes" =>
        (at[v] = "brakes" /\ left'[v] = left[v]) \/ left'[v] <= Chunks
  BY <1>2, <1>3
<1> QED
  BY <1>1, <1>4, <1>5 DEF Calm

LEMMA CalmSpawn ==
  ASSUME Inv, NEW w \in Workers, NEW j, NEW n \in Nat, n <= Chunks, Spawn(w, j, n) PROVE Calm
<1> DEFINE p == IF RetriesLeft(w, j) THEN "brakes" ELSE After(j)
<1>1. at' = [at EXCEPT ![w] = p] /\ p \in Places \ {"create"}
  BY DEF Spawn, Goto, After, Places
<1>2. left' = [left EXCEPT ![w] = n] /\ UNCHANGED <<task, board, on, marks>>
  BY DEF Spawn
<1>3. Kept /\ DOMAIN task' = DOMAIN task
  BY <1>2, SameKeeps, OfWorker
<1>4. left'[w] = n /\ \A v \in Workers \ {w} : on'[v] = on[v] /\ left'[v] = left[v]
  BY <1>2, OfWorker
<1> HIDE DEF p
<1> QED
  BY <1>1, <1>2, <1>3, <1>4, CalmWorker DEF Sound

LEMMA CalmSteps ==
  ASSUME Inv, NEW w \in Workers,
         \/ Fails(w) \/ Succeeds(w) \/ ChunkLost(w) \/ FollowUpRaises(w) \/ Suggest(w)
         \/ Settle(w) \/ Breaks(w) \/ CloseCheck(w) \/ ClosesParent(w)
         \/ \E t \in DOMAIN task : Claim(w, t)
  PROVE  Calm
<1> USE OfWorker
<1>0. Granted /\ (at[w] # "idle" => on[w] \in DOMAIN task)
  BY DEF Inv, TypeOK
<1>1. CASE Fails(w)
  <2>1. UNCHANGED <<task, board, on, left, marks>> /\ at' = [at EXCEPT ![w] = "failed"]
    BY <1>1 DEF Fails, Goto
  <2>2. Kept /\ DOMAIN task' = DOMAIN task
    BY <2>1, SameKeeps
  <2> QED
    BY <2>1, <2>2, CalmWorker DEF Sound, Places
<1>2. CASE Succeeds(w)
  <2>1. at[w] = "run" /\ UNCHANGED on /\ \E p \in {"close", "suggest"} : at' = [at EXCEPT ![w] = p]
    BY <1>2, Zenon DEF Succeeds, Goto
  <2>2. \A v \in Workers \ {w} : left'[v] = left[v]
    <3>1. UNCHANGED left \/ \E n \in 0..Suggestions : left' = [left EXCEPT ![w] = n]
      BY <1>2, Zenon DEF Succeeds
    <3> QED
      BY <3>1
  <2>3. Sound \/ Lost("write")
    BY <1>2, Zenon DEF Succeeds
  <2>4. marks \subseteq marks'
    <3>1. UNCHANGED marks \/ Mark(on[w], "reviewed") \/ Mark(on[w], "unwritten")
      BY <1>2, Zenon DEF Succeeds
    <3> QED
      BY <3>1 DEF Mark
  <2>5. Kept /\ DOMAIN task' = DOMAIN task
    <3>1. UNCHANGED task \/ Transition(on[w], "Done") \/ Transition(on[w], "In Review")
      BY <1>2, Zenon DEF Succeeds
    <3> QED
      BY <1>0, <2>1, <3>1, SameKeeps, TransitionKeeps DEF States
  <2> QED
    BY <2>1, <2>2, <2>3, <2>4, <2>5, CalmWorker DEF Places
<1>3. CASE ChunkLost(w)
  <2>1. at[w] = "create" /\ UNCHANGED <<task, on, marks>> /\ Lost("create")
    BY <1>3 DEF ChunkLost
  <2>2. left' = [left EXCEPT ![w] = @ - 1] /\ left[w] > 0
    BY <1>0, <1>3 DEF ChunkLost, Granted
  <2>3. PICK p \in Places \ {"brakes"} : at' = [at EXCEPT ![w] = p]
    BY <1>3 DEF ChunkLost, Goto, After, Places
  <2>4. Kept /\ DOMAIN task' = DOMAIN task
    BY <2>1, SameKeeps
  <2>5. left'[w] \in Nat /\ left'[w] <= left[w] /\ \A v \in Workers \ {w} : left'[v] = left[v]
    BY <2>2
  <2> QED
    BY <2>1, <2>3, <2>4, <2>5, CalmWorker
<1>4. CASE FollowUpRaises(w)
  <2>1. UNCHANGED task /\ Lost("create") /\ marks \subseteq marks'
    BY <1>4 DEF FollowUpRaises, Mark
  <2>2. /\ \E p \in {"close", "idle"} : at' = [at EXCEPT ![w] = p]
        /\ \A v \in Workers \ {w} : on'[v] = on[v] /\ left'[v] = left[v]
    BY <1>4 DEF FollowUpRaises, Goto, Rest
  <2>3. Kept /\ DOMAIN task' = DOMAIN task
    BY <2>1, SameKeeps
  <2> QED
    BY <2>1, <2>2, <2>3, CalmWorker DEF Places
<1>5. CASE Suggest(w)
  <2>1. /\ at[w] = "suggest" /\ UNCHANGED <<on, marks>> /\ (Sound \/ Lost("create"))
        /\ \A v \in Workers \ {w} : left'[v] = left[v]
    BY <1>5 DEF Suggest
  <2>2. PICK p \in {"close", "suggest"} : at' = [at EXCEPT ![w] = p]
    BY <1>5, <2>1 DEF Suggest, Goto
  <2>3. Kept /\ \A u \in DOMAIN task' \ DOMAIN task : task'[u].root = NoId
    <3>1. CASE UNCHANGED task
      BY <3>1, SameKeeps
    <3>2. CASE task' = Append(task, Suggested(w))
      <4>1. Mine(w).split \in BOOLEAN
        BY <1>0, <2>1, IdsInRange DEF Records, Inv
      <4>2. /\ NoId \in 0..MaxTasks /\ 0 \in 0..MaxFollowUpRetries /\ on[w] \in 0..MaxTasks
            /\ "goal" \in Kinds /\ "Ready" \in States
        BY BrakeAssumption DEF MaxFollowUpRetries, NoId, Kinds, States
      <4>3. Suggested(w) \in Records
        BY <4>1, <4>2, RecordOf DEF Suggested
      <4>4. Suggested(w).root = NoId
        BY DEF Suggested
      <4> QED
        BY <3>2, <4>3, <4>4, AppendKeeps
    <3> QED
      BY <1>5, <3>1, <3>2 DEF Suggest
  <2> QED
    BY <2>1, <2>2, <2>3, CalmWorker DEF Places
<1>6. CASE Settle(w)
  <2>1. at[w] # "idle" /\ (Sound \/ Lost("write")) /\ marks \subseteq marks'
    BY <1>6 DEF Settle, Mark
  <2>2. /\ \E p \in {"close", "idle"} : at' = [at EXCEPT ![w] = p]
        /\ \A v \in Workers \ {w} : on'[v] = on[v] /\ left'[v] = left[v]
    BY <1>6 DEF Settle, Goto, Rest
  <2>3. Kept /\ DOMAIN task' = DOMAIN task
    BY <1>0, <1>6, <2>1, SameKeeps, TransitionKeeps DEF Settle, States
  <2> QED
    BY <2>1, <2>2, <2>3, CalmWorker DEF Places
<1>7. CASE CloseCheck(w)
  <2>1. UNCHANGED task /\ (Sound \/ Lost("list")) /\ marks \subseteq marks'
    BY <1>7 DEF CloseCheck, Mark
  <2>2. /\ \E p \in {"closing", "idle"} : at' = [at EXCEPT ![w] = p]
        /\ \A v \in Workers \ {w} : on'[v] = on[v] /\ left'[v] = left[v]
    BY <1>7 DEF CloseCheck, Goto, Rest
  <2>3. Kept /\ DOMAIN task' = DOMAIN task
    BY <2>1, SameKeeps
  <2> QED
    BY <2>1, <2>2, <2>3, CalmWorker DEF Places
<1>8. CASE ClosesParent(w)
  <2>1. (Sound \/ Lost("write")) /\ marks \subseteq marks'
    BY <1>8 DEF ClosesParent, Mark
  <2>2. /\ at' = [at EXCEPT ![w] = "idle"]
        /\ \A v \in Workers \ {w} : on'[v] = on[v] /\ left'[v] = left[v]
    BY <1>8 DEF ClosesParent, Goto, Rest
  <2>3. Mine(w).from \in DOMAIN task
    BY <1>0, <1>8, IdsInRange DEF ClosesParent, Granted, Inv
  <2>4. Kept /\ DOMAIN task' = DOMAIN task
    BY <1>8, <2>3, SameKeeps, TransitionKeeps DEF ClosesParent, States
  <2> QED
    BY <2>1, <2>2, <2>4, CalmWorker DEF Places
<1>9. ASSUME NEW t \in DOMAIN task, Claim(w, t) PROVE Calm
  <2>1. (Sound \/ Lost("stale")) /\ marks \subseteq marks' /\ at' = [at EXCEPT ![w] = "run"]
    BY <1>9 DEF Claim, Mark, Goto
  <2>2. \A v \in Workers \ {w} : on'[v] = on[v] /\ left'[v] = left[v]
    BY <1>9 DEF Claim
  <2>3. Kept /\ DOMAIN task' = DOMAIN task
    BY <1>9, TransitionKeeps DEF Claim, States
  <2> QED
    BY <2>1, <2>2, <2>3, CalmWorker DEF Places
<1>10. CASE Breaks(w)
  <2>1. at[w] # "idle" /\ (Sound \/ Lost("write")) /\ marks \subseteq marks'
    BY <1>10 DEF Breaks, Mark
  <2>2. /\ at' = [at EXCEPT ![w] = "idle"]
        /\ \A v \in Workers \ {w} : on'[v] = on[v] /\ left'[v] = left[v]
    BY <1>10 DEF Breaks, Goto, Rest
  <2>3. Kept /\ DOMAIN task' = DOMAIN task
    BY <1>0, <1>10, <2>1, SameKeeps, TransitionKeeps DEF Breaks, States
  <2> QED
    BY <2>1, <2>2, <2>3, CalmWorker DEF Places
<1> QED
  BY <1>1, <1>2, <1>3, <1>4, <1>5, <1>6, <1>7, <1>8, <1>9, <1>10

LEMMA CalmFleet ==
  ASSUME Inv, NEW t \in DOMAIN task, Requeue(t) \/ Merge(t) PROVE Calm
<1>1. /\ UNCHANGED <<at, on, left>> /\ marks \subseteq marks' /\ (Sound \/ Lost("requeue"))
      /\ (Transition(t, "Ready") \/ Transition(t, "Done"))
  BY DEF Requeue, Merge, work, Mark, Sound
<1>2. task \in Seq(Records) /\ board \in BoardType /\ left \in [Workers -> Nat]
  BY DEF Inv, TypeOK, BoardType
<1>3. Kept /\ DOMAIN task' = DOMAIN task
  BY <1>1, <1>2, TransitionKeeps DEF States
<1>4. board'.cap = board.cap
  BY <1>1, <1>2, CapKept
<1>5. Steady
  BY <1>1, <1>2 DEF Steady
<1> QED
  BY <1>1, <1>3, <1>4, <1>5 DEF Calm

\* The brakes and the creations apart, every step is calm.
LEMMA CalmOrNot ==
  ASSUME Inv, Next PROVE Calm \/ \E w \in Workers : Brakes(w) \/ Create(w)
<1>1. ASSUME NEW w \in Workers, NeedsVerification(w) \/ Repair(w) \/ TooWide(w) PROVE Calm
  <2>1. 1 \in Nat /\ 1 <= Chunks /\ \A n \in 1..Chunks : n \in Nat /\ n <= Chunks
    BY BrakeAssumption
  <2> QED
    BY <1>1, <2>1, CalmSpawn DEF NeedsVerification, Repair, TooWide
<1> QED
  BY <1>1, CalmSteps, CalmFleet DEF Next

LEMMA MeteredStep == Inv /\ Metered /\ [Next]_vars => Metered'
<1> SUFFICES ASSUME Inv, Metered, [Next]_vars PROVE Metered'
  OBVIOUS
<1>0. /\ left \in [Workers -> Nat] /\ at \in [Workers -> Places] /\ Chunks \in Nat
      /\ \A v \in Workers : left[v] \in Nat
  BY BrakeAssumption DEF Inv, TypeOK
<1>1. CASE Calm
  BY <1>0, <1>1 DEF Calm, Steady, Metered
<1>2. ASSUME NEW w \in Workers, Brakes(w) PROVE Metered'
  BY <1>0, <1>2 DEF Brakes, Goto, After, Metered
<1>3. ASSUME NEW w \in Workers, Create(w) PROVE Metered'
  BY <1>0, <1>3 DEF Create, Goto, After, Metered
<1>4. CASE UNCHANGED vars
  BY <1>4 DEF vars, work, Metered
<1> QED
  BY <1>1, <1>2, <1>3, <1>4, CalmOrNot

\* When neither what stands nor what is promised grows, nor does the sum.
LEMMA SumShrinks ==
  ASSUME TypeOK, TypeOK', NEW r, Standing(r)' \subseteq Standing(r), Promised(r)' \subseteq Promised(r)
  PROVE  Cardinality(Standing(r)') + Cardinality(Promised(r)')
           <= Cardinality(Standing(r)) + Cardinality(Promised(r))
<1>1. /\ IsFiniteSet(Standing(r)) /\ Cardinality(Standing(r)) \in Nat
      /\ IsFiniteSet(Promised(r)) /\ Cardinality(Promised(r)) \in Nat
  BY StandingFinite, PromisedFinite
<1>2. IsFiniteSet(Standing(r)') /\ Cardinality(Standing(r)') <= Cardinality(Standing(r))
  BY <1>1, FS_Subset
<1>3. IsFiniteSet(Promised(r)') /\ Cardinality(Promised(r)') <= Cardinality(Promised(r))
  BY <1>1, FS_Subset
<1>4. Cardinality(Standing(r)') \in Nat /\ Cardinality(Promised(r)') \in Nat
  BY <1>2, <1>3, FS_CardinalityType
<1> QED
  BY <1>1, <1>2, <1>3, <1>4

\* One root of Bounded.
Within(r) ==
  Cardinality(Standing(r)) + Cardinality(Promised(r)) <= board.cap - 1 + Chunks * Cardinality(Workers)

LEMMA WithinKept ==
  ASSUME Inv, Inv', NEW r, Within(r), board'.cap = board.cap,
         Standing(r)' \subseteq Standing(r), Promised(r)' \subseteq Promised(r)
  PROVE  Within(r)'
<1> DEFINE a == Cardinality(Standing(r)) + Cardinality(Promised(r))
           b == Cardinality(Standing(r)') + Cardinality(Promised(r)')
           c == board.cap - 1 + Chunks * Cardinality(Workers)
<1>1. b <= a
  BY SumShrinks DEF Inv
<1>2. a <= c
  BY DEF Within
<1>3. a \in Nat
  BY StandingFinite, PromisedFinite DEF Inv
<1>4. b \in Nat
  <2>1. IsFiniteSet(Standing(r)') /\ IsFiniteSet(Promised(r)')
    BY FS_Subset, StandingFinite, PromisedFinite DEF Inv
  <2> QED
    BY <2>1, FS_CardinalityType
<1>5. c \in Int
  <2>1. board.cap \in Nat /\ Chunks \in Nat
    BY BrakeAssumption DEF Inv, TypeOK
  <2> QED
    BY <2>1, AllPromised
<1>6. b <= c
  <2> HIDE DEF a, b, c
  <2> QED
    BY <1>1, <1>2, <1>3, <1>4, <1>5
<1> QED
  BY <1>6 DEF Within

LEMMA BrakesBounded ==
  ASSUME Inv, Inv', Alone, Next, NEW w \in Workers, Brakes(w), NEW r \in Ids,
         board.cap > 0, "unread" \notin Marked(r)', Within(r)
  PROVE  Within(r)'
<1> USE OfWorker
<1>0. /\ task' = task /\ on' = on /\ left' = left /\ at[w] = "brakes" /\ on[w] \in DOMAIN task
      /\ Kept /\ marks \subseteq marks' /\ board'.cap = board.cap
  <2>1. task' = task /\ on' = on /\ left' = left /\ at[w] = "brakes"
    BY DEF Brakes
  <2>2. marks \subseteq marks' /\ (Sound \/ Lost("list"))
    BY DEF Brakes, Unread, Mark
  <2> QED
    BY <2>1, <2>2, SameKeeps, CapKept DEF Inv, TypeOK
<1>1. Standing(r)' \subseteq Standing(r)
  BY <1>0, StandingShrinks
<1>2. \A v : LineageRoot(v)' = LineageRoot(v)
  BY <1>0 DEF LineageRoot, Mine
<1>3. CASE LineageRoot(w) # r
  <2>1. \A v \in Workers \ {w} : at'[v] = at[v]
    BY DEF Brakes, Goto
  <2>2. Promised(r)' \subseteq Promised(r)
    BY <1>0, <1>2, <1>3, <2>1 DEF Promised
  <2> QED
    BY <1>0, <1>1, <2>2, WithinKept
<1>4. CASE LineageRoot(w) = r /\ at'[w] # "create"
  <2>1. \A v \in Workers \ {w} : at'[v] = at[v]
    BY DEF Brakes, Goto
  <2>2. Promised(r)' \subseteq Promised(r)
    BY <1>0, <1>2, <1>4, <2>1 DEF Promised
  <2> QED
    BY <1>0, <1>1, <2>2, WithinKept
<1>5. CASE LineageRoot(w) = r /\ at'[w] = "create"
  <2>1. ~RootReached(r)
    <3>1. ~Unread(w)
      <4>1. Unread(w) => <<r, "unread">> \in marks'
        BY <1>5 DEF Unread, Mark
      <4> QED
        BY <4>1 DEF Marked, Marks
    <3>2. at'[w] # After(job[w])
      BY <1>5 DEF After
    <3> QED
      BY <1>5, <3>1, <3>2 DEF Brakes, Goto
  <2>2. board.cap \in Nat
    BY DEF BoardType
  <2>3. Cardinality(OpenDescendants(r)) <= board.cap - 1
    BY <2>1, <2>2, StandingFinite DEF RootReached, Inv
  <2>4. IsFiniteSet(Standing(r)) /\ Cardinality(Standing(r)) \in Nat
    BY StandingFinite DEF Inv
  <2>5. IsFiniteSet(Standing(r)') /\ Cardinality(Standing(r)') <= Cardinality(Standing(r))
    BY <1>1, <2>4, FS_Subset
  <2>6. Cardinality(Standing(r)') \in Nat
    BY <2>5, FS_CardinalityType
  <2>7. Cardinality(Standing(r)') <= board.cap - 1
    BY <2>2, <2>3, <2>4, <2>5, <2>6, StandingFinite DEF Inv
  <2>8. Cardinality(Promised(r)') \in Nat /\ Cardinality(Promised(r)') <= Chunks * Cardinality(Workers)
    <3>1. Promised(r)' \in SUBSET (Workers \X (1..Chunks))
      BY DEF Promised
    <3> QED
      BY <3>1, AllPromised, FS_Subset, FS_CardinalityType
  <2>9. Chunks * Cardinality(Workers) \in Nat
    BY AllPromised, BrakeAssumption
  <2> QED
    BY <1>0, <2>2, <2>6, <2>7, <2>8, <2>9 DEF Within
<1> QED
  BY <1>3, <1>4, <1>5

LEMMA CreateBounded ==
  ASSUME Inv, Inv', Alone, Metered, Next, NEW w \in Workers, Create(w), NEW r \in Ids, Within(r)
  PROVE  Within(r)'
<1> USE OfWorker
<1>0. /\ at[w] = "create" /\ on' = on /\ board' = board /\ marks' = marks
      /\ on[w] \in DOMAIN task /\ task' = Append(task, Child(w))
      /\ left' = [left EXCEPT ![w] = @ - 1]
  BY DEF Create, Inv, TypeOK
<1>n. PICK new : new = Len(task) + 1
  OBVIOUS
<1>1. /\ Kept /\ DOMAIN task' = DOMAIN task \cup {new} /\ task'[new] = Child(w)
      /\ new \notin DOMAIN task
  BY <1>0, <1>n, ChildLabels, AppendKeeps
<1>2. Child(w).root = LineageRoot(w)
  BY DEF Child
<1>3. left[w] \in 1..Chunks /\ left'[w] = left[w] - 1
  <2>1. left[w] > 0 /\ left[w] <= Chunks
    BY <1>0 DEF Inv, Granted, Metered
  <2> QED
    BY <1>0, <2>1, BrakeAssumption
<1>4. \A v \in Workers \ {w} : at'[v] = at[v] /\ left'[v] = left[v]
  BY <1>0 DEF Create, Goto
<1>5. Steady
  <2>1. left'[w] \in Nat /\ left'[w] <= left[w]
    BY <1>3
  <2> QED
    BY <1>0, <1>4, <2>1 DEF Steady
<1>6. Promised(r)' \subseteq Promised(r)
  BY <1>1, <1>5, PromisedShrinks
<1>7. CASE LineageRoot(w) # r
  <2>1. Standing(r)' \subseteq Standing(r)
    BY <1>0, <1>1, <1>2, <1>7, StandingShrinks
  <2> QED
    BY <1>0, <1>6, <2>1, WithinKept
<1>8. CASE LineageRoot(w) = r
  <2>1. PICK x : x = <<w, left[w]>>
    OBVIOUS
  <2>2. x \in Promised(r)
    BY <1>0, <1>3, <1>8, <2>1 DEF Promised
  <2>3. x \notin Promised(r)'
    BY <1>3, <2>1 DEF Promised
  <2>4. Standing(r)' \subseteq Standing(r) \cup {new}
    <3>1. \A u : Once(u)' => Once(u)
      BY <1>0, MarksStay
    <3>2. \A u \in DOMAIN task : task'[u].root = task[u].root
      BY <1>1 DEF Kept
    <3> QED
      BY <1>1, <3>1, <3>2, DoneStays DEF Standing, OpenDescendants, Open
  <2>5. /\ IsFiniteSet(Standing(r)) /\ Cardinality(Standing(r)) \in Nat
        /\ IsFiniteSet(Promised(r)) /\ Cardinality(Promised(r)) \in Nat
    BY StandingFinite, PromisedFinite DEF Inv
  <2>6. /\ IsFiniteSet(Standing(r) \cup {new})
        /\ Cardinality(Standing(r) \cup {new}) <= Cardinality(Standing(r)) + 1
        /\ Cardinality(Standing(r) \cup {new}) \in Nat
    <3>1. /\ IsFiniteSet(Standing(r) \cup {new})
          /\ Cardinality(Standing(r) \cup {new}) =
               IF new \in Standing(r) THEN Cardinality(Standing(r)) ELSE Cardinality(Standing(r)) + 1
      BY <2>5, FS_AddElement
    <3> QED
      BY <2>5, <3>1
  <2>7. /\ IsFiniteSet(Standing(r)')
        /\ Cardinality(Standing(r)') <= Cardinality(Standing(r) \cup {new})
    BY <2>4, <2>6, FS_Subset
  <2>8. /\ IsFiniteSet(Promised(r) \ {x})
        /\ Cardinality(Promised(r) \ {x}) = Cardinality(Promised(r)) - 1
    BY <2>2, <2>5, FS_RemoveElement
  <2>9. /\ IsFiniteSet(Promised(r)')
        /\ Cardinality(Promised(r)') <= Cardinality(Promised(r) \ {x})
    <3>1. Promised(r)' \in SUBSET (Promised(r) \ {x})
      BY <1>6, <2>3
    <3> QED
      BY <2>8, <3>1, FS_Subset
  <2>10. Cardinality(Standing(r)') \in Nat /\ Cardinality(Promised(r)') \in Nat
    BY <2>7, <2>9, FS_CardinalityType
  <2>11. Cardinality(Standing(r)') + Cardinality(Promised(r)')
           <= Cardinality(Standing(r)) + Cardinality(Promised(r))
    BY <2>5, <2>6, <2>7, <2>8, <2>9, <2>10
  <2>12. board.cap - 1 + Chunks * Cardinality(Workers) \in Int
    <3>1. board.cap \in Nat /\ Chunks \in Nat
      BY BrakeAssumption DEF Inv, TypeOK
    <3> QED
      BY <3>1, AllPromised
  <2> QED
    BY <1>0, <2>5, <2>10, <2>11, <2>12 DEF Within
<1> QED
  BY <1>7, <1>8

LEMMA BoundedStep == Inv /\ Inv' /\ Alone /\ Metered /\ Bounded /\ [Next]_vars => Bounded'
<1> SUFFICES ASSUME Inv, Inv', Alone, Metered, Bounded, Next PROVE Bounded'
  <2>1. ASSUME Bounded, UNCHANGED vars PROVE Bounded'
    BY <2>1 DEF vars, work, Bounded, Standing, Promised, OpenDescendants, Open, Once, Marked,
       LineageRoot, Mine
  <2> QED
    BY <2>1
<1>0. board'.cap = board.cap /\ marks \subseteq marks'
  <2>1. CASE Calm
    BY <2>1 DEF Calm
  <2>2. ASSUME NEW w \in Workers, Brakes(w) PROVE board'.cap = board.cap /\ marks \subseteq marks'
    BY <2>2, OfWorker, CapKept DEF Brakes, Unread, Mark
  <2>3. ASSUME NEW w \in Workers, Create(w) PROVE board'.cap = board.cap /\ marks \subseteq marks'
    BY <2>3 DEF Create
  <2> QED
    BY <2>1, <2>2, <2>3, CalmOrNot
<1> SUFFICES ASSUME NEW r \in Ids, board.cap > 0, "unread" \notin Marked(r)' PROVE Within(r)'
  BY <1>0 DEF Bounded, Within
<1>1. Within(r)
  BY <1>0, MarksStay DEF Bounded, Within
<1>2. CASE Calm
  <2>1. r # NoId
    BY DEF Ids, NoId
  <2>2. Standing(r)' \subseteq Standing(r)
    BY <1>2, <2>1, StandingShrinks DEF Calm
  <2>3. Promised(r)' \subseteq Promised(r)
    BY <1>2, PromisedShrinks DEF Calm
  <2> QED
    BY <1>0, <1>1, <2>2, <2>3, WithinKept
<1> QED
  BY <1>1, <1>2, CalmOrNot, BrakesBounded, CreateBounded

\* However the workers interleave their reads of the board and their creations,
\* the open descendants of a lineage root stay below the cap plus one split per
\* worker (work_ceiling), for any number of workers, chunks and tasks.
THEOREM RootStaysBounded == Spec => []RootBound
<1>1. Init => Metered /\ Bounded
  <2> SUFFICES ASSUME Init PROVE Metered /\ Bounded
    OBVIOUS
  <2>1. Inv /\ \A w \in Workers : at[w] = "idle"
    BY InitInv DEF Init
  <2>2. Metered
    BY <2>1 DEF Metered
  <2>3. ASSUME NEW r \in Ids PROVE Standing(r) = {} /\ Promised(r) = {}
    <3>1. \A t \in DOMAIN task : task[t].root = NoId
      BY DEF Init, Authored
    <3>2. r # NoId
      BY DEF Ids, NoId
    <3> QED
      BY <2>1, <3>1, <3>2 DEF Standing, OpenDescendants, Promised
  <2>4. Cardinality({}) = 0
    BY FS_EmptySet
  <2>5. board.cap \in Nat /\ Chunks * Cardinality(Workers) \in Nat
    BY <2>1, AllPromised, BrakeAssumption DEF Inv, TypeOK
  <2>6. board.cap > 0 => 0 + 0 <= board.cap - 1 + Chunks * Cardinality(Workers)
    BY <2>5
  <2>7. \A r \in Ids : Cardinality(Standing(r)) = 0 /\ Cardinality(Promised(r)) = 0
    BY <2>3, <2>4
  <2> QED
    BY <2>2, <2>6, <2>7 DEF Bounded
<1>2. Inv /\ Bounded => RootBound
  <2> SUFFICES ASSUME Inv, Bounded, board.cap > 0, NEW r \in Authors, "unread" \notin Marked(r)
               PROVE  Cardinality({t \in OpenDescendants(r) : "again" \notin Marked(t)})
                        <= board.cap - 1 + Chunks * Cardinality(Workers)
    BY DEF RootBound
  <2>1. r \in Ids
    BY IdsInRange DEF Authors, Inv
  <2>2. Cardinality(Standing(r)) + Cardinality(Promised(r))
          <= board.cap - 1 + Chunks * Cardinality(Workers)
    BY <2>1 DEF Bounded
  <2>3. Cardinality(Standing(r)) \in Nat /\ Cardinality(Promised(r)) \in Nat
    BY StandingFinite, PromisedFinite DEF Inv
  <2>4. board.cap - 1 + Chunks * Cardinality(Workers) \in Int
    <3>1. board.cap \in Nat /\ Chunks \in Nat
      BY BrakeAssumption DEF Inv, TypeOK
    <3> QED
      BY <3>1, AllPromised
  <2>5. Cardinality(Standing(r)) <= board.cap - 1 + Chunks * Cardinality(Workers)
    BY <2>2, <2>3, <2>4
  <2> QED
    BY <2>5 DEF Standing, Once
<1> QED
  BY <1>1, <1>2, InitInv, InvStep, InitAlone, AloneStep, MeteredStep, BoundedStep, PTL DEF Spec
=============================================================================
