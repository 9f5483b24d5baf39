---------------------------- MODULE MCTaskBoard ----------------------------
(* Small instances of TaskBoard: goal tasks and a worker of the goal role. *)
(* t2, where there is one, is the parent of t1.                            *)
EXTENDS TaskBoard

CONSTANTS t1, t2, w1

AllGoals == [t \in Tasks |-> "goal"]
GoalRole == [w \in Workers |-> "goal"]
Alone == [t \in Tasks |-> None]
ChildOfT2 == [t \in Tasks |-> IF t = t1 /\ t2 \in Tasks THEN t2 ELSE None]
============================================================================
