------------------------------ MODULE PrPromise ------------------------------
(***************************************************************************)
(* What the review watcher promises about one pull request and its task,   *)
(* without polls, reviews, files or failures: it ends a pull request at    *)
(* most once, marks the task Done only for work it merged, never closes    *)
(* without first handing the task back, and hands it back to the queue at  *)
(* most MaxRequeue times; after that the task waits for a human.  A human  *)
(* may end the pull request at any time ("taken").                         *)
(***************************************************************************)
EXTENDS Naturals

CONSTANT MaxRequeue
VARIABLES pr, task, requeues

vars == <<pr, task, requeues>>

Init == pr = "open" /\ task = "In Review" /\ requeues = 0

Merge == pr = "open" /\ pr' = "merged" /\ UNCHANGED <<task, requeues>>

Finish == pr = "merged" /\ task' = "Done" /\ UNCHANGED <<pr, requeues>>

\* Back to the queue.
HandBack ==
  /\ requeues < MaxRequeue /\ requeues' = requeues + 1
  /\ task' = "Ready"
  /\ UNCHANGED pr

\* To a human, once the re-queues are used up.
Block == requeues = MaxRequeue /\ task' = "Blocked" /\ UNCHANGED <<pr, requeues>>

\* A re-queue that is charged and does not happen.
Charge == requeues < MaxRequeue /\ requeues' = requeues + 1 /\ UNCHANGED <<pr, task>>

Close ==
  /\ pr = "open" /\ task \in {"Ready", "Blocked"}
  /\ pr' = "closed"
  /\ UNCHANGED <<task, requeues>>

Take == pr = "open" /\ pr' = "taken" /\ UNCHANGED <<task, requeues>>

Next == Merge \/ Finish \/ HandBack \/ Block \/ Charge \/ Close \/ Take

Spec == Init /\ [][Next]_vars
============================================================================
