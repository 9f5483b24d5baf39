----------------------------- MODULE MCDelivery -----------------------------
EXTENDS Delivery

\* The shipped policy allows one attempt; the others allow more, with what each
\* lets the engine decide.
Shipped == [attempts |-> 1, idempotent |-> FALSE, unknowns |-> FALSE, unknownLimit |-> 0,
            maxDelay |-> 1, rate |-> FALSE, paid |-> FALSE, health |-> FALSE,
            modifies |-> FALSE, dispatches |-> 2, role |-> "goal",
            review |-> TRUE, scoped |-> TRUE, switches |-> FALSE]
Retrying == [Shipped EXCEPT !.attempts = 2, !.scoped = FALSE]
Replaying == [Retrying EXCEPT !.attempts = 3, !.dispatches = 1, !.idempotent = TRUE, !.rate = TRUE]
Modifying == [Replaying EXCEPT !.modifies = TRUE, !.health = TRUE, !.unknowns = TRUE,
              !.unknownLimit = 1, !.review = FALSE]
Analysing == [Retrying EXCEPT !.role = "improve", !.paid = TRUE, !.idempotent = TRUE]
Switching == [Retrying EXCEPT !.switches = TRUE]
Tasks == {Shipped, Retrying, Replaying, Modifying, Analysing, Switching}

Answered(began, ok, cat, code) ==
  [began |-> began, ok |-> ok, cat |-> cat, code |-> code, after |-> 0,
   killed |-> FALSE, net |-> FALSE]
Fault(cat, code) == Answered(TRUE, FALSE, cat, code)
Answers ==
  {Answered(TRUE, TRUE, "none", "none"),
   Fault("timeout", "none"), Fault("validation_failed", "none"),
   Fault("backend_error", "none"), Fault("backend_error", "executor_error"),
   [Fault("backend_error", "executor_error") EXCEPT !.killed = TRUE],
   [Fault("timeout", "none") EXCEPT !.net = TRUE],
   Answered(FALSE, FALSE, "backend_error", "backend_unavailable")}
  \cup {[Fault("backend_error", "rate_limit") EXCEPT !.after = n] : n \in 0..2}
=============================================================================
