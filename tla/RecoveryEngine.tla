--------------------------- MODULE RecoveryEngine ---------------------------
(***************************************************************************)
(* The decisions of execution/recovery_loop: what kind of failure a result *)
(* is (classifier.py) and what follows from it (engine.py, handlers.py),   *)
(* as pure operators.                                                      *)
(*                                                                         *)
(* A result is a record: ok (success), cat (failure_category, "timeout"    *)
(* also for the status TIMED_OUT), code (the adapter_error_code= prefix of *)
(* the failure reason), after (the retry_after of the reason, 0 when it    *)
(* has none that is usable), killed (the reason names SIGKILL) and net     *)
(* (the reason has a phrase that is_transient_failure takes for a network  *)
(* fault).                                                                 *)
(*                                                                         *)
(* A policy is a record of the fields of RecoveryPolicy that a caller may  *)
(* set, and of what an engine may be built with: a budget checker that     *)
(* refuses (paid), a backend health registry (health), and a handler that  *)
(* answers with a modified request (modifies).                             *)
(***************************************************************************)
EXTENDS Naturals, Sequences, FiniteSets

Categories == {"none", "timeout", "policy_blocked", "validation_failed",
               "routing_error", "backend_error", "scope_too_wide",
               "budget_exhausted"}

\* AdapterErrorCode; "none" when the reason has no such prefix.
Codes == {"none", "timeout", "rate_limit", "auth_failed",
          "backend_unavailable", "contract_rejected", "executor_error",
          "unknown"}

Kinds == {"none", "transient", "timeout", "rate_limit", "auth",
          "configuration", "contract_violation", "backend_unavailable",
          "unknown"}

Retries == {"retry_same_request", "retry_modified_request"}

Decisions == Retries \cup
  {"accept", "reject_unrecoverable", "stop_attempt_budget_exhausted",
   "stop_cost_budget_exhausted", "stop_idempotency_required",
   "stop_backoff_required", "stop_cooldown_required"}

----------------------------------------------------------------------------
\* Mutant: an error that an adapter could not place is taken for one before
\* the request was sent.
ClassifyOptimistic(r) ==
  IF r.ok THEN "none"
  ELSE IF r.cat = "timeout" THEN "timeout"
  ELSE IF r.code \in {"executor_error", "backend_unavailable"} THEN "backend_unavailable"
  ELSE "unknown"

\* DefaultFailureClassifier.classify: the category decides before the code.
Classify(r) ==
  IF r.ok THEN "none"
  ELSE IF r.cat = "timeout" THEN "timeout"
  ELSE IF r.cat \in {"policy_blocked", "routing_error"} THEN "configuration"
  ELSE IF r.cat = "validation_failed" THEN "contract_violation"
  ELSE CASE r.code \in {"rate_limit", "backend_unavailable", "timeout"} -> r.code
         [] r.code = "auth_failed" -> "auth"
         [] r.code = "contract_rejected" -> "contract_violation"
         [] r.code = "executor_error" -> "transient"
         [] OTHER -> "unknown"

\* RecoveryPolicy's defaults; retryable_kinds may be widened to rate limits.
Retryable(p) ==
  {"transient", "timeout", "backend_unavailable"}
    \cup (IF p.rate THEN {"rate_limit"} ELSE {})
NonRetryable == {"auth", "contract_violation", "configuration", "unknown"}
PreSend == {"backend_unavailable"}

\* The registry answers a failure with a cooldown only when the executor was
\* killed: record_failure.
CoolsDown(p, r) == p.health /\ r.killed

UnknownsIn(trail) ==
  Cardinality({i \in DOMAIN trail : trail[i].kind = "unknown"})

Answer(decision, delay) == [decision |-> decision, delay |-> delay]

\* RetrySameRequestHandler, RejectUnrecoverableHandler and the fallback of the
\* engine when no handler answers.
Handle(p, kind, delay) ==
  IF kind \in Retryable(p)
    THEN Answer(IF p.modifies THEN "retry_modified_request" ELSE "retry_same_request", delay)
    ELSE Answer("reject_unrecoverable", 0)

\* Mutant: the attempts are counted from zero.
EvaluateCountsFromZero(p, r, attempt, trail) ==
  LET kind == Classify(r) IN
  IF r.ok THEN Answer("accept", 0)
  ELSE IF attempt > p.attempts THEN Answer("stop_attempt_budget_exhausted", 0)
  ELSE IF kind \in NonRetryable THEN Answer("reject_unrecoverable", 0)
  ELSE IF ~p.idempotent /\ kind \notin PreSend THEN Answer("stop_idempotency_required", 0)
  ELSE Handle(p, kind, 0)

\* RecoveryEngine.evaluate, rules 1 to 12 in their order.
Evaluate(p, r, attempt, trail) ==
  LET kind == Classify(r)
      limited == kind = "rate_limit" IN
  IF r.ok THEN Answer("accept", 0)
  ELSE IF CoolsDown(p, r) THEN Answer("stop_cooldown_required", 0)
  ELSE IF kind = "unknown" /\ ~(p.unknowns /\ UnknownsIn(trail) < p.unknownLimit)
    THEN Answer("reject_unrecoverable", 0)
  ELSE IF attempt >= p.attempts THEN Answer("stop_attempt_budget_exhausted", 0)
  ELSE IF kind \in NonRetryable THEN Answer("reject_unrecoverable", 0)
  ELSE IF ~p.idempotent /\ kind \notin PreSend THEN Answer("stop_idempotency_required", 0)
  ELSE IF p.paid THEN Answer("stop_cost_budget_exhausted", 0)
  ELSE IF limited /\ r.after \notin 1..p.maxDelay THEN Answer("stop_backoff_required", 0)
  ELSE Handle(p, kind, IF limited THEN r.after ELSE 0)

----------------------------------------------------------------------------
\* _subprocess.is_transient_failure: the board worker's own retry.
TransientFailure(r) == ~r.ok /\ r.cat \in {"backend_error", "timeout"} /\ r.net
============================================================================
