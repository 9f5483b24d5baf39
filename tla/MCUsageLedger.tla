--------------------------- MODULE MCUsageLedger ---------------------------
(* Small instances of UsageLedger: dispatches and other events, without    *)
(* cooldowns, with sweeps in two of them; and cooldowns with a probe, the  *)
(* dispatches being other events, with resets beyond the seven days in one *)
(* of them.                                                                *)
EXTENDS UsageLedger

CONSTANTS sonnet, opus, session

Dispatches(executors, keep) ==
  [executors |-> executors, keys |-> {}, keep |-> keep, noise |-> FALSE,
   probing |-> FALSE, sweeping |-> FALSE, reset |-> 0, end |-> MaxTime,
   hourCap |-> 1, dayCap |-> 2, slotCap |-> 2]

Cooldowns(keys, keep, reset) ==
  [Dispatches({}, keep) EXCEPT !.keys = keys, !.probing = TRUE, !.reset = reset]

MCScenes ==
  {Dispatches({"e1", "e2"}, 4),
   [Dispatches({"e1", "e2"}, 7) EXCEPT !.sweeping = TRUE, !.slotCap = 1, !.end = 1],
   [Dispatches({"e1"}, 6) EXCEPT !.sweeping = TRUE],
   [Cooldowns({sonnet, session}, 2, 3) EXCEPT !.noise = TRUE],
   [Cooldowns({sonnet, opus, session}, 3, 2) EXCEPT !.end = 2]}
============================================================================
