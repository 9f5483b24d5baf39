CONSTANTS
  Procs = {p1, p2, p3}
  Repos = {r1}
  None = None
  Free = Free
  Corrupt = Corrupt
  Crashes = TRUE
  Interrupts = TRUE
  Unlocks = {"stale", "force"}
SPECIFICATION FairSpec
INVARIANTS OneAuditUnlessExposed LockNamesBusy
PROPERTY DispatchEnds
\* Every process exits in the end and the operator need not act.
CHECK_DEADLOCK FALSE
