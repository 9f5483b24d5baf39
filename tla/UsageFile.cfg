CONSTANTS
  c1 = c1  c2 = c2  c3 = c3  p1 = p1  p2 = p2
  Callers = {c1, c2, c3}
  Procs = {p1, p2}
  ProcOf <- TwoProcOf
  Inodes = {i1, i2, i3, i4, i5, i6}
  Absent = Absent
  Empty = Empty  Mixed = Mixed
  Crashes = TRUE
SPECIFICATION FileFairSpec
INVARIANTS LedgerKept IsolatedEventKept
PROPERTY RecordEnds
\* Every caller records one event and stops.
CHECK_DEADLOCK FALSE
