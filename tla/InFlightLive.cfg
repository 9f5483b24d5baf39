CONSTANTS
  r1 = r1  r2 = r2  b1 = b1  b2 = b2
  Backends = {b1, b2}
  BackendOf <- MCBackendOf
  BackendCap <- MCBackendCap
  None = None
  GlobalCap = 1
  Executors = {e1}
  Runs = {r1, r3}
  Startups = {s}
  Watchdogs = {w}
SPECIFICATION FairSpec
PROPERTY LeakCleared
