CONSTANTS
  r1 = r1  r2 = r2  b1 = b1  b2 = b2
  Backends = {b1, b2}
  BackendOf <- MCBackendOf
  BackendCap <- MCBackendCap
  None = None
  GlobalCap = 2
  Executors = {e1, e2}
  Runs = {r1, r2, r3, r4, r5}
  Startups = {}
  Watchdogs = {w}
SPECIFICATION Spec
SYMMETRY Symmetry
INVARIANTS SlotsAccountedFor BackendOvershoot GlobalOvershoot
