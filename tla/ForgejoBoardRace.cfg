CONSTANTS
  c1 = c1  c2 = c2
  Clients = {c1, c2}
  Tasks = {t}
  KnownStates = {"Ready for AI", "Blocked"}
  FleetStates = {"Blocked", "Running"}
  Tags = {"retry-count"}
  FirstState = "Ready for AI"
  MaxOps = 2
  MaxLate = 1
  None = None
SPECIFICATION Spec
SYMMETRY Symmetry
INVARIANT NeverStateless
