CONSTANTS
  Workers = {w1, w2}
  Chunks = 2
  Suggestions = 2
  Ceiling = 4
  Boards <- MCBoards
  MaxTasks = 6
  MaxCount = 4
SPECIFICATION Spec
INVARIANTS RootBound LineageEnds ClosedHonest LastChildCloses
SYMMETRY WorkerSymmetry
CHECK_DEADLOCK FALSE
