SPECIFICATION Spec
CONSTANTS
  Policies <- Tasks
  Results <- Answers
  Absent = Absent
  MaxPieces = 3
INVARIANTS NoReplay TrailTells ClaimedDelivered AcceptedInScope
PROPERTIES RemoteKept
CHECK_DEADLOCK FALSE
