CONSTANTS
  t1 = t1  t2 = t2  w1 = w1  None = None
  Tasks = {t1, t2}
  Kind <- AllGoals
  Approved = {t2}
  Blocker <- Alone
  Parent <- ChildOfT2
  FollowOn = {t1}
  Campaign = {}
  ThinGoals = {t2}
  AwaitReview = {}
  Gated = {}
  Workers = {w1}
  Role <- GoalRole
  Unblockers = {u1}
  Failures = {"kill", "empty", "infra"}
  CodeCap = 0
  MaxCount = 5
  Deaths = FALSE
  Operator = {"promote", "cancel", "dead"}
SPECIFICATION Spec
INVARIANTS TypeOK KillsBounded
