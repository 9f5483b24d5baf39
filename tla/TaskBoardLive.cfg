CONSTANTS
  t1 = t1  t2 = t2  w1 = w1  None = None
  Tasks = {t1}
  Kind <- AllGoals
  Approved = {}
  Blocker <- Alone
  Parent <- ChildOfT2
  FollowOn = {}
  Campaign = {t1}
  ThinGoals = {}
  AwaitReview = {t1}
  Gated = {t1}
  Workers = {w1}
  Role <- GoalRole
  Unblockers = {u1}
  Failures = {"infra", "policy", "capacity"}
  CodeCap = 0
  MaxCount = 2
  Deaths = TRUE
  Operator = {}
SPECIFICATION FairSpec
PROPERTIES PolicyHeld StrandedRecovers BlockedMovesOn MergedSettles
