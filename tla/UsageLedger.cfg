SPECIFICATION Spec
CONSTANTS
  Scenes <- MCScenes
  sonnet = sonnet  opus = opus  session = session
  Models = {sonnet, opus}
  Wide = {session}
  Runs = {1, 2, 3}
  Hour = 1  Day = 2  Week = 2
  MaxReset = 3
  MaxTime = 3
  None = None
INVARIANTS TypeOK RateBound SlotSeen CooldownKept BlockedHonest
CHECK_DEADLOCK FALSE
