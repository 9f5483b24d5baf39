CONSTANTS
  Configs <- Guarded
  MaxHead = 2  MaxFix = 1  MaxLoops = 1  MaxLevel = 1  MaxCiFix = 1  MaxSettle = 1
  MaxRetract = 1  MaxRebase = 1  MaxRequeue = 1
  Patience <- Waits
  Day = 1  MaxHour = 1  MaxFaults = 1  MaxEvents = 0
SPECIFICATION FairSpec
PROPERTY PrSettles
