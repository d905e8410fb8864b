CONSTANTS
  t1 = t1
  t2 = t2
  Timers <- MCTimers
  Sentinel = sentinel
  NotArmed = notArmed
  MaxDelay = 2
  Year = 9
  YearPasses = FALSE
  MaxStep = 1
SPECIFICATION FairSpec
INVARIANTS
  TimerInv
  Armed
  RepeatingStays
PROPERTIES
  DueRuns
CHECK_DEADLOCK FALSE
