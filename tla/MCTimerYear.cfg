CONSTANTS
  t1 = t1
  t2 = t2
  Timers <- MCTimers
  Sentinel = sentinel
  NotArmed = notArmed
  MaxDelay = 1
  Year = 3
  YearPasses = TRUE
  MaxStep = 0
SPECIFICATION Spec
INVARIANTS
  SentinelSleeps
CHECK_DEADLOCK FALSE
