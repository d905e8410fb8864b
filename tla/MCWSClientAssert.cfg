CONSTANTS
  h1 = h1
  h2 = h2
  TimerThreads <- MCTimerThreads
  MaxPings = 3
  MaxTasks = 2
  MaxTimers = 3
SPECIFICATION Spec
INVARIANTS
  StartsDisconnected
SYMMETRY
  Symmetric
CHECK_DEADLOCK FALSE
