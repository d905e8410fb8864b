CONSTANTS
  h1 = h1
  h2 = h2
  TimerThreads <- MCTimerThreads
  MaxPings = 3
  MaxTasks = 2
  MaxTimers = 3
SPECIFICATION FairSpec
INVARIANTS
  NeverNull
  OneConnection
  ReconnectPending
  PolledIsLive
PROPERTIES
  SilenceNoticed
  SendEnds
CHECK_DEADLOCK FALSE
