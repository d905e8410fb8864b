CONSTANTS
  ThreadNum = 3
  MaxTasks = 4
  MaxStarts = 2
SPECIFICATION FairSpec
INVARIANTS
  EnoughAwake
  EachTaskOnce
  StoppedMeansEnded
PROPERTIES
  StopReturns
  QueuedBegins
CHECK_DEADLOCK FALSE
