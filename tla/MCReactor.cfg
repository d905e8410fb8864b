CONSTANTS
  Threads = {p1, p2}
  Owner = p1
  Tasks = {a, b, c}
  NoThread = NoThread
  NoTask = NoTask
SPECIFICATION ThreadFairSpec
INVARIANTS LoopInv NoLostWakeup NoLostQuit HandleValid
PROPERTIES RunsInOrder QueuedRuns QuitStops StartReturns DestructorEnds
CHECK_DEADLOCK FALSE
