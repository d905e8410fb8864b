CONSTANTS
  i1 = i1
  i2 = i2
  MaxConns = 2
  Ids <- MCIds
  Timeout = 1
  NoId = NoId
SPECIFICATION FairSpec
INVARIANTS
  Watched
  Registered
  NullOnlyIfBothClose
PROPERTIES
  SilentDropped
  ClosedForgotten
CHECK_DEADLOCK FALSE
