CONSTANTS
  MaxMsgs = 1
  MaxIn = 0
  Size = 2
  PrependSize = 2
  InitialSize = 1
  MaxBufSize = 2
  Junk = Junk
SPECIFICATION FairSpec
PROPERTIES RemainderSent
CHECK_DEADLOCK FALSE
