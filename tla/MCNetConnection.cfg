CONSTANTS
  MaxMsgs = 2
  MaxIn = 3
  Size = 3
  PrependSize = 2
  InitialSize = 1
  MaxBufSize = 2
  Junk = Junk
SPECIFICATION FairSpec
INVARIANTS WholeMessages ReadIntact UpcallProtocol NullOnlyAfterLocalClose SentUnlessStalled
PROPERTIES CloseNotified
CHECK_DEADLOCK FALSE
