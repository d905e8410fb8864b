CONSTANTS
  SliceSize = 500
  ShortLength = 126
  MaxFrameSize = 4194304
  FreshDecoder = FALSE
  Lengths <- UnitTestLengths
  MaxSends = 2
  MaxBeats = 0
SPECIFICATION Spec
INVARIANTS Reassembled
CHECK_DEADLOCK FALSE
