CONSTANTS
  SliceSize = 500
  ShortLength = 126
  MaxFrameSize = 4194304
  FreshDecoder = TRUE
  Lengths <- ServerLengths
  MaxSends = 2
  MaxBeats = 1
SPECIFICATION Spec
INVARIANTS Intact
CHECK_DEADLOCK FALSE
