CONSTANTS
  SliceSize = 500
  ShortLength = 126
  MaxFrameSize = 1498
  FreshDecoder = FALSE
  Lengths <- MCLengths
  MaxSends = 3
  MaxBeats = 1
SPECIFICATION Spec
INVARIANTS Intact DeliveredInOrder NothingSwallowed AbortsOnlyOnWholeSlices OverrunsOnlyIfTooLong
CHECK_DEADLOCK FALSE
