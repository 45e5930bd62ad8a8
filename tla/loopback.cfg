SPECIFICATION Spec
CONSTANTS
  PayloadSize = 2
  BlockSize = 2
  FifoSize = 8
  BufferSize = 8
  Sizes = {1, 3}
  MaxWrites = 3
  MaxLosses = 1
CHECK_DEADLOCK FALSE
INVARIANTS TypeOK OnceAndInOrder NothingLost MismatchExplained OverflowsOnFailedFetchOnly SerGetBufIsTrue
PROPERTY BenchmarkEnds
