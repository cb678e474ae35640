SPECIFICATION Spec
CONSTANTS
  HEAP_START = 36
  HEAP_SIZE = 93
  MAX_LIVE = 4
  Request <- MCAligned
INVARIANT NoCorruption
CHECK_DEADLOCK FALSE
