SPECIFICATION Spec
CONSTANTS
  HEAP_START = 36
  HEAP_SIZE = 93
  MAX_LIVE = 4
  Request <- MCRequest
INVARIANTS FreeListCoalesced BlocksIntact NothingLost
PROPERTY ImplementsHeap
CHECK_DEADLOCK FALSE
