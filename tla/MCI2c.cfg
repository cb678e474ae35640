SPECIFICATION FairSpec
CONSTANTS
  t1 = t1
  t2 = t2
  t3 = t3
  Thread = {t1, t2, t3}
  NULL = NULL
  Eot = {TRUE, FALSE}
  Ram = {TRUE, FALSE}
  PlainCall <- MCReads
  EotCall <- MCAll
  MAX_SIZE = 2
  LINK = 5
  WORD = 8
  MAX_OPEN = 3
  Careful = TRUE
INVARIANTS TypeOK QueueLinked BusOwned DoneMeansMoved
PROPERTIES TransferEnds ImplementsService
CHECK_DEADLOCK FALSE
