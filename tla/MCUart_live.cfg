SPECIFICATION FairSpec
CONSTANTS
  t1 = t1
  t2 = t2
  t3 = t3
  Thread <- MCThread
  NULL = NULL
  Api = {"blocking"}
  Size = {1, 2}
  InL2 = {TRUE}
  MAX_CHUNK = 2
  WORD = 8
  Ioctl = {}
INVARIANTS HandlerFindsTask WindowInBuffer NoSemaphoreLeak
PROPERTIES TransferEnds ImplementsService
