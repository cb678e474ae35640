SPECIFICATION Spec
CONSTANTS
  t1 = t1
  t2 = t2
  t3 = t3
  b1 = b1
  b2 = b2
  Thread = {t1}
  NULL = NULL
  MASTER = MASTER
  Block = {b1, b2}
  Role <- OneUser
  Opened = {}
  Stack = {"given", "allocated", "refused"}
  Batched = FALSE
INVARIANT AllFreed
CHECK_DEADLOCK FALSE
