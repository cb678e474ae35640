SPECIFICATION FairSpec
CONSTANTS
  t1 = t1
  t2 = t2
  t3 = t3
  b1 = b1
  b2 = b2
  Thread = {t1, t2}
  NULL = NULL
  MASTER = MASTER
  Block = {b1, b2}
  Role <- Senders
  Opened = {t1, t2}
  Stack = {"given", "allocated"}
  Batched = TRUE
PROPERTY SendReturns
