SPECIFICATION Spec
CONSTANTS
  t1 = t1
  t2 = t2
  t3 = t3
  b1 = b1
  b2 = b2
  Thread = {t1, t2, t3}
  NULL = NULL
  MASTER = MASTER
  Block = {b1, b2}
  Role <- SendersAndUser
  Opened = {t1, t2}
  Stack = {"given", "allocated", "refused"}
  Batched = TRUE
INVARIANTS NoWrongAccess QueueLinked OpenedReady DoneMeansFinished
PROPERTIES WaitFreeWaits MailboxKept ImplementsDelegation
