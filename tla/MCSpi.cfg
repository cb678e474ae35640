SPECIFICATION FairSpec
CONSTANTS
  t1 = t1
  t2 = t2
  t3 = t3
  b1 = b1
  b2 = b2
  b3 = b3
  Thread = {t1, t2, t3}
  NULL = NULL
  CsBlock = {b1, b2, b3}
  ChipSelect <- MCChipSelect
  Calls <- MCCalls
  MAX_LEN = 1
  Interface = {0, 1}
  OpenOutcome = {"ok", "no_data", "no_fifo", "no_memory", "clk_div"}
  MAX_OPEN = 3
INVARIANTS TypeOK QueueLinked BusOwned DeviceServed
PROPERTIES TransferEnds ImplementsService
CHECK_DEADLOCK FALSE
