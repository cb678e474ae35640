SPECIFICATION Spec
CONSTANTS
  t1 = t1
  t2 = t2
  t3 = t3
  Thread <- MCThread
  NULL = NULL
  Api = {"async", "callback"}
  Size = {1, 3}
  InL2 = {TRUE, FALSE}
  MAX_CHUNK = 2
  WORD = 8
  Ioctl = {"CONF_SETUP", "ABORT_RX", "ABORT_TX", "ENABLE_TX"}
SYMMETRY Symmetry
INVARIANTS TypeOK FifoOnce FifoLinked NodesAlive ChannelOwner NoStaleCompletion
CHECK_DEADLOCK FALSE
