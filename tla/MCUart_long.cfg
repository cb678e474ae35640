SPECIFICATION Spec
CONSTANTS
  t1 = t1
  t2 = t2
  t3 = t3
  Thread <- MCThread
  NULL = NULL
  Api = {"blocking", "async"}
  Size = {3}
  InL2 = {TRUE}
  MAX_CHUNK = 2
  WORD = 8
  Ioctl = {}
INVARIANT WindowInBuffer
