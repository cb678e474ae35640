SPECIFICATION FairSpec
CONSTANTS
  s1 = s1
  s2 = s2
  x = x
  NB_PE = 3
  Stack = {s1, s2}
  Entry <- MCEntry
  Arg = {x}
  FIFO_DEPTH = 5
  NULL = NULL
INVARIANTS TypeOK StackOfTask
PROPERTIES ForkReturns ImplementsForkJoin
