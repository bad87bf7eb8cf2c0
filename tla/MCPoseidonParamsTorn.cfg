CONSTANTS
  t1 = t1
  t2 = t2
  t3 = t3
  Threads <- MCThreads
  NC = 3
  T = 3
  MaxFailures = 1
SPECIFICATION Spec
INVARIANT ReturnedSeesConstants
CHECK_DEADLOCK FALSE
