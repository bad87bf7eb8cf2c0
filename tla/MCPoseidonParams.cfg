\* Three threads, up to two failed allocations; callers stop once each has
\* called poseidon_params once.
CONSTANTS
  t1 = t1
  t2 = t2
  t3 = t3
  Threads <- MCThreads
  NC = 3
  T = 3
  MaxFailures = 2
SPECIFICATION Spec
INVARIANT TypeOK
INVARIANT FailureFreeSeesConstants
INVARIANT ReturnedSeesRoundConstants
CHECK_DEADLOCK FALSE
