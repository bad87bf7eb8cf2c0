\* A prover free to choose temp_result after both passes.
CONSTANTS
  W = 6
  HexLen = 2
  P = 47
  LenA = 1
  LenV = 2
  Hash <- MCHash
  Digests <- MCDigests
  Values <- MCValues
SPECIFICATION Spec
INVARIANT CmBoundToHash
\* A gadget's life ends after its two passes, or at a failed assertion.
CHECK_DEADLOCK FALSE
