\* The caller's values are assigned before construction, as note_test does.
CONSTANTS
  W = 6
  HexLen = 2
  P = 47
  LenA = 1
  LenV = 2
  Hash <- MCHash
  Digests <- MCDigests
  Values <- MCValues
SPECIFICATION Spec
INVARIANTS CommitmentAgreement
\* A gadget's life ends after its two passes, or at a failed assertion.
CHECK_DEADLOCK FALSE
