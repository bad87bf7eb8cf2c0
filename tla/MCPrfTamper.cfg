\* A secret bit flipped after both passes.
CONSTANTS
  W = 6
  HexLen = 2
  P = 47
  Hash <- MCHash
  Secrets <- MCSecrets
  Rights <- MCRights
  Gadgets <- MCGadgets
  AssignFirst = TRUE
SPECIFICATION Spec
INVARIANT TamperDetected
\* A gadget's life ends after its two passes.
CHECK_DEADLOCK FALSE
