\* Inputs assigned after the gadgets are built, before the witness pass.
CONSTANTS
  W = 6
  HexLen = 2
  P = 47
  Hash <- MCHash
  Secrets <- MCSecrets
  Rights <- MCRights
  Gadgets <- MCGadgets
  AssignFirst = FALSE
SPECIFICATION Spec
INVARIANT ResultIsPrf
\* A gadget's life ends after its two passes.
CHECK_DEADLOCK FALSE
