\* Inputs assigned before the gadgets are built, as poseidon_test and note_test do.
CONSTANTS
  W = 6
  HexLen = 2
  P = 47
  Hash <- MCHash
  Secrets <- MCSecrets
  Rights <- MCRights
  Gadgets <- MCGadgets
  AssignFirst = TRUE
SPECIFICATION Spec
INVARIANTS ResultIsPrf
\* A gadget's life ends after its two passes.
CHECK_DEADLOCK FALSE
