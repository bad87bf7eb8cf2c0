\* The tagged left inputs of the six PRFs over one secret.
CONSTANTS
  W = 6
  HexLen = 2
  P = 47
  Hash <- MCHash
  Secrets <- MCSecrets
  Rights <- MCRights
  Gadgets <- MCGadgets
  AssignFirst = TRUE
SPECIFICATION Spec
INVARIANT DomainSeparation
\* A gadget's life ends after its two passes.
CHECK_DEADLOCK FALSE
