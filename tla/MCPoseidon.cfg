\* The gadget's life ends after its two passes: the final state has no successor.
CONSTANTS
  P = 7
  T = 3
  Cap = 1
  F = 4
  NP = 2
  NOutputs = 1
  C <- MCC
  M <- MCM
  Inputs <- MCInputs

SPECIFICATION Spec
INVARIANT ConstraintsSatisfied
INVARIANT OutputDetermined
PROPERTY HashGadgetRefinement
CHECK_DEADLOCK FALSE
