----------------------------- MODULE HashGadget -----------------------------
(***************************************************************************)
(* What a two-input hash gadget promises its parent gadget (the HashT      *)
(* interface used by PRF_gadget and COMM_gadget): it is built on two input *)
(* variables whose witness values are x and y; its constraint pass and its *)
(* witness pass each happen once, in either order; after the witness pass *)
(* its output variables hold Hash(x, y).  Nothing else is observable.      *)
(***************************************************************************)
EXTENDS Integers

CONSTANTS
  Inputs,      \* the values an input variable may hold
  NOutputs,    \* number of output variables
  Hash(_, _)   \* the hash function, returning [0..NOutputs-1 -> value]

VARIABLES
  x, y,        \* witness values of the two input variables
  conDone,     \* generate_r1cs_constraints has completed
  witDone,     \* generate_r1cs_witness has completed
  out          \* witness values of the output variables

avars == <<x, y, conDone, witDone, out>>

Init ==
  /\ x \in Inputs
  /\ y \in Inputs
  /\ conDone = FALSE
  /\ witDone = FALSE
  /\ out = [i \in 0 .. NOutputs - 1 |-> 0]

GenerateConstraints ==
  /\ ~conDone
  /\ conDone' = TRUE
  /\ UNCHANGED <<x, y, witDone, out>>

GenerateWitness ==
  /\ ~witDone
  /\ witDone' = TRUE
  /\ out' = Hash(x, y)
  /\ UNCHANGED <<x, y, conDone>>

Next == GenerateConstraints \/ GenerateWitness

Spec == Init /\ [][Next]_avars
=============================================================================
