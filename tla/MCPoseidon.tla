----------------------------- MODULE MCPoseidon -----------------------------
(***************************************************************************)
(* Model of the Poseidon gadget over F_7 (gcd(5, 7-1) = 1, so x^5 is a     *)
(* permutation, as it is on the alt_bn128 scalar field), width 3, one      *)
(* partial S-box, 4 full and 2 partial rounds: the schedule then has a     *)
(* first round, a prefix full round, two partial rounds, a suffix full     *)
(* round and a last round, every kind the constructor builds.  Constants   *)
(* and matrix come from poseidon_constants_fill / poseidon_matrix_fill     *)
(* with blake2b abstracted to an affine map on 16 digests.                 *)
(***************************************************************************)
EXTENDS Poseidon

MCDigests == 0 .. 15
MCBlake2b == [d \in MCDigests |-> (3 * d + 5) % 16]
MCBlake2bOfSeed == ("poseidon_constants" :> 15) @@ ("poseidon_matrix_0000" :> 3)

PC == INSTANCE PoseidonConstants WITH
        Digests <- MCDigests, Blake2b <- MCBlake2b, Blake2bOfSeed <- MCBlake2bOfSeed

ASSUME ~PC!MatrixDegenerate("poseidon_matrix_0000", T)

\* poseidon_params: C from "poseidon_constants" (F + P of them), M from "poseidon_matrix_0000".
MCC == PC!ConstantsFill("poseidon_constants", F + NP)
MCM == PC!MatrixFill("poseidon_matrix_0000", T)
MCInputs == 0 .. P - 1
=============================================================================
