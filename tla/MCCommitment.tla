---------------------------- MODULE MCCommitment ----------------------------
(* The commitment gadget for TLC: 6-bit digests with one bit each of a_pk *)
(* and rho and two value bits in the input, the prime 47, and two values   *)
(* for each of the caller's arrays.                                        *)
EXTENDS Commitment

MCHash(l, r) == (l * l + 3 * r + 7) % P

MCDigests == {BitsOf(d) : d \in {9, 42}}
MCValues == {<<0, 1>>, <<1, 1>>}
=============================================================================
