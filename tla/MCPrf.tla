------------------------------- MODULE MCPrf --------------------------------
(* The PRF gadgets for TLC: 6-bit digests (2 bits of secret after the tag), *)
(* the prime 47 between 2^5 and 2^6 as alt_bn128's p is between 2^253 and   *)
(* 2^254, and a hash that mixes both inputs.                                 *)
EXTENDS Prf

MCHash(l, r) == (l * l + 3 * r + 7) % P

MCSecrets == {BitsOf(v) : v \in {0, 33, 46, 63}}
MCRights == {BitsOf(v) : v \in {5, 63}}

(* One PRF of each kind and index, in the order a joinsplit builds them. *)
MCGadgets ==
  << [kind |-> "addr", index |-> 0], [kind |-> "nf", index |-> 0],
     [kind |-> "pk", index |-> 0], [kind |-> "pk", index |-> 1],
     [kind |-> "rho", index |-> 0], [kind |-> "rho", index |-> 1] >>
=============================================================================
