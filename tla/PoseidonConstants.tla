------------------------- MODULE PoseidonConstants -------------------------
(***************************************************************************)
(* Derivation of the Poseidon round constants and mixing matrix            *)
(* (poseidon.hpp: bytes_to_FieldT, poseidon_constants_fill,               *)
(* poseidon_matrix_fill).  BLAKE2b is abstracted to a fixed function on a  *)
(* small digest space; a digest is imported little-endian and reduced      *)
(* modulo the field order, which on this abstraction is d % P.             *)
(***************************************************************************)
EXTENDS Integers

CONSTANTS
  P,              \* order of the prime field F_p
  Digests,        \* the digest space of blake2b (0..D-1)
  Blake2b,        \* blake2b applied to a previous raw digest
  Blake2bOfSeed   \* blake2b applied to a seed string

Field == 0 .. P - 1

\* bytes_to_FieldT_littleendian: mpz_import of the raw digest, then FieldT(bigint)
\* which reduces it modulo p.
BytesToFieldLE(d) == d % P

\* The k-th raw digest of the stream: blake2b(seed), then blake2b(previous output).
RECURSIVE DigestChain(_, _)
DigestChain(seed, k) ==
  IF k = 0 THEN Blake2bOfSeed[seed] ELSE Blake2b[DigestChain(seed, k - 1)]

\* poseidon_constants_fill(seed, n): n field elements (0-indexed), n >= 1.
ConstantsFill(seed, n) == [k \in 0 .. n - 1 |-> BytesToFieldLE(DigestChain(seed, k))]

\* The multiplicative inverse in F_p; undefined (no such b) for a = 0.
FieldInv(a) == CHOOSE b \in Field : (a * b) % P = 1

\* poseidon_matrix_fill(seed, t): M[i*t+j] = (c[i] - c[t+j])^-1 over 2t constants.
MatrixFill(seed, t) ==
  LET c == ConstantsFill(seed, 2 * t)
  IN  [e \in 0 .. t * t - 1 |-> FieldInv((c[e \div t] - c[t + (e % t)]) % P)]

\* A zero denominator occurs in poseidon_matrix_fill for this seed.
MatrixDegenerate(seed, t) ==
  LET c == ConstantsFill(seed, 2 * t)
  IN  \E i, j \in 0 .. t - 1 : c[i] = c[t + j]
=============================================================================
