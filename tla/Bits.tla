-------------------------------- MODULE Bits --------------------------------
(***************************************************************************)
(* Bit-string conversions of bits.cpp, scaled down: a digest has W bits   *)
(* (254 in the code) and a field element's hex encoding has HexLen         *)
(* nibbles (64 in the code, 4 * HexLen = W + 2 bits).  A hex string is a   *)
(* sequence of nibbles 0..15 (char_to_nibble already applied); a bit      *)
(* vector is a sequence of 0/1, most significant bit first.                *)
(***************************************************************************)
EXTENDS Integers, Sequences, SequencesExt

CONSTANTS
  W,        \* digest width: bits254
  HexLen    \* nibbles of field_element_to_hex

ASSUME 4 * HexLen = W + 2

Bit == {0, 1}

(* Fault-injection variant of NibbleBits: the bits pushed &1 first. *)
NibbleBitsLowFirst(n) == <<n % 2, (n \div 2) % 2, (n \div 4) % 2, (n \div 8) % 2>>

(* The four bits bit_vector_from_hex pushes for one nibble: &8, &4, &2, &1. *)
NibbleBits(n) == <<(n \div 8) % 2, (n \div 4) % 2, (n \div 2) % 2, n % 2>>

(* bit_vector_from_hex: the four bits of each nibble in turn. *)
BitVectorFromHex(h) ==
  [i \in 1 .. 4 * Len(h) |-> NibbleBits(h[(i - 1) \div 4 + 1])[((i - 1) % 4) + 1]]

(* Fault-injection variant of BitVector254FromHex: the zeros are put at   *)
(* the back of the vector instead of inserted at its front.                *)
BitVector254FromHexPadBack(h) ==
  LET b == BitVectorFromHex(h)
      ones == {i \in 1 .. Len(b) : b[i] = 1}
      last == IF ones = {} THEN <<>> ELSE SubSeq(b, Min(ones), Len(b))
  IN IF Len(last) < W THEN last \o [i \in 1 .. W - Len(last) |-> 0] ELSE last

(* bit_vector_254_from_hex: drop every bit before the first 1 (all of them *)
(* when there is none), then insert zeros at the front up to W bits; a     *)
(* vector already longer than W is left as it is.                          *)
BitVector254FromHex(h) ==
  LET b == BitVectorFromHex(h)
      ones == {i \in 1 .. Len(b) : b[i] = 1}
      last == IF ones = {} THEN <<>> ELSE SubSeq(b, Min(ones), Len(b))
  IN IF Len(last) < W THEN [i \in 1 .. W - Len(last) |-> 0] \o last ELSE last

(* The value of a bit vector read most significant bit first. *)
NumBE(b) == FoldLeft(LAMBDA acc, x : 2 * acc + x, 0, b)

(* field_element_to_hex: the big-endian hex digits of a field element. *)
FieldElementToHex(v) == [i \in 1 .. HexLen |-> (v \div (16 ^ (HexLen - i))) % 16]

(* The W-bit big-endian representation of v < 2^W. *)
BitsOf(v) == [i \in 1 .. W |-> (v \div (2 ^ (W - i))) % 2]

(* A parser's outcome: the value it returns, or the std::length_error it  *)
(* throws.                                                                 *)
Returns(v) == [ok |-> TRUE, val |-> v]
LengthError == [ok |-> FALSE, val |-> <<>>]

(* vector_to_array<Size> (utils.tcc): a vector of another length throws.  *)
VectorToArray(size, v) == IF Len(v) = size THEN Returns(v) ELSE LengthError

(* The shape every fixed-width bitsN_from_hex shares: a string of other   *)
(* than Nibbles characters (the literal the function compares             *)
(* str.length() with) throws before it is converted; the converted vector *)
(* then goes through bitsN_from_vector, i.e. vector_to_array<Width>.       *)
FixedFromHex(Width, Nibbles, s) ==
  IF Len(s) # Nibbles THEN LengthError
  ELSE VectorToArray(Width, BitVectorFromHex(s))

(* bits64_from_hex, its 64 bits scaled to Width (the literal 16 = 64/4). *)
Bits64FromHex(Width, s) == FixedFromHex(Width, Width \div 4, s)

(* bits128_from_hex, bits256_from_hex, bits384_from_hex, each scaled to   *)
(* Width, each with its own literal (32, 64, 96 = Width / 4).              *)
Bits128FromHex(Width, s) == FixedFromHex(Width, Width \div 4, s)
Bits256FromHex(Width, s) == FixedFromHex(Width, Width \div 4, s)
Bits384FromHex(Width, s) == FixedFromHex(Width, Width \div 4, s)

(* bits254_from_hex: no length check of its own; only a vector that is    *)
(* still longer than W bits after the stripping throws.                    *)
Bits254FromHex(s) == VectorToArray(W, BitVector254FromHex(s))

(* bit_vector_from_size_t_le on a Width-bit size_t: the low bit, then     *)
(* x >>= 1, while x is not 0.                                              *)
RECURSIVE BitVectorFromSizeTLe(_, _)
BitVectorFromSizeTLe(Width, x) ==
  IF x = 0 THEN <<>> ELSE <<x % 2>> \o BitVectorFromSizeTLe(Width, x \div 2)

(* Fault-injection variant of BitVectorFromSizeTBe: mask = 1 << num_bits. *)
BitVectorFromSizeTBeMaskOffByOne(Width, n) ==
  LET mask == 2 ^ Width
      Top(x) == (x \div mask) % 2
      Shl(x) == (2 * x) % (2 ^ Width)
      RECURSIVE Strip(_, _), Fill(_, _)
      Strip(x, k) == IF k > 0 /\ Top(x) = 0 THEN Strip(Shl(x), k - 1) ELSE <<x, k>>
      Fill(x, k) == IF k = 0 THEN <<>> ELSE <<Top(x)>> \o Fill(Shl(x), k - 1)
      s == Strip(n, Width)
  IN Fill(s[1], s[2])

(* bit_vector_from_size_t_be on a Width-bit size_t: shift n left (modulo  *)
(* 2^Width) while its top bit is 0, counting num_bits down; then push the  *)
(* top bit of each of the remaining num_bits shifts.                       *)
BitVectorFromSizeTBe(Width, n) ==
  LET mask == 2 ^ (Width - 1)
      Top(x) == (x \div mask) % 2
      Shl(x) == (2 * x) % (2 ^ Width)
      RECURSIVE Strip(_, _), Fill(_, _)
      Strip(x, k) == IF k > 0 /\ Top(x) = 0 THEN Strip(Shl(x), k - 1) ELSE <<x, k>>
      Fill(x, k) == IF k = 0 THEN <<>> ELSE <<Top(x)>> \o Fill(Shl(x), k - 1)
      s == Strip(n, Width)
  IN Fill(s[1], s[2])
=============================================================================
