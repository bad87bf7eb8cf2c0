-------------------------------- MODULE Ffi ---------------------------------
(***************************************************************************)
(* The foreign-function surface of ffi/ffi_utils.hpp and ffi/ff_ffi.cpp    *)
(* over libff's bls12_377: calls that read field and group elements from   *)
(* caller buffers, compute, and serialize the result into an output        *)
(* buffer, returning true or false.  libff is taken as built with         *)
(* BINARY_OUTPUT and MONTGOMERY_OUTPUT, so an Fr element is serialized as  *)
(* the raw bytes of its Montgomery form, little-endian, and read back the  *)
(* same way.                                                               *)
(*                                                                         *)
(* Scaled: a byte has Radix values, an Fr element FrBytes bytes and so     *)
(* Radix^FrBytes raw values for a field of order P (253 bits in 256 in the *)
(* code).  G1 and G2 are abstracted to the cyclic group of order P their   *)
(* subgroups are, with the generator one() = 1, serialized in GBytes and   *)
(* G2Bytes bytes.  A call is pure, so each is an operator giving the set   *)
(* of its possible outcomes.                                               *)
(***************************************************************************)
EXTENDS Integers, Sequences

CONSTANTS
  P,        \* order of Fr, and of the G1 and G2 subgroups
  Radix,    \* values of a byte
  FrBytes,  \* sizeof(Fr): bytes of a serialized Fr element
  GBytes,   \* bytes of write_uncompressed of a G1 element
  G2Bytes   \* bytes of write_uncompressed of a G2 element

Rad == Radix ^ FrBytes   \* R of the Montgomery form: 2^256 in the code

ASSUME /\ Rad > 2 * P /\ Rad % P # 0
       /\ Radix ^ GBytes >= P /\ Radix ^ G2Bytes >= P

(* An outcome: the bool returned and the bytes written to the output       *)
(* buffer (none when it returns false).                                    *)
Written(bytes) == [ok |-> TRUE, out |-> bytes]
Fail == [ok |-> FALSE, out |-> <<>>]

(* libff's binary serialization: the low-order byte first. *)
Encode(v, len) == [i \in 1 .. len |-> (v \div (Radix ^ (i - 1))) % Radix]
NumLE(bytes) == LET RECURSIVE N(_) N(s) == IF s = <<>> THEN 0 ELSE Head(s) + Radix * N(Tail(s))
                IN N(bytes)

(* The field element a Montgomery form r stands for: r * R^-1 mod P        *)
(* (Fp_model::as_bigint).                                                  *)
AsValue(r) == CHOOSE x \in 0 .. P - 1 : (x * Rad) % P = r % P

(* Fr::one(): the Montgomery form of 1. *)
FrOneRepr == Rad % P

(* Fp_model::operator+ on Montgomery forms: add, subtract the modulus once *)
(* on a carry or a sum not below it, keep FrBytes bytes.                   *)
FrAdd(a, b) == LET s == a + b IN IF s >= P THEN (s - P) % Rad ELSE s

(* _object_write: the serialized element must fill the buffer exactly. *)
ObjectWrite(v, size) == IF size # FrBytes THEN Fail ELSE Written(Encode(v, FrBytes))

(* _object_read: operator>> reads sizeof(Fr) bytes of the stream over the  *)
(* buffer into a zeroed element; a short buffer leaves the rest zero, a    *)
(* long one is cut.  No size check, no reduction: it always returns true.  *)
ObjectRead(buf) == NumLE(SubSeq(buf, 1, IF Len(buf) < FrBytes THEN Len(buf) ELSE FrBytes))

(* _group_element_write: the same size check on write_uncompressed. *)
GroupWrite(g, size, len) == IF size # len THEN Fail ELSE Written(Encode(g, len))

(* _group_element_read: read_uncompressed over the buffer, always true.    *)
(* Of a buffer of another size than the encoding, the point it yields is   *)
(* not determined here: any point.                                         *)
GroupRead(buf, len) == IF Len(buf) = len THEN {NumLE(buf) % P} ELSE 0 .. P - 1

(* _Fr_one: its own size check, then _object_write of one(). *)
FrOne(size) == IF size # FrBytes THEN {Fail} ELSE {ObjectWrite(FrOneRepr, size)}

FrSum(size, a, b) == {ObjectWrite(FrAdd(ObjectRead(a), ObjectRead(b)), size)}

(* _G1_one and _G2_one: write the generator. *)
G1One(size) == {GroupWrite(1, size, GBytes)}
G2One(size) == {GroupWrite(1, size, G2Bytes)}

(* _G1_sum: read A and B, write A + B. *)
G1Sum(size, a, b) ==
  {GroupWrite((x + y) % P, size, GBytes) : x \in GroupRead(a, GBytes), y \in GroupRead(b, GBytes)}

(* _G1_scalar_mul: read g and f, write f * g (libff multiplies by          *)
(* f.as_bigint()).                                                         *)
G1ScalarMul(size, g, f) ==
  {GroupWrite((AsValue(ObjectRead(f)) * x) % P, size, GBytes) : x \in GroupRead(g, GBytes)}

(* The extern "C" bls12_377_* entry points of ff_ffi.cpp, each forwarding  *)
(* its arguments to the template above.                                    *)
FfiCall(c) ==
  CASE c.op = "Fr_one"        -> FrOne(c.size)
    [] c.op = "Fr_sum"        -> FrSum(c.size, c.a, c.b)
    [] c.op = "G1_one"        -> G1One(c.size)
    [] c.op = "G1_sum"        -> G1Sum(c.size, c.a, c.b)
    [] c.op = "G1_scalar_mul" -> G1ScalarMul(c.size, c.a, c.b)
    [] c.op = "G2_one"        -> G2One(c.size)
=============================================================================
