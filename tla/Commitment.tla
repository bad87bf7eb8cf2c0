---------------------------- MODULE Commitment ------------------------------
(***************************************************************************)
(* COMM_cm_gadget of commitment.tcc on a protoboard, with its child        *)
(* COMM_gadget and the packing gadget that casts the child's result digest *)
(* into the field element cm.  The caller assigns the witness of a_pk,     *)
(* rho, trap_r and value_v before constructing the gadget (as note_test   *)
(* does); then the constraint pass and the witness pass run once each, in *)
(* either order.  Scaled: digests have W bits (254), the prefixes of a_pk  *)
(* and rho have LenA bits (94) and the value LenV bits (64), so the       *)
(* constructor collects 2 * LenA + LenV = W - 2 bits for a W-bit input.    *)
(* The hasher is abstracted to its promise, as in Prf.                     *)
(***************************************************************************)
EXTENDS Integers, Sequences, SequencesExt, Bits

CONSTANTS
  P,           \* field order, 2^(W-1) < P < 2^W
  Hash(_, _),  \* the two-input hash HashT
  LenA,        \* bits of a_pk and of rho that enter the input
  LenV,        \* bits of value_v
  Digests,     \* W-bit values a_pk, rho and trap_r may hold
  Values       \* LenV-bit values value_v may hold

ASSUME /\ 2 ^ (W - 1) < P /\ P < 2 ^ W
       /\ 2 * LenA + LenV = W - 2

Zeros == [i \in 1 .. W |-> 0]

(* The bits the constructor collects: a_pk[0..93] ++ rho[0..93] ++ v. *)
CollectBits(a, r, v) == SubSeq(a, 1, LenA) \o SubSeq(r, 1, LenA) \o v

(* pb_variable_array::fill_with_bits in a build without assertions: the    *)
(* first Len(bits) variables take the bits, the rest keep their value.     *)
FillWithBits(old, bits) ==
  [i \in 1 .. W |-> IF i <= Len(bits) THEN bits[i] ELSE old[i]]

(* COMM_gadget's constructor: reverse, then get_field_element_from_bits,  *)
(* which reads the digest most significant bit first, modulo p.            *)
PackReversed(b) == NumBE(b) % P

(* Fault-injection variant of the packing gadget's input: the digest bits *)
(* in their own order rather than rbegin()..rend().                        *)
PackResultUnreversed(bits) == NumBE(Reverse(bits)) % P

(* packing_gadget over temp_result->bits reversed: bit i of the reversed   *)
(* array has weight 2^i, so the digest is read most significant bit first. *)
PackResult(bits) == NumBE(bits) % P

VARIABLES
  apk, rho, trap, v,  \* pb.val of the caller's bit arrays
  input,              \* pb.val of the gadget's W-bit input array
  built,              \* "no", "yes", or "aborted" (assertion failed)
  left, right,        \* pb.val of COMM_gadget's left and right
  hout,               \* pb.val of the hasher output
  temp,               \* pb.val of temp_result's bits
  cm,                 \* pb.val of result
  cdone, wdone,       \* the constraint / witness pass has run
  forged              \* a prover has rewritten temp_result after the passes

vars == <<apk, rho, trap, v, input, built, left, right, hout, temp, cm,
          cdone, wdone, forged>>

Init ==
  /\ apk \in Digests /\ rho \in Digests /\ trap \in Digests /\ v \in Values
  /\ input = Zeros
  /\ built = "no"
  /\ left = 0 /\ right = 0 /\ hout = 0 /\ temp = Zeros /\ cm = 0
  /\ cdone = FALSE /\ wdone = FALSE /\ forged = FALSE

(* COMM_cm_gadget's constructor in a build with assertions: fill_with_bits *)
(* asserts that the W-2 collected bits fill the W-bit input.               *)
ConstructAbort ==
  /\ built = "no"
  /\ Len(CollectBits(apk, rho, v)) # W
  /\ built' = "aborted"
  /\ UNCHANGED <<apk, rho, trap, v, input, left, right, hout, temp, cm,
                 cdone, wdone, forged>>

(* COMM_cm_gadget's constructor without assertions: fill the input, then   *)
(* construct COMM_gadget over (trap_r, input), which packs both now.      *)
Construct ==
  /\ built = "no"
  /\ LET in == FillWithBits(input, CollectBits(apk, rho, v)) IN
       /\ input' = in
       /\ left' = PackReversed(trap)
       /\ right' = PackReversed(in)
  /\ built' = "yes"
  /\ UNCHANGED <<apk, rho, trap, v, hout, temp, cm, cdone, wdone, forged>>

(* generate_r1cs_constraints: the hasher's constraints, then the packing   *)
(* constraint with bitness of temp_result.                                 *)
GenerateConstraints ==
  /\ built = "yes" /\ ~cdone
  /\ cdone' = TRUE
  /\ UNCHANGED <<apk, rho, trap, v, input, built, left, right, hout, temp, cm,
                 wdone, forged>>

(* generate_r1cs_witness: COMM_gadget's witness (hasher, then the digest   *)
(* from the output's hex encoding), then the packing from the bits.        *)
GenerateWitness ==
  /\ built = "yes" /\ ~wdone
  /\ LET h == Hash(left, right)
         t == BitVector254FromHex(FieldElementToHex(h))
     IN /\ hout' = h
        /\ temp' = t
        /\ cm' = PackResult(t)
  /\ wdone' = TRUE
  /\ UNCHANGED <<apk, rho, trap, v, input, built, left, right, cdone, forged>>

(* A prover rewrites temp_result with other bits and repacks cm.           *)
Forge ==
  /\ cdone /\ wdone /\ ~forged
  /\ \E d \in Digests : temp' = d /\ cm' = PackResult(d)
  /\ forged' = TRUE
  /\ UNCHANGED <<apk, rho, trap, v, input, built, left, right, hout, cdone, wdone>>

Next == ConstructAbort \/ Construct \/ GenerateConstraints \/ GenerateWitness \/ Forge

Spec == Init /\ [][Next]_vars
-----------------------------------------------------------------------------
TypeOK ==
  /\ apk \in Digests /\ rho \in Digests /\ trap \in Digests /\ v \in Values
  /\ input \in [1 .. W -> Bit] /\ temp \in [1 .. W -> Bit]
  /\ built \in {"no", "yes", "aborted"}
  /\ {left, right, hout, cm} \subseteq 0 .. P - 1
  /\ {cdone, wdone, forged} \subseteq BOOLEAN

(* The commitment of spec 4.6 from the caller's values: the inner hash of *)
(* trap_r and the collected bits (placed at the top of the W-bit input),  *)
(* both read most significant bit first in F_p.                            *)
CmRef == Hash(NumBE(trap) % P,
              NumBE(CollectBits(apk, rho, v) \o <<0, 0>>) % P)

(* After the witness pass of a gadget built over the caller's values, the *)
(* result variable cm holds the commitment of spec 4.6: packing the       *)
(* reversed digest bits undoes the hex round trip exactly.                 *)
CommitmentAgreement == wdone /\ ~forged => cm = CmRef

(* protoboard::is_satisfied over the gadget's constraints: the hasher's,   *)
(* and the packing of temp_result (its bits are bits by construction).    *)
IsSatisfied ==
  cdone => /\ hout = Hash(left, right)
           /\ cm = PackResult(temp)

(* Spec 4.6 / 8.7: every assignment that satisfies the constraints gives   *)
(* cm the hash output; a prover cannot choose cm.                          *)
CmBoundToHash == cdone /\ wdone /\ IsSatisfied => cm = hout
=============================================================================
