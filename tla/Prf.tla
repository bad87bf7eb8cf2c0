-------------------------------- MODULE Prf ---------------------------------
(***************************************************************************)
(* The tagged PRF gadgets of prf.tcc on a protoboard.  A parent gadget     *)
(* constructs the children listed in Gadgets, in order, over one secret    *)
(* digest x (a_sk, or phi) and one right-hand digest y (rho or h_sig; the  *)
(* address PRF uses 254 ZERO bits instead); then it runs its constraint   *)
(* pass and its witness pass over the children, in either order.  The      *)
(* caller assigns the witness of x and y with digest_variable::            *)
(* generate_r1cs_witness at some point before the witness pass.            *)
(*                                                                         *)
(* PRF_gadget's constructor reads pb.val of the tagged x and of y,         *)
(* reverses them and packs them into `left` and `right`; the hasher        *)
(* (Poseidon, see HashGadget and Poseidon) is abstracted to its promise:   *)
(* its constraints hold iff its output equals Hash(left, right), and its   *)
(* witness pass sets the output to that value.  PRF_gadget's witness pass  *)
(* then writes the result digest from the output through                   *)
(* field_element_to_hex and bits254_from_hex.                              *)
(***************************************************************************)
EXTENDS Integers, Sequences, SequencesExt, Bits

CONSTANTS
  P,            \* field order, 2^(W-1) < P < 2^W as for alt_bn128 (W = 254)
  Hash(_, _),   \* the two-input hash HashT
  Secrets,      \* W-bit values the caller may assign to x
  Rights,       \* W-bit values the caller may assign to y
  Gadgets,      \* the children, in construction order: [kind, index]
  AssignFirst   \* the caller assigns x and y before constructing the parent

N == Len(Gadgets)
Zeros == [i \in 1 .. W |-> 0]

ASSUME /\ 2 ^ (W - 1) < P /\ P < 2 ^ W
       /\ \A g \in 1 .. N : Gadgets[g].kind \in {"addr", "nf", "pk", "rho"}

(* The four tag bits get_tag_addr, get_tag_nf, get_tag_pk and get_tag_rho  *)
(* emplace before the first W-4 bits of their secret.                      *)
GetTag(g) ==
  LET i == IF Gadgets[g].index = 0 THEN 0 ELSE 1
  IN CASE Gadgets[g].kind = "addr" -> <<0, 0, 1, 0>>
       [] Gadgets[g].kind = "nf"   -> <<1, 0, 1, 0>>
       [] Gadgets[g].kind = "pk"   -> <<0, i, 0, 0>>
       [] Gadgets[g].kind = "rho"  -> <<0, i, 1, 0>>

(* The tagged left input: tag || [x]_(W-4). *)
Tagged(g, x) == GetTag(g) \o SubSeq(x, 1, W - 4)

(* The right input: gen_254_zeroes for the address PRF, y otherwise. *)
RightInput(g, y) == IF Gadgets[g].kind = "addr" THEN Zeros ELSE y

(* Fault-injection variant of ReverseBits: reverse_x[i] = x[254 - i].     *)
ReverseBitsOffByOne(b) == [i \in 1 .. W |-> b[((W - i + 1) % W) + 1]]

(* PRF_gadget constructor: reverse_x[i] = x[254 - 1 - i]. *)
ReverseBits(b) == [i \in 1 .. W |-> b[W + 1 - i]]

(* pb_variable_array::get_field_element_from_bits: bit i has weight 2^i,   *)
(* reduced modulo p.                                                        *)
GetFieldElementFromBits(b) == NumBE(Reverse(b)) % P

(* bits254_from_hex(field_element_to_hex(v)): the result digest's bits. *)
ResultBits(v) == BitVector254FromHex(FieldElementToHex(v))

VARIABLES
  xv, yv,      \* pb.val of the bits of x and y
  assigned,    \* the caller has run the digests' generate_r1cs_witness
  built,       \* children constructed so far
  left, right, \* pb.val of each child's left and right
  hout,        \* pb.val of each child's hasher output
  result,      \* pb.val of each child's result digest bits
  cp, wp,      \* children whose constraint / witness pass has run
  running,     \* the parent pass in progress
  tampered     \* a bit of x has been flipped after both passes

vars == <<xv, yv, assigned, built, left, right, hout, result, cp, wp, running, tampered>>

Init ==
  /\ xv = Zeros /\ yv = Zeros
  /\ assigned = FALSE
  /\ built = 0
  /\ left = [g \in 1 .. N |-> 0] /\ right = [g \in 1 .. N |-> 0]
  /\ hout = [g \in 1 .. N |-> 0]
  /\ result = [g \in 1 .. N |-> Zeros]
  /\ cp = 0 /\ wp = 0
  /\ running = "none"
  /\ tampered = FALSE

(* digest_variable::generate_r1cs_witness on x and y. *)
AssignInputs ==
  /\ ~assigned
  /\ AssignFirst => built = 0
  /\ wp = 0 /\ running # "witness"
  /\ assigned' = TRUE
  /\ \E x \in Secrets, y \in Rights : xv' = x /\ yv' = y
  /\ UNCHANGED <<built, left, right, hout, result, cp, wp, running, tampered>>

(* PRF_xxx_gadget constructor of the next child: get_tag_xxx, then        *)
(* PRF_gadget's constructor reads the current values and packs them.      *)
Construct ==
  /\ built < N
  /\ LET g == built + 1 IN
       /\ left' = [left EXCEPT ![g] =
                     GetFieldElementFromBits(ReverseBits(Tagged(g, xv)))]
       /\ right' = [right EXCEPT ![g] =
                     GetFieldElementFromBits(ReverseBits(RightInput(g, yv)))]
  /\ built' = built + 1
  /\ UNCHANGED <<xv, yv, assigned, hout, result, cp, wp, running, tampered>>

(* PRF_gadget::generate_r1cs_constraints of the next child: the hasher's *)
(* constraints only.                                                       *)
GenerateConstraints ==
  /\ built = N
  /\ running \in {"none", "constraints"}
  /\ cp < N
  /\ cp' = cp + 1
  /\ running' = IF cp + 1 = N THEN "none" ELSE "constraints"
  /\ UNCHANGED <<xv, yv, assigned, built, left, right, hout, result, wp, tampered>>

(* PRF_gadget::generate_r1cs_witness of the next child: the hasher's      *)
(* witness, then the result digest from its output's hex encoding.         *)
GenerateWitness ==
  /\ built = N
  /\ running \in {"none", "witness"}
  /\ wp < N
  /\ LET g == wp + 1
         h == Hash(left[g], right[g])
     IN /\ hout' = [hout EXCEPT ![g] = h]
        /\ result' = [result EXCEPT ![g] = ResultBits(h)]
  /\ wp' = wp + 1
  /\ running' = IF wp + 1 = N THEN "none" ELSE "witness"
  /\ UNCHANGED <<xv, yv, assigned, built, left, right, cp, tampered>>

(* A prover changes one secret bit the PRFs use, after both passes. *)
Tamper ==
  /\ cp = N /\ wp = N /\ ~tampered
  /\ \E i \in 1 .. W - 4 : xv' = [xv EXCEPT ![i] = 1 - @]
  /\ tampered' = TRUE
  /\ UNCHANGED <<yv, assigned, built, left, right, hout, result, cp, wp, running>>

Next == AssignInputs \/ Construct \/ GenerateConstraints \/ GenerateWitness \/ Tamper

Spec == Init /\ [][Next]_vars

-----------------------------------------------------------------------------
TypeOK ==
  /\ xv \in [1 .. W -> Bit] /\ yv \in [1 .. W -> Bit]
  /\ assigned \in BOOLEAN /\ tampered \in BOOLEAN
  /\ built \in 0 .. N /\ cp \in 0 .. N /\ wp \in 0 .. N
  /\ left \in [1 .. N -> 0 .. P - 1] /\ right \in [1 .. N -> 0 .. P - 1]
  /\ hout \in [1 .. N -> 0 .. P - 1]
  /\ \A g \in 1 .. N : result[g] \in [1 .. W -> Bit]
  /\ running \in {"none", "constraints", "witness"}

(* The PRFs as the protocol defines them (spec 4.5): the tag table, the   *)
(* tagged secret and the right input read as big-endian numbers in F_p.   *)
SpecTag(g) ==
  LET k == Gadgets[g].kind
      i == Gadgets[g].index
  IN IF k = "addr" THEN <<0, 0, 1, 0>> ELSE IF k = "nf" THEN <<1, 0, 1, 0>>
     ELSE <<0, i, IF k = "rho" THEN 1 ELSE 0, 0>>

PrfRef(g, x, y) ==
  Hash(NumBE(SpecTag(g) \o SubSeq(x, 1, W - 4)) % P,
       NumBE(IF Gadgets[g].kind = "addr" THEN Zeros ELSE y) % P)

(* Once its witness pass has run, each child's result digest holds the    *)
(* W-bit big-endian PRF of the values x and y hold at that time.          *)
ResultIsPrf ==
  ~tampered => \A g \in 1 .. wp : result[g] = BitsOf(PrfRef(g, xv, yv))

(* protoboard::is_satisfied over the children's constraints (the digests' *)
(* bitness constraints hold trivially on the bits modelled here).          *)
IsSatisfied == \A g \in 1 .. cp : hout[g] = Hash(left[g], right[g])

(* Spec 8.7: changing one bit of the secret key after the witness was     *)
(* generated makes the constraint system unsatisfied.                      *)
TamperDetected == tampered => ~IsSatisfied

(* Spec 4.5: two PRFs of different kinds (or indices) never take the same *)
(* tagged left input over the same secret.                                 *)
DomainSeparation ==
  \A g1, g2 \in 1 .. built : g1 # g2 => Tagged(g1, xv) # Tagged(g2, xv)
=============================================================================
