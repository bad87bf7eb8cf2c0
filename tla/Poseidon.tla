------------------------------ MODULE Poseidon ------------------------------
(***************************************************************************)
(* The Poseidon permutation gadget of poseidon.hpp on a protoboard:        *)
(* FifthPower_gadget, Poseidon_Round (make_outputs, generate_r1cs_witness, *)
(* generate_r1cs_constraints) and Poseidon_gadget_T with its round         *)
(* schedule (first round, F/2-1 full rounds, NP partial rounds, F/2-1 full *)
(* rounds, last round) and its output binding.                             *)
(*                                                                         *)
(* The protoboard (libsnark) is a map `vals` from variables to field       *)
(* values and the append-only sequence `constraints` of rank-1             *)
(* constraints; a linear combination is a function from variables to      *)
(* coefficients.  The gadget is constructed once, then its constraint pass *)
(* and its witness pass each run once, in either order, one round at a    *)
(* time (single-threaded: a pass is one call that runs to completion).    *)
(***************************************************************************)
EXTENDS Integers, Sequences, Functions, TLC

CONSTANTS
  P,         \* field order
  T,         \* param_t: state width
  Cap,       \* param_c: S-boxes of a partial round
  F,         \* param_F: full rounds
  NP,        \* param_P: partial rounds
  NOutputs,  \* nOutputs
  C,         \* constants.C: one round constant per round, [0..F+NP-1 -> Field]
  M,         \* constants.M: the T*T mixing matrix, row-major
  Inputs     \* witness values the caller may give the inputs x and y

NInputs == 2   \* the constructor takes exactly the two variables x, y

ASSUME /\ F % 2 = 0 /\ F >= 4 /\ NP >= 1
       /\ NInputs <= T /\ NOutputs <= T /\ Cap <= T

Field == 0 .. P - 1
NRounds == F + NP                   \* total_rounds
PartialBegin == F \div 2            \* partial_begin
PartialEnd == PartialBegin + NP     \* partial_end
Done == NRounds + 1                 \* pass program counter after the output step

-----------------------------------------------------------------------------
(* Protoboard variables.  ONE is libsnark's constant variable (index 0).   *)
One == <<"one", 0, 0, 0>>
X == <<"in", 0, 0, 0>>
Y == <<"in", 0, 1, 0>>
SboxVar(r, h, k) == <<"sbox", r, h, k>>   \* k = 1, 2, 3: x2, x4, x5
OutVar(i) == <<"out", 0, i, 0>>           \* _output_vars[i]

(* results() with constrainOutputs (the default): the output variables. *)
Results == [i \in 0 .. NOutputs - 1 |-> OutVar(i)]

(* Linear combinations. *)
Coef(a, v) == IF v \in DOMAIN a THEN a[v] ELSE 0
LcAdd(a, b) == [v \in DOMAIN a \cup DOMAIN b |-> (Coef(a, v) + Coef(b, v)) % P]
LcScale(a, k) == [v \in DOMAIN a |-> (a[v] * k) % P]
LcVar(v) == v :> 1
LcConst(k) == One :> k
EmptyLc == [v \in {} |-> 0]
LcSum(lcs) == FoldFunction(LcAdd, EmptyLc, lcs)

(* The three kinds of round of Poseidon_gadget_T: FirstRoundT, FullRoundT, *)
(* PartialRoundT and LastRoundT, as <<nSBox, nInputs, nOutputs>>.          *)
Shape == [first   |-> [nSBox |-> T,   nIn |-> NInputs, nOut |-> T],
          full    |-> [nSBox |-> T,   nIn |-> T,       nOut |-> T],
          partial |-> [nSBox |-> Cap, nIn |-> T,       nOut |-> T],
          last    |-> [nSBox |-> T,   nIn |-> T,       nOut |-> NOutputs]]

(* The constructor's round schedule: make_rounds over [1, partial_begin),  *)
(* [partial_begin, partial_end), [partial_end, total_rounds-1).            *)
RoundKind(r) ==
  CASE r = 0                             -> "first"
    [] r = NRounds - 1                   -> "last"
    [] r \in PartialBegin .. PartialEnd - 1 -> "partial"
    [] OTHER                             -> "full"

(* Round r's constant: constants.C[i], and constants.C.back() for the last. *)
RoundC(r) == IF RoundKind(r) = "last" THEN C[NRounds - 1] ELSE C[r]

NSBox(r) == Shape[RoundKind(r)].nSBox
NIn(r) == Shape[RoundKind(r)].nIn

(* The asserts of the Poseidon_Round constructor: no kind of round takes   *)
(* or yields more than param_t elements.  Their failure is fatal, so the   *)
(* model admits only parameters that pass them.                           *)
RoundAssertsHold == \A k \in DOMAIN Shape : Shape[k].nIn <= T /\ Shape[k].nOut <= T

ASSUME RoundAssertsHold

(* Fault-injection variant of MakeOutputs: the constant term is dropped.   *)
MakeOutputsNoConst(r, st) ==
  LET sh == Shape[RoundKind(r)]
  IN [i \in 0 .. sh.nOut - 1 |->
        LcAdd(LcSum([s \in 0 .. sh.nSBox - 1 |-> SboxVar(r, s, 3) :> M[i * T + s]]),
              LcSum([k \in sh.nSBox .. sh.nIn - 1 |-> LcScale(st[k], M[i * T + k])]))]

(* Poseidon_Round::make_outputs: output i is the constant term            *)
(* C_i * sum_{j>=nSBox} M[i][j], plus M[i][s] * sbox[s].result(), plus     *)
(* M[i][k] * state[k] for the inputs that bypass the S-boxes.              *)
MakeOutputs(r, st) ==
  LET sh == Shape[RoundKind(r)]
      ConstantTerm(i) ==
        FoldFunction(+, 0, [j \in sh.nSBox .. T - 1 |-> RoundC(r) * M[i * T + j]]) % P
  IN [i \in 0 .. sh.nOut - 1 |->
        LcAdd(IF sh.nSBox < T THEN LcConst(ConstantTerm(i)) ELSE EmptyLc,
          LcAdd(LcSum([s \in 0 .. sh.nSBox - 1 |-> SboxVar(r, s, 3) :> M[i * T + s]]),
                LcSum([k \in sh.nSBox .. sh.nIn - 1 |-> LcScale(st[k], M[i * T + k])])))]

(* The state each round is built on: the inputs for the first round, the  *)
(* previous round's outputs after that (make_rounds / the constructor).    *)
RoundState[r \in 0 .. NRounds - 1] ==
  IF r = 0 THEN [i \in 0 .. NInputs - 1 |-> LcVar(<<X, Y>>[i + 1])]
  ELSE MakeOutputs(r - 1, RoundState[r - 1])

LastOutputs == MakeOutputs(NRounds - 1, RoundState[NRounds - 1])

(* The variables the constructor allocates: x2, x4, x5 of each S-box of   *)
(* each round (make_sboxes), and _output_vars.                             *)
GadgetVars ==
  { v \in { SboxVar(r, h, k) : r \in 0 .. NRounds - 1, h \in 0 .. T - 1, k \in 1 .. 3 } :
      v[3] < NSBox(v[2]) }
  \cup { OutVar(i) : i \in 0 .. NOutputs - 1 }

(* make_var_array(pb, "inputs", x, y), called twice by the constructor   *)
(* (for inputs and for first_round): each call allocates two variables    *)
(* and then overwrites the array's entries with x and y, so the variables  *)
(* it allocated stay zero and appear in no constraint.                     *)
InputsArrayVars == { <<"inputs", k, i, 0>> : k \in 0 .. 1, i \in 0 .. 1 }

-----------------------------------------------------------------------------
(* FifthPower_gadget witness: x2 = x*x, x4 = x2*x2, x5 = x4*x.            *)
X2(v) == (v * v) % P
X4(v) == (X2(v) * X2(v)) % P
X5(v) == (X4(v) * v) % P
SboxValue(v, k) == <<X2(v), X4(v), X5(v)>>[k]

(* Fault-injection variant of SboxConstraints: x2*x2 = x4 is not emitted. *)
SboxConstraintsNoX4(x, r, h) ==
  << [a |-> x, b |-> x, c |-> LcVar(SboxVar(r, h, 1))],
     [a |-> x, b |-> x, c |-> LcVar(SboxVar(r, h, 1))],
     [a |-> x, b |-> LcVar(SboxVar(r, h, 2)), c |-> LcVar(SboxVar(r, h, 3))] >>

(* FifthPower_gadget::generate_r1cs_constraints(x). *)
SboxConstraints(x, r, h) ==
  << [a |-> x, b |-> x, c |-> LcVar(SboxVar(r, h, 1))],
     [a |-> LcVar(SboxVar(r, h, 1)), b |-> LcVar(SboxVar(r, h, 1)),
      c |-> LcVar(SboxVar(r, h, 2))],
     [a |-> x, b |-> LcVar(SboxVar(r, h, 2)), c |-> LcVar(SboxVar(r, h, 3))] >>

(* Fault-injection variant of SboxInputLc: C_i is not added to state[h]. *)
SboxInputLcNoC(r, h) ==
  IF h < NIn(r) THEN RoundState[r][h] ELSE LcConst(RoundC(r))

(* The S-box input of Poseidon_Round::generate_r1cs_constraints:          *)
(* state[h] + C_i for h < nInputs, C_i alone otherwise.                    *)
SboxInputLc(r, h) ==
  IF h < NIn(r) THEN LcAdd(RoundState[r][h], LcConst(RoundC(r))) ELSE LcConst(RoundC(r))

RoundConstraints(r) ==
  [n \in 1 .. 3 * NSBox(r) |->
     SboxConstraints(SboxInputLc(r, (n - 1) \div 3), r, (n - 1) \div 3)[((n - 1) % 3) + 1]]

(* The output binding: lc * ONE = _output_vars[i]. *)
OutputConstraints ==
  [n \in 1 .. NOutputs |->
     [a |-> LastOutputs[n - 1], b |-> LcConst(1), c |-> LcVar(OutVar(n - 1))]]

-----------------------------------------------------------------------------
VARIABLES
  vals,         \* pb.val: the witness assignment of the allocated variables
  constraints,  \* the protoboard's constraint system, in emission order
  built,        \* the gadget has been constructed
  cpc,          \* next step of generate_r1cs_constraints (Done when finished)
  wpc,          \* next step of generate_r1cs_witness (Done when finished)
  running       \* the pass currently executing, if any

vars == <<vals, constraints, built, cpc, wpc, running>>

(* lc_val: sum of coeff * pb.val(var) over the terms. *)
LcVal(lc) == FoldFunction(+, 0, [v \in DOMAIN lc |-> lc[v] * vals[v]]) % P

(* The S-box input of Poseidon_Round::generate_r1cs_witness. *)
SboxInput(r, h) ==
  (RoundC(r) + IF h < NIn(r) THEN LcVal(RoundState[r][h]) ELSE 0) % P

(* The caller has allocated x, y and set their values (ONE is 1). *)
Init ==
  /\ \E x, y \in Inputs : vals = (One :> 1) @@ (X :> x) @@ (Y :> y)
  /\ constraints = <<>>
  /\ built = FALSE
  /\ cpc = 0
  /\ wpc = 0
  /\ running = "none"

(* Poseidon_gadget_T constructor: allocates the two make_var_array pairs, *)
(* every S-box's x2, x4, x5 and the output variables; libsnark            *)
(* initialises them to zero.  The round outputs are the linear            *)
(* combinations RoundState, fixed by C and M.                             *)
Construct ==
  /\ ~built
  /\ built' = TRUE
  /\ vals' = vals @@ [v \in GadgetVars \cup InputsArrayVars |-> 0]
  /\ UNCHANGED <<constraints, cpc, wpc, running>>

(* One iteration of Poseidon_gadget_T::generate_r1cs_constraints: round cpc. *)
RoundGenerateConstraints ==
  /\ built
  /\ running \in {"none", "constraints"}
  /\ cpc < NRounds
  /\ constraints' = constraints \o RoundConstraints(cpc)
  /\ cpc' = cpc + 1
  /\ running' = "constraints"
  /\ UNCHANGED <<vals, built, wpc>>

(* Its last step: the constrainOutputs block. *)
OutputGenerateConstraints ==
  /\ running = "constraints"
  /\ cpc = NRounds
  /\ constraints' = constraints \o OutputConstraints
  /\ cpc' = Done
  /\ running' = "none"
  /\ UNCHANGED <<vals, built, wpc>>

(* One iteration of Poseidon_gadget_T::generate_r1cs_witness: round wpc's *)
(* Poseidon_Round::generate_r1cs_witness fills every S-box's x2, x4, x5.   *)
RoundGenerateWitness ==
  /\ built
  /\ running \in {"none", "witness"}
  /\ wpc < NRounds
  /\ vals' = [v \in DOMAIN vals |->
                IF v[1] = "sbox" /\ v[2] = wpc
                THEN SboxValue(SboxInput(wpc, v[3]), v[4])
                ELSE vals[v]]
  /\ wpc' = wpc + 1
  /\ running' = "witness"
  /\ UNCHANGED <<constraints, built, cpc>>

(* Its last step: each _output_vars[i] gets lc_val of last_round.outputs[i]. *)
OutputGenerateWitness ==
  /\ running = "witness"
  /\ wpc = NRounds
  /\ vals' = [v \in DOMAIN vals |->
                IF v[1] = "out" THEN LcVal(LastOutputs[v[3]]) ELSE vals[v]]
  /\ wpc' = Done
  /\ running' = "none"
  /\ UNCHANGED <<constraints, built, cpc>>

Next ==
  \/ Construct
  \/ RoundGenerateConstraints
  \/ OutputGenerateConstraints
  \/ RoundGenerateWitness
  \/ OutputGenerateWitness

Spec == Init /\ [][Next]_vars

-----------------------------------------------------------------------------
(* Reference definition of the permutation, independent of the gadget:    *)
(* the state is the inputs padded with zeros; each round adds its constant *)
(* to every element, raises all elements (full round) or the first Cap     *)
(* elements (partial round) to the fifth power, and multiplies by M; there *)
(* are F/2 full, NP partial, then F/2 full rounds; the first NOutputs      *)
(* elements of the final state are the output.                             *)
RefRound(r, s) ==
  LET full == r < F \div 2 \/ r >= F \div 2 + NP
      a == [k \in 0 .. T - 1 |-> (s[k] + C[r]) % P]
      b == [k \in 0 .. T - 1 |-> IF full \/ k < Cap THEN X5(a[k]) ELSE a[k]]
  IN [i \in 0 .. T - 1 |-> FoldFunction(+, 0, [k \in 0 .. T - 1 |-> M[i * T + k] * b[k]]) % P]

RECURSIVE RefRounds(_, _)
RefRounds(r, s) == IF r = NRounds THEN s ELSE RefRounds(r + 1, RefRound(r, s))

PoseidonRef(x, y) ==
  LET final == RefRounds(0, [k \in 0 .. T - 1 |-> IF k = 0 THEN x ELSE IF k = 1 THEN y ELSE 0])
  IN [i \in 0 .. NOutputs - 1 |-> final[i]]

-----------------------------------------------------------------------------
IsLc(lc) == DOMAIN lc \subseteq DOMAIN vals /\ \A v \in DOMAIN lc : lc[v] \in Field

TypeOK ==
  /\ DOMAIN vals = {One, X, Y} \cup (IF built THEN GadgetVars \cup InputsArrayVars ELSE {})
  /\ \A v \in DOMAIN vals : vals[v] \in Field
  /\ vals[One] = 1
  /\ \A n \in 1 .. Len(constraints) :
       IsLc(constraints[n].a) /\ IsLc(constraints[n].b) /\ IsLc(constraints[n].c)
  /\ built \in BOOLEAN
  /\ cpc \in 0 .. Done /\ wpc \in 0 .. Done
  /\ running \in {"none", "constraints", "witness"}

(* protoboard::is_satisfied: every constraint A * B = C holds under vals. *)
Holds(c) == (LcVal(c.a) * LcVal(c.b)) % P = LcVal(c.c)
IsSatisfied == \A n \in 1 .. Len(constraints) : Holds(constraints[n])

(* Once both passes have run, in whichever order the caller chose, the     *)
(* witness the gadget computed (lc_val over each round's state, plus C_i)  *)
(* satisfies every constraint it emitted (state[h] + C_i, x2, x4, x5 and   *)
(* the output binding): the two passes agree.                              *)
ConstraintsSatisfied == (cpc = Done /\ wpc = Done) => IsSatisfied

(* The variables fixed by the constraints once the inputs are: a          *)
(* constraint A * B = C with A, B and all of C but one variable v fixed,    *)
(* and v's coefficient non-zero, fixes v.                                   *)
FixedBy(c, D) ==
  { v \in DOMAIN c.c : c.c[v] # 0 /\ (DOMAIN c.a \cup DOMAIN c.b \cup (DOMAIN c.c \ {v})) \subseteq D }

RECURSIVE Fixed(_)
Fixed(D) ==
  LET D2 == D \cup UNION { FixedBy(constraints[n], D) : n \in 1 .. Len(constraints) }
  IN IF D2 = D THEN D ELSE Fixed(D2)

(* The circuit is not under-constrained: once the constraint pass is done, *)
(* every variable the gadget allocated (each x2, x4, x5 and the output)    *)
(* is fixed by the emitted constraints given the inputs x and y, so no     *)
(* prover can choose a different output for the same inputs.              *)
OutputDetermined == cpc = Done => GadgetVars \subseteq Fixed({One, X, Y})

(* Refinement: the gadget implements the abstract hash gadget whose        *)
(* output, once its witness pass has run, is the reference permutation of  *)
(* its inputs; the round steps are stuttering steps of the abstract spec.  *)
HG == INSTANCE HashGadget WITH
        x <- vals[X], y <- vals[Y],
        conDone <- cpc = Done, witDone <- wpc = Done,
        out <- [i \in 0 .. NOutputs - 1 |->
                  IF Results[i] \in DOMAIN vals THEN vals[Results[i]] ELSE 0],
        Hash <- PoseidonRef

HashGadgetRefinement == HG!Spec
=============================================================================
