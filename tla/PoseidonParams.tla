--------------------------- MODULE PoseidonParams ---------------------------
(***************************************************************************)
(* poseidon_params (poseidon.hpp): the process-wide PoseidonConstants      *)
(* object, filled under a std::call_once flag by the first thread that     *)
(* asks for it, then read by every Poseidon_gadget_T constructor.          *)
(*                                                                         *)
(* The fill appends: poseidon_constants_fill reserves and emplaces NC      *)
(* round constants onto constants.C, poseidon_matrix_fill builds a         *)
(* temporary vector of 2T constants, reserves 2T in constants.M and        *)
(* emplaces T*T entries.  Every allocation (a reserve that grows, a push   *)
(* at full capacity, the temporary vector) may throw std::bad_alloc; then  *)
(* call_once propagates the exception to its caller and leaves the flag    *)
(* unset, so the next caller runs the fill again on the same vectors.      *)
(* An element is abstracted to its position in the deterministic stream,  *)
(* so a constant is right iff it sits at its own index.                    *)
(***************************************************************************)
EXTENDS Integers, Sequences, FiniteSets

CONSTANTS
  Threads,       \* threads that construct Poseidon gadgets
  NC,            \* param_F + param_P: number of round constants
  T,             \* param_t: the matrix is T x T
  MaxFailures    \* bound on allocations that throw

ASSUME NC >= 2 /\ T >= 2 /\ MaxFailures \in Nat

Body == {"C_reserve", "C_push", "M_tmp", "M_reserve", "M_push"}

VARIABLES
  pc,        \* each thread: idle, waiting, a Body step, returned or threw
  flag,      \* the once_flag: "none", "active" (fill running) or "done"
  C, capC,   \* constants.C and its capacity
  M, capM,   \* constants.M and its capacity
  k,         \* loop index of the running fill
  failures   \* allocations that have thrown so far

vars == <<pc, flag, C, capC, M, capM, k, failures>>

MaxOf(a, b) == IF a >= b THEN a ELSE b

Init ==
  /\ pc = [t \in Threads |-> "idle"]
  /\ flag = "none"
  /\ C = <<>> /\ capC = 0
  /\ M = <<>> /\ capM = 0
  /\ k = 0
  /\ failures = 0

(* Does thread t's next body step allocate (and so possibly throw)? *)
Allocates(t) ==
  \/ pc[t] = "C_reserve" /\ NC > capC
  \/ pc[t] = "C_push" /\ Len(C) = capC
  \/ pc[t] = "M_tmp"
  \/ pc[t] = "M_reserve" /\ 2 * T > capM
  \/ pc[t] = "M_push" /\ Len(M) = capM

(* std::call_once on a flag already set: returns without running the fill. *)
CallReturns(t) ==
  /\ pc[t] = "idle" /\ flag = "done"
  /\ pc' = [pc EXCEPT ![t] = "returned"]
  /\ UNCHANGED <<flag, C, capC, M, capM, k, failures>>

(* std::call_once on an unset flag: this thread runs the fill. *)
CallRuns(t) ==
  /\ pc[t] = "idle" /\ flag = "none"
  /\ flag' = "active"
  /\ pc' = [pc EXCEPT ![t] = "C_reserve"]
  /\ UNCHANGED <<C, capC, M, capM, k, failures>>

(* std::call_once while another thread runs the fill: blocks. *)
CallWaits(t) ==
  /\ pc[t] = "idle" /\ flag = "active"
  /\ pc' = [pc EXCEPT ![t] = "waiting"]
  /\ UNCHANGED <<flag, C, capC, M, capM, k, failures>>

(* A blocked caller wakes when the fill has completed. *)
WakeReturns(t) ==
  /\ pc[t] = "waiting" /\ flag = "done"
  /\ pc' = [pc EXCEPT ![t] = "returned"]
  /\ UNCHANGED <<flag, C, capC, M, capM, k, failures>>

(* A blocked caller wakes after the running fill threw, and runs it anew. *)
WakeRuns(t) ==
  /\ pc[t] = "waiting" /\ flag = "none"
  /\ flag' = "active"
  /\ pc' = [pc EXCEPT ![t] = "C_reserve"]
  /\ UNCHANGED <<C, capC, M, capM, k, failures>>

(* Fault-injection variant of CReserve: result.reserve(n_constants) left *)
(* out, so the pushes of the first fill may reallocate.                   *)
CReserveSkipped(t) ==
  /\ pc[t] = "C_reserve"
  /\ k' = 0
  /\ pc' = [pc EXCEPT ![t] = "C_push"]
  /\ UNCHANGED <<flag, C, capC, M, capM, failures>>

(* poseidon_constants_fill: result.reserve(n_constants). *)
CReserve(t) ==
  /\ pc[t] = "C_reserve"
  /\ capC' = MaxOf(capC, NC)
  /\ k' = 0
  /\ pc' = [pc EXCEPT ![t] = "C_push"]
  /\ UNCHANGED <<flag, C, M, capM, failures>>

(* Fault-injection variant of CPush: the loop runs to i < n_constants, one *)
(* emplace_back too many.                                                  *)
CPushOffByOne(t) ==
  /\ pc[t] = "C_push"
  /\ C' = Append(C, k)
  /\ capC' = IF Len(C) = capC THEN MaxOf(1, 2 * capC) ELSE capC
  /\ k' = k + 1
  /\ pc' = [pc EXCEPT ![t] = IF k = NC THEN "M_tmp" ELSE "C_push"]
  /\ UNCHANGED <<flag, M, capM, failures>>

(* poseidon_constants_fill: one emplace_back (the first, then the loop). *)
CPush(t) ==
  /\ pc[t] = "C_push"
  /\ C' = Append(C, k)
  /\ capC' = IF Len(C) = capC THEN MaxOf(1, 2 * capC) ELSE capC
  /\ k' = k + 1
  /\ pc' = [pc EXCEPT ![t] = IF k + 1 = NC THEN "M_tmp" ELSE "C_push"]
  /\ UNCHANGED <<flag, M, capM, failures>>

(* poseidon_matrix_fill: c = poseidon_constants(seed, t*2), a fresh vector. *)
MTmp(t) ==
  /\ pc[t] = "M_tmp"
  /\ pc' = [pc EXCEPT ![t] = "M_reserve"]
  /\ UNCHANGED <<flag, C, capC, M, capM, k, failures>>

(* poseidon_matrix_fill: result.reserve(t*2). *)
MReserve(t) ==
  /\ pc[t] = "M_reserve"
  /\ capM' = MaxOf(capM, 2 * T)
  /\ k' = 0
  /\ pc' = [pc EXCEPT ![t] = "M_push"]
  /\ UNCHANGED <<flag, C, capC, M, failures>>

(* poseidon_matrix_fill: one emplace_back of (c[i] - c[t+j])^-1; after the *)
(* last one the lambda returns and call_once sets the flag.                *)
MPush(t) ==
  /\ pc[t] = "M_push"
  /\ M' = Append(M, k)
  /\ capM' = IF Len(M) = capM THEN MaxOf(1, 2 * capM) ELSE capM
  /\ k' = k + 1
  /\ pc' = [pc EXCEPT ![t] = IF k + 1 = T * T THEN "returned" ELSE "M_push"]
  /\ flag' = IF k + 1 = T * T THEN "done" ELSE flag
  /\ UNCHANGED <<C, capC, failures>>

(* An allocation of the fill throws std::bad_alloc: the vectors keep what  *)
(* was pushed, call_once rethrows to thread t and leaves the flag unset.   *)
Throw(t) ==
  /\ Allocates(t)
  /\ failures < MaxFailures
  /\ failures' = failures + 1
  /\ flag' = "none"
  /\ pc' = [pc EXCEPT ![t] = "threw"]
  /\ UNCHANGED <<C, capC, M, capM, k>>

Step(t) ==
  \/ CReserve(t) \/ CPush(t) \/ MTmp(t) \/ MReserve(t) \/ MPush(t)

Next ==
  \E t \in Threads :
    \/ CallReturns(t) \/ CallRuns(t) \/ CallWaits(t)
    \/ WakeReturns(t) \/ WakeRuns(t)
    \/ Step(t) \/ Throw(t)

Spec == Init /\ [][Next]_vars

-----------------------------------------------------------------------------
TypeOK ==
  /\ pc \in [Threads -> {"idle", "waiting", "returned", "threw"} \cup Body]
  /\ flag \in {"none", "active", "done"}
  /\ C \in Seq(0 .. NC - 1) /\ M \in Seq(0 .. T * T - 1)
  /\ capC \in Nat /\ capM \in Nat /\ Len(C) <= capC /\ Len(M) <= capM
  /\ k \in Nat /\ failures \in 0 .. MaxFailures

(* What Poseidon_gadget_T reads: constants.C[i] for the rounds before the  *)
(* last, constants.C.back() for the last, constants.M[0 .. T*T-1].         *)
UsedC == [i \in 0 .. NC - 1 |-> IF i = NC - 1 THEN C[Len(C)] ELSE C[i + 1]]
UsedM == [e \in 0 .. T * T - 1 |-> M[e + 1]]

(* Every thread that poseidon_params has returned to reads exactly the     *)
(* constant stream and the matrix, each entry at its own index: it never  *)
(* sees a fill in progress, a fill run twice, or the remains of a fill     *)
(* that threw before the fill that completed.                              *)
ReturnedSeesConstants ==
  \A t \in Threads : pc[t] = "returned" =>
    /\ Len(C) >= NC /\ Len(M) >= T * T
    /\ UsedC = [i \in 0 .. NC - 1 |-> i]
    /\ UsedM = [e \in 0 .. T * T - 1 |-> e]

(* Without a failed allocation, every returned caller reads exactly the  *)
(* constants: the fill ran once, completely, before any caller returned. *)
FailureFreeSeesConstants == failures = 0 => ReturnedSeesConstants

(* Whatever allocations fail and however often call_once retries, every   *)
(* returned caller reads the right round constants C[0 .. NC-2] and       *)
(* C.back(): the reserve(n_constants) before the pushes means a fill of C  *)
(* either throws before pushing or completes, so a retry appends a whole  *)
(* second stream (unlike M, which params_torn shows torn).                *)
ReturnedSeesRoundConstants ==
  \A t \in Threads : pc[t] = "returned" =>
    Len(C) >= NC /\ UsedC = [i \in 0 .. NC - 1 |-> i]
=============================================================================
