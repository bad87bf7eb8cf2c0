-------------------------------- MODULE Note --------------------------------
(***************************************************************************)
(* The note value object of note.hpp and its parsing from a protobuf      *)
(* ZethNote in proto_utils.cpp.  A note's fields are bit vectors: a_pk,   *)
(* rho and r of W bits (bits254), value of VW bits (bits64).  The         *)
(* protobuf note is a record of four hex strings (sequences of nibbles).  *)
(* Parsing is a pure function of the strings that either returns a note   *)
(* or throws std::length_error, so it is an operator, not an action.      *)
(***************************************************************************)
EXTENDS Bits

CONSTANT VW   \* bits of the value: 64 in the code

ASSUME VW % 4 = 0 /\ VW > 0

(* zeth_note(a_pk, value, rho, r). *)
ZethNote(a_pk, value, rho, r) == [a_pk |-> a_pk, value |-> value, rho |-> rho, r |-> r]

(* zeth_note(): value.fill(false), while a_pk, rho and r keep whatever    *)
(* their default-initialised arrays hold.  Reading them is undefined, so  *)
(* g, the note's storage before the constructor runs, is chosen freely.   *)
ZethNoteDefault(g) == [g EXCEPT !.value = [i \in 1 .. VW |-> 0]]

(* zeth_note::is_zero_valued: no bit of the value is set. *)
IsZeroValued(note) == \A i \in 1 .. VW : note.value[i] = 0

(* Fault-injection variant of ZethNoteFromProto: rho and trap_r passed to *)
(* the constructor in each other's place.                                  *)
ZethNoteFromProtoSwapped(p) ==
  LET apk == Bits254FromHex(p.apk)
      value == Bits64FromHex(VW, p.value)
      rho == Bits254FromHex(p.rho)
      trap_r == Bits254FromHex(p.trap_r)
  IN IF \E x \in {apk, value, rho, trap_r} : ~x.ok THEN LengthError
     ELSE Returns(ZethNote(apk.val, value.val, trap_r.val, rho.val))

(* zeth_note_from_proto: parse apk, value, rho and trap_r in that order;  *)
(* the first parser that throws ends the call with its length_error.      *)
ZethNoteFromProto(p) ==
  LET apk == Bits254FromHex(p.apk)
      value == Bits64FromHex(VW, p.value)
      rho == Bits254FromHex(p.rho)
      trap_r == Bits254FromHex(p.trap_r)
  IN IF \E x \in {apk, value, rho, trap_r} : ~x.ok THEN LengthError
     ELSE Returns(ZethNote(apk.val, value.val, rho.val, trap_r.val))
=============================================================================
