------------------------------- MODULE MCBits -------------------------------
(* The conversions of bits.cpp, the note parser of proto_utils.cpp and    *)
(* the FFI calls of ff_ffi.cpp, each over every input of a small domain.   *)
(* A state is one call: its operation, its argument and, for an FFI call,  *)
(* one of its possible outcomes, chosen once; the behaviour only stutters. *)
EXTENDS Note, Ffi

CONSTANTS
  SW,     \* bits of a size_t: 64 in the code
  W128,   \* widths of bits128, bits256 and bits384, scaled; bits64 is VW
  W256,
  W384

ASSUME /\ VW < W128 /\ W128 < W256 /\ W256 < W384
       /\ \A w \in {W128, W256, W384} : w % 4 = 0

(* The fixed-width parsers, by the width of the array each returns. *)
FixedWidths == {VW, W128, W256, W384}
FixedFromHexOf(w, s) == CASE w = VW -> Bits64FromHex(w, s)
                          [] w = W128 -> Bits128FromHex(w, s)
                          [] w = W256 -> Bits256FromHex(w, s)
                          [] w = W384 -> Bits384FromHex(w, s)

(* Hex strings for the fixed-width parsers: every length up to one nibble *)
(* past the widest, over nibbles whose bits do not read the same reversed *)
(* (1 = 0001, 12 = 1100) and zero.                                         *)
FixedStrings == UNION {[1 .. n -> {0, 1, 12}] : n \in 0 .. W384 \div 4 + 1}

(* Hex strings for a_pk, rho and trap_r: a canonical digest, zero, a      *)
(* value of more than W bits, a string too short and one too long whose   *)
(* extra nibble is a leading zero.                                         *)
Hex254Strings == {<<1, 15>>, <<0, 0>>, <<4, 0>>, <<5>>, <<0, 3, 3>>}

(* Hex strings for value: canonical (zero and not), too short, too long.  *)
ValueStrings == {<<0, 0>>, <<2, 15>>, <<1>>, <<0, 0, 7>>}

Protos == [apk : Hex254Strings, value : ValueStrings,
           rho : Hex254Strings, trap_r : Hex254Strings]

(* FFI input buffers.  Fr: the Montgomery forms of 0, 1 and another      *)
(* element, a non-canonical form (not below P), a short and a long buffer. *)
(* G1: two points, a short and a long buffer.                              *)
FrBufs == {Encode(0, FrBytes), Encode(FrOneRepr, FrBytes), Encode(3, FrBytes),
           Encode(Rad - 4, FrBytes), <<2>>, <<1, 0, 0>>}
GBufs == {Encode(1, GBytes), Encode(3, GBytes), <<1>>, <<1, 0, 0, 0>>}
Around(n) == n - 1 .. n + 1

FfiCalls ==
  [op : {"Fr_one"}, size : Around(FrBytes), a : {<<>>}, b : {<<>>}]
  \cup [op : {"Fr_sum"}, size : Around(FrBytes), a : FrBufs, b : FrBufs]
  \cup [op : {"G1_one"}, size : Around(GBytes), a : {<<>>}, b : {<<>>}]
  \cup [op : {"G1_sum"}, size : Around(GBytes), a : GBufs, b : GBufs]
  \cup [op : {"G1_scalar_mul"}, size : Around(GBytes), a : GBufs, b : FrBufs]
  \cup [op : {"G2_one"}, size : Around(G2Bytes), a : {<<>>}, b : {<<>>}]

Calls ==
  [op : {"hex254"}, arg : [1 .. HexLen -> 0 .. 15]]
  \cup [op : {"fixed"}, arg : FixedStrings]
  \cup [op : {"size_t"}, arg : 0 .. 2 ^ SW - 1]
  \cup [op : {"note"}, arg : Protos]
  \cup [op : {"ffi"}, arg : FfiCalls]

VARIABLES call, result

Init == /\ call \in Calls
        /\ result \in IF call.op = "ffi" THEN FfiCall(call.arg) ELSE {Fail}
Next == UNCHANGED <<call, result>>
Spec == Init /\ [][Next]_<<call, result>>

(* The value a hex string denotes, most significant nibble first. *)
HexValue(s) == NumBE(BitVectorFromHex(s))

(* Reference: the binary digits of n without leading zeros, most          *)
(* significant first.                                                      *)
RECURSIVE MinimalBits(_)
MinimalBits(n) == IF n = 0 THEN <<>> ELSE MinimalBits(n \div 2) \o <<n % 2>>

(* Spec 8.1, for the W-bit digests the PRF and commitment gadgets write: a *)
(* hex string of a value below 2^W (every field element, as p < 2^W) goes  *)
(* through bit_vector_254_from_hex to exactly the W bits of that value,    *)
(* most significant first, and field_element_to_hex of those bits gives    *)
(* the string back.                                                        *)
HexRoundTrip ==
  call.op = "hex254" /\ HexValue(call.arg) < 2 ^ W =>
    /\ BitVector254FromHex(call.arg) = BitsOf(HexValue(call.arg))
    /\ FieldElementToHex(NumBE(BitVector254FromHex(call.arg))) = call.arg

(* Reference: the number a hex string denotes, read nibble by nibble. *)
HexNum(s) == LET v[i \in 0 .. Len(s)] == IF i = 0 THEN 0 ELSE 16 * v[i - 1] + s[i]
             IN v[Len(s)]

(* Spec 6 and 8.1 for every supported width: bits64/128/256/384_from_hex *)
(* each accept exactly the strings of width / 4 nibbles, and return the    *)
(* width-bit binary representation, most significant bit first, of the    *)
(* number the string denotes (computed here from the nibbles, not from    *)
(* the bit conversion).                                                    *)
FixedWidthHex ==
  call.op = "fixed" =>
    \A w \in FixedWidths :
      LET res == FixedFromHexOf(w, call.arg)
      IN /\ res.ok <=> 4 * Len(call.arg) = w
         /\ res.ok => res.val = [i \in 1 .. w |-> (HexNum(call.arg) \div 2 ^ (w - i)) % 2]

(* bit_vector_from_size_t_be gives the binary digits of every size_t, the *)
(* top bit set and 0 (the empty vector) included, despite its shifts      *)
(* wrapping modulo 2^64; bit_vector_from_size_t_le gives them reversed.   *)
SizeTBits ==
  call.op = "size_t" =>
    /\ BitVectorFromSizeTBe(SW, call.arg) = MinimalBits(call.arg)
    /\ BitVectorFromSizeTLe(SW, call.arg) = Reverse(MinimalBits(call.arg))

(* zeth_note_from_proto accepts exactly the notes whose a_pk, rho and     *)
(* trap_r strings denote values below 2^W and whose value string has      *)
(* VW / 4 nibbles; the note it returns holds each string's value in its   *)
(* own field, and is_zero_valued holds iff the value string denotes 0.   *)
NoteParse ==
  call.op = "note" =>
    LET p == call.arg
        res == ZethNoteFromProto(p)
        note == res.val
        Digest(s) == HexValue(s) < 2 ^ W
    IN /\ res.ok <=>
            (Digest(p.apk) /\ Digest(p.rho) /\ Digest(p.trap_r)
             /\ 4 * Len(p.value) = VW)
       /\ res.ok =>
            /\ note.a_pk = BitsOf(HexValue(p.apk))
            /\ note.rho = BitsOf(HexValue(p.rho))
            /\ note.r = BitsOf(HexValue(p.trap_r))
            /\ NumBE(note.value) = HexValue(p.value)
            /\ IsZeroValued(note) <=> HexValue(p.value) = 0

(* The size of the element each FFI call writes, and of those it reads. *)
OutBytes(op) == CASE op \in {"Fr_one", "Fr_sum"} -> FrBytes
                  [] op = "G2_one" -> G2Bytes
                  [] OTHER -> GBytes
InBytes(op) == CASE op = "Fr_sum" -> <<FrBytes, FrBytes>>
                 [] op = "G1_sum" -> <<GBytes, GBytes>>
                 [] op = "G1_scalar_mul" -> <<GBytes, FrBytes>>
                 [] OTHER -> <<0, 0>>

(* A buffer of the right size holding a canonical encoding. *)
WellFormed(buf, n) == Len(buf) = n /\ (n = FrBytes => NumLE(buf) < P)

RejectsWrongLength ==
  call.op = "note" /\ ZethNoteFromProto(call.arg).ok =>
    /\ \A f \in {"apk", "rho", "trap_r"} : Len(call.arg[f]) = HexLen
    /\ 4 * Len(call.arg.value) = VW

=============================================================================
