------------------------------ MODULE MpcClient ------------------------------
(***************************************************************************)
(* zeth_protoboard of mpc_client.cpp: the inputs the MPC phase-2 client    *)
(* builds before it hands them to the joinsplit gadget (whose source is    *)
(* not in this repository) and runs its constraint pass.  Its hex          *)
(* literals are parsed by the modelled bits64/bits254 parsers; an          *)
(* exception from one of them leaves zeth_protoboard, and mpc_main, with   *)
(* its length_error.                                                       *)
(***************************************************************************)
EXTENDS Note

CONSTANT NumJsOutputs   \* ZETH_NUM_JS_OUTPUTS (defined outside this repository)

(* The literals "2F0000000000000F" and "15b86771...efa24eef", as nibbles. *)
VpubHex == <<2, 15, 0, 0, 0, 0, 0, 0, 0, 0, 0, 0, 0, 0, 0, 15>>
HSigHex == <<1, 5, 11, 8, 6, 7, 7, 1, 10, 6, 10, 12, 5, 10, 2, 4,
             15, 11, 0, 10, 9, 10, 4, 13, 3, 6, 9, 13, 0, 0, 0, 7,
             0, 15, 4, 9, 5, 6, 8, 5, 12, 1, 7, 8, 3, 11, 14, 12,
             6, 11, 2, 13, 2, 1, 15, 5, 14, 15, 10, 2, 4, 14, 14, 15>>

(* zeth_protoboard up to the joinsplit gadget's constructor: both roots    *)
(* zero, NumJsOutputs default-constructed notes (g[k] is the storage of    *)
(* the k-th before its constructor runs), vpub_in, vpub_out, h_sig_in and  *)
(* phi_in parsed in that order; the joinsplit inputs are default           *)
(* joinsplit_input objects of the external gadget library, left out.      *)
ZethProtoboardInputs(g) ==
  LET vpub_in == Bits64FromHex(VW, VpubHex)
      vpub_out == Bits64FromHex(VW, VpubHex)
      h_sig_in == Bits254FromHex(HSigHex)
      phi_in == Bits254FromHex(HSigHex)
  IN IF \E x \in {vpub_in, vpub_out, h_sig_in, phi_in} : ~x.ok THEN LengthError
     ELSE Returns([roots |-> <<0, 0>>,
                   outputs |-> [k \in 1 .. NumJsOutputs |-> ZethNoteDefault(g[k])],
                   vpub_in |-> vpub_in.val, vpub_out |-> vpub_out.val,
                   h_sig_in |-> h_sig_in.val, phi_in |-> phi_in.val])
=============================================================================
