------------------------- MODULE MCPoseidonParams -------------------------
(***************************************************************************)
(* Three threads, three round constants and a 3 x 3 matrix: reserve(2T) =  *)
(* 6 < T*T = 9, so the matrix fill reallocates once, as it does for the   *)
(* protocol's T = 6 (reserve 12, 36 entries).                              *)
(***************************************************************************)
EXTENDS PoseidonParams
CONSTANTS t1, t2, t3
MCThreads == {t1, t2, t3}
=============================================================================
