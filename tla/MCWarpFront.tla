----------------------------- MODULE MCWarpFront -----------------------------
(* Three instructions: the way of warp 0 ends with a jump back from the    *)
(* last one to the exit, behind which there is no code; warp 1 loops for   *)
(* ever.                                                                   *)
EXTENDS WarpFront

MCTarget == [w \in Warp |-> IF w = 0 THEN <<3, 0, 2>> ELSE <<2, 1, 1>>]
==============================================================================
