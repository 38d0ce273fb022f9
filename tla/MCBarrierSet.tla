---------------------------- MODULE MCBarrierSet ----------------------------
(* An instance of BarrierSet with a CTA of two warps: a producer that      *)
(* waits for room and a consumer that waits for data, each announcing what *)
(* it has with an ARRIVE at the barrier of the other.                      *)
EXTENDS BarrierSet, TLC

OneCta == 1 :> {1, 2}

Meet(b)   == [type |-> "SYNC",   bar |-> b, count |-> 2]
Arrive(b) == [type |-> "ARRIVE", bar |-> b, count |-> 2]

HandShake == {<< <<Meet(1), Arrive(0)>>, <<Arrive(1), Meet(0)>> >>}

=============================================================================
