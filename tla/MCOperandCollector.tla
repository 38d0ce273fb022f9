------------------------- MODULE MCOperandCollector -------------------------
(* An instance of OperandCollector with one instruction: a vector load of  *)
(* two registers that lie in the same bank.                                *)
EXTENDS OperandCollector, TLC

VectorLoad  == 1 :> [pipe |-> "MEM", warp |-> 0, src |-> <<1>>, dst |-> <<0, 2>>]
OneSet      == "GEN" :> <<0, 1, 2>>
OneDispatch == <<"GEN">>
OnePort     == <<[in |-> <<"SP", "MEM">>, sets |-> <<"GEN">>]>>
=============================================================================
