----------------------------- MODULE MCPipelines -----------------------------
(***************************************************************************)
(* From the registers to the writeback: an instance of SimdPipelines with  *)
(* two SP units and an SFU on two buses, and one of OperandCollector with  *)
(* a collector unit each for SP and MEM instructions, one for both, and    *)
(* two banks.  The two share no variable, so a behaviour runs one of them  *)
(* and leaves the other alone.                                             *)
(***************************************************************************)
EXTENDS SimdPipelines, OperandCollector, TLC

(* Latencies that meet. *)
MCLatency  == [k \in Kind |-> CASE k = "add" -> 1 [] k = "mul" -> 2 [] k = "sin" -> 3]
MCInterval == [k \in Kind |-> CASE k = "add" -> 1 [] k = "mul" -> 1 [] k = "sin" -> 2]
MCRuns     == [u \in Unit |-> IF u = NumUnits THEN {"mul", "sin"} ELSE {"add", "mul"}]
MCDepth    == [u \in Unit |-> 3]

I(pipe, warp, src, dst) == [pipe |-> pipe, warp |-> warp, src |-> src, dst |-> dst]

(* Operands that share a bank, operands that do not, a vector load.        *)
MCProg ==
  <<I("SP", 0, <<0, 1, 2>>, <<1>>), I("SP", 1, <<1, 1>>, <<0, 0>>), I("MEM", 0, <<1>>, <<2, 3>>)>>

MCCuSets   == ("SP" :> <<0>>) @@ ("MEM" :> <<1>>) @@ ("GEN" :> <<2>>)
MCDispatch == <<"SP", "MEM", "GEN">>
MCPorts == <<[in |-> <<"SP">>, sets |-> <<"SP", "GEN">>],
             [in |-> <<"SP", "MEM">>, sets |-> <<"GEN">>],
             [in |-> <<"MEM">>, sets |-> <<"MEM", "GEN">>]>>

VARIABLE part

PipelinesInit == Init /\ CollectorInit /\ part \in {"units", "collector"}

PipelinesNext ==
  \/ part = "units" /\ Next /\ UNCHANGED <<part, collectorVars>>
  \/ part = "collector" /\ CollectorNext /\ UNCHANGED <<part, vars>>

(* Nothing is promised of the units; the collector, if it runs, is fair.   *)
PipelinesSpec ==
  /\ PipelinesInit /\ [][PipelinesNext]_<<part, vars, collectorVars>>
  /\ []<>(part # "collector") \/ CollectorFairness
==============================================================================
