------------------------------ MODULE MCCluster ------------------------------
(***************************************************************************)
(* What a cluster is given: an instance of CtaIssue with three kernels of  *)
(* different shapes on two clusters, and one of ClusterPorts with six      *)
(* answers for the two cores of a cluster.  And how far apart the cores    *)
(* are: a torus of seven SMs, whose last row is incomplete.  The three     *)
(* share no variable, so a behaviour runs one and leaves the others alone. *)
(***************************************************************************)
EXTENDS CtaIssue, ClusterPorts, HistTorus, TLC

CONSTANTS k1, k2, k3

MCNCta   == (k1 :> 3) @@ (k2 :> 2) @@ (k3 :> 1)
MCNWarp  == (k1 :> 1) @@ (k2 :> 2) @@ (k3 :> 1)
MCMaxCta == (k1 :> 2) @@ (k2 :> 1) @@ (k3 :> 2)

(* Two packets and two grants for core 0; an instruction and an answer of  *)
(* the perfect memory for core 1.                                          *)
MCKind   == [m \in Resp |-> IF m = "i1" THEN "inst" ELSE "data"]
MCCoreOf == [m \in Resp |-> IF m \in {"i1", "p1"} THEN 1 ELSE 0]
MCFrom   == [m \in Resp |-> CASE m \in {"g1", "g2"} -> "hist"
                              [] m = "p1" -> "perfect"
                              [] OTHER -> "icnt"]

VARIABLE part

ClusterInit ==
  /\ Init
  /\ PortsInit
  /\ \/ part \in {"ctas", "ports"} /\ triple = <<0, 0, 0>>
     \/ part = "torus" /\ TorusInit

ClusterNext ==
  \/ part = "ctas" /\ Next /\ UNCHANGED <<part, portVars, triple>>
  \/ part = "ports" /\ PortsNext /\ UNCHANGED <<part, vars, triple>>
  \/ part = "torus" /\ NextTriple /\ UNCHANGED <<part, vars, portVars>>

(* The part that runs is fair. *)
ClusterFairness ==
  /\ []<>(part # "ctas") \/ Fairness
  /\ []<>(part # "ports") \/ PortsFairness

ClusterSpec ==
  ClusterInit /\ [][ClusterNext]_<<part, vars, portVars, triple>> /\ ClusterFairness

(* All answers reach their core (see ClusterPorts). *)
EveryCoreIsAnswered == part = "ports" => EveryAnswerArrives
==============================================================================
