------------------------------- MODULE MCWarps -------------------------------
(***************************************************************************)
(* What keeps a warp from going on: an instance of Scheduler with three    *)
(* warps under any of its policies, and one of BarrierSet with CTA slots   *)
(* of three and two warps.  The two share no variable, so a behaviour      *)
(* runs one of them and leaves the other alone.                            *)
(***************************************************************************)
EXTENDS Scheduler, BarrierSet, TLC

I(op)  == [op |-> op, dep |-> FALSE]
On(op) == [op |-> op, dep |-> TRUE]

(* Two warps that meet at a barrier and one that has nothing to do with it *)
(* until it exits; a warp that does not run, one that computes, and one    *)
(* that branches and works next to a load.                                 *)
MCPrograms ==
  {(1 :> <<I("LOAD"), On("BARRIER"), I("EXIT")>>) @@
   (2 :> <<I("BRANCH"), I("BARRIER"), I("EXIT")>>) @@
   (3 :> <<I("ALU_SFU"), I("EXIT")>>),
   (1 :> <<>>) @@
   (2 :> <<I("ALU"), I("EXIT")>>) @@
   (3 :> <<I("BRANCH"), I("LOAD"), On("ALU"), I("EXIT")>>)}

(* The last warp is the oldest. *)
MCAges == {[w \in Warp |-> NumWarps + 1 - w]}

(* Two in a cycle, but for the two-level policy, whose turn is wrong then. *)
MCIssue == [p \in Policies |-> IF p = "two_level" THEN 1 ELSE 2]

VARIABLE part

(* What the first, the second and the third warp of a CTA do at barriers.  *)
Roles(p, q, r) ==
  [w \in 1 .. 5 |-> CASE w \in {1, 4} -> p [] w \in {2, 5} -> q [] w = 3 -> r]

Does(type, bar, count) == [type |-> type, bar |-> bar, count |-> count]
Sync(b) == Does("SYNC", b, 0)
Red(b)  == Does("RED", b, 0)
Meet(b) == Does("SYNC", b, 2)

(* Barriers for everybody, warps that leave early, a barrier for two of    *)
(* three warps, and a producer whose work a consumer waits for.            *)
MCCodes ==
  LET all == <<Sync(0), Red(1), Sync(0)>>
  IN  {Roles(all, all, all),
       Roles(<<Sync(0), Sync(1), Red(0)>>, <<Sync(0)>>, <<>>),
       Roles(<<Meet(0), Meet(0)>>, <<Meet(0), Meet(0)>>, <<>>),
       Roles(<<Does("ARRIVE", 0, 2)>>, <<Meet(0)>>, <<>>)}

MCWarpsOf == <<{1, 2, 3}, {4, 5}>>

WarpsInit ==
  /\ Init /\ BarInit
  /\ part \in {"scheduler", "barriers"}
  /\ part = "barriers" => policy = "lrr" /\ prog[1] = <<>>

WarpsNext ==
  \/ part = "scheduler" /\ Next /\ UNCHANGED <<part, barVars>>
  \/ part = "barriers" /\ BarNext /\ UNCHANGED <<part, vars>>

(* The part that runs is fair. *)
WarpsFairness ==
  /\ []<>(part # "scheduler") \/ Fairness
  /\ []<>(part # "barriers") \/ BarFairness

WarpsSpec == WarpsInit /\ [][WarpsNext]_<<part, vars, barVars>> /\ WarpsFairness

(* All warps reach their exit, under any policy (see Scheduler).           *)
EveryWarpExits == part = "scheduler" => EveryWarpEnds
=============================================================================
