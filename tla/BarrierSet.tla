----------------------------- MODULE BarrierSet -----------------------------
(***************************************************************************)
(* The barriers of a shader core (barrier_set_t) under the warps that use  *)
(* them: CTAs are launched into slots, their warps issue barrier           *)
(* instructions, exit and retire in any order, and a slot is used again.   *)
(*                                                                         *)
(* A program is what a warp has to do with barriers: a sequence of         *)
(* instructions, after which it exits.  Counts are in warps (bar_count is  *)
(* in threads), 0 stands for "no count": all warps of the CTA.             *)
(***************************************************************************)
EXTENDS Integers, Sequences, FiniteSets

CONSTANTS
  Wid,       (* the warps of the core                                      *)
  Cta,       (* the CTA slots                                              *)
  WarpsOf,   (* the warps that a CTA in a slot gets                        *)
  Bar,       (* barrier numbers                                            *)
  Codes,     (* what the warps of a CTA may run                            *)
  MaxLaunch  (* bound: CTAs launched                                       *)

Type  == {"SYNC", "RED", "ARRIVE"}
Instr == [type : Type, bar : Bar, count : 0 .. Cardinality(Wid)]

ASSUME BarrierAssumption ==
  /\ IsFiniteSet(Wid)
  /\ WarpsOf \in [Cta -> (SUBSET Wid) \ {{}}]
  /\ \A c, d \in Cta : c # d => WarpsOf[c] \cap WarpsOf[d] = {}
  /\ Codes \subseteq [Wid -> Seq(Instr)]
  /\ MaxLaunch \in Nat

VARIABLES
  cta,        (* slots whose CTA is in m_cta_to_warps                      *)
  alive,      (* m_warp_active                                             *)
  atBarrier,  (* m_warp_at_barrier                                         *)
  atBar,      (* m_bar_id_to_warps                                         *)
  code, pc,   (* the program of each warp and its next instruction         *)
  running,    (* warps that have threads counted in m_cta_status           *)
  launched    (* bound: CTAs launched so far                               *)

barVars == <<cta, alive, atBarrier, atBar, code, pc, running, launched>>

BarInit ==
  /\ cta = {} /\ alive = {} /\ atBarrier = {}
  /\ atBar = [b \in Bar |-> {}]
  /\ code = [w \in Wid |-> <<>>] /\ pc = [w \in Wid |-> 1]
  /\ running = {}
  /\ launched = 0

CtaOf(w) == CHOOSE c \in Cta : w \in WarpsOf[c]

(* shd_warp_t::functional_done: the warp has issued its exit. *)
FunctionalDone(w) == w \notin alive

-----------------------------------------------------------------------------
(* shader_core_ctx::issue_block2core with allocate_barrier.                *)
Launch(c, p) ==
  /\ launched < MaxLaunch
  /\ WarpsOf[c] \cap running = {}
  /\ cta' = cta \union {c}
  /\ alive' = alive \union WarpsOf[c]
  /\ atBarrier' = atBarrier \ WarpsOf[c]
  /\ atBar' = [b \in Bar |-> atBar[b] \ WarpsOf[c]]
  /\ code' = [w \in Wid |-> IF w \in WarpsOf[c] THEN p[w] ELSE code[w]]
  /\ pc' = [w \in Wid |-> IF w \in WarpsOf[c] THEN 1 ELSE pc[w]]
  /\ running' = running \union WarpsOf[c]
  /\ launched' = launched + 1

(* Faulty: the barrier does not forget who has reached it. *)
Release_Remembers(b, freed, reached, waiting) ==
  /\ atBar' = [atBar EXCEPT ![b] = reached]
  /\ atBarrier' = waiting \ freed

(* Barrier b lets the warps in freed go. *)
Release(b, freed, reached, waiting) ==
  /\ atBar' = [atBar EXCEPT ![b] = reached \ freed]
  /\ atBarrier' = waiting \ freed

(* Faulty: the warp that arrives is not counted. *)
Complete_OneShort(in, warps, there) ==
  IF in.count = 0 THEN there = warps \cap alive
  ELSE Cardinality(there) + 1 = in.count

(* All that have not exited, or as many as the instruction says.           *)
Complete(in, warps, there) ==
  IF in.count = 0 THEN there = warps \cap alive
  ELSE Cardinality(there) = in.count

(* barrier_set_t::warp_reaches_barrier, called when a warp that does not   *)
(* wait issues a barrier instruction.                                      *)
warp_reaches_barrier(w, in) ==
  LET warps   == WarpsOf[CtaOf(w)]
      reached == atBar[in.bar] \union {w}
      there   == warps \cap reached
      waiting == IF in.type \in {"SYNC", "RED"} THEN atBarrier \union {w} ELSE atBarrier
  IN  Release(in.bar, IF Complete(in, warps, there) THEN there ELSE {}, reached, waiting)

Issue(w) ==
  /\ ~FunctionalDone(w) /\ w \notin atBarrier
  /\ pc[w] <= Len(code[w])
  /\ warp_reaches_barrier(w, code[w][pc[w]])
  /\ pc' = [pc EXCEPT ![w] = @ + 1]
  /\ UNCHANGED <<cta, alive, code, running, launched>>

(* Faulty: an exit does not test for a release. *)
warp_exit_NoRelease(w) ==
  /\ alive' = alive \ {w}
  /\ UNCHANGED <<atBar, atBarrier>>

(* barrier_set_t::warp_exit: every barrier that all remaining warps have   *)
(* reached is released.                                                    *)
warp_exit(w) ==
  LET warps == WarpsOf[CtaOf(w)]
      full  == {b \in Bar : warps \cap atBar[b] = warps \cap alive'}
  IN  /\ alive' = alive \ {w}
      /\ atBar' = [b \in Bar |-> IF b \in full THEN atBar[b] \ warps ELSE atBar[b]]
      /\ atBarrier' = atBarrier \ UNION {warps \cap atBar[b] : b \in full}

Exit(w) ==
  /\ ~FunctionalDone(w) /\ w \notin atBarrier
  /\ pc[w] > Len(code[w])
  /\ warp_exit(w)
  /\ UNCHANGED <<cta, code, pc, running, launched>>

(* fetch finds the warp hardware_done and calls register_cta_thread_exit   *)
(* for its threads; after the last one of the CTA, deallocate_barrier.     *)
Retire(w) ==
  /\ FunctionalDone(w) /\ w \in running
  /\ running' = running \ {w}
  /\ LET warps == WarpsOf[CtaOf(w)]
     IN  IF warps \cap running' = {}
         THEN /\ cta' = cta \ {CtaOf(w)}
              /\ alive' = alive \ warps
              /\ atBarrier' = atBarrier \ warps
              /\ atBar' = [b \in Bar |-> atBar[b] \ warps]
         ELSE UNCHANGED <<cta, alive, atBarrier, atBar>>
  /\ UNCHANGED <<code, pc, launched>>

BarNext ==
  \/ \E c \in Cta, p \in Codes : Launch(c, p)
  \/ \E w \in Wid : Issue(w) \/ Exit(w) \/ Retire(w)

(* A scheduler issues a warp that can issue in the end, since the others   *)
(* wait or end; fetch looks at every warp in every cycle.                  *)
BarFairness ==
  \A w \in Wid : WF_barVars(Issue(w) \/ Exit(w) \/ Retire(w))

BarSpec == BarInit /\ [][BarNext]_barVars /\ BarFairness

-----------------------------------------------------------------------------
(* The four words of the barrier set and the warps they speak of.          *)
BarTypeOK ==
  /\ cta \subseteq Cta
  /\ alive \subseteq running /\ running \subseteq UNION {WarpsOf[c] : c \in cta}
  /\ atBarrier \subseteq alive
  /\ atBar \in [Bar -> SUBSET UNION {WarpsOf[c] : c \in cta}]
  /\ code \in [Wid -> Seq(Instr)]
  /\ \A w \in Wid : pc[w] \in 1 .. Len(code[w]) + 1
  /\ launched \in 0 .. MaxLaunch

(* How often a warp has reached a barrier, and how often it went on.       *)
Reached(w, b) == Cardinality({n \in 1 .. pc[w] - 1 : code[w][n].bar = b})

WaitsAt(w, b) == w \in atBarrier /\ code[w][pc[w] - 1].bar = b
Waits(in) == in.type \in {"SYNC", "RED"}

WentOn(w, b) ==
  Cardinality({n \in 1 .. pc[w] - 1 : code[w][n].bar = b /\ Waits(code[w][n])})
    - (IF WaitsAt(w, b) THEN 1 ELSE 0)

(* The barriers that all warps of the CTA take part in.                    *)
ForAll(c, b) ==
  \A w \in WarpsOf[c] : \A n \in 1 .. Len(code[w]) :
    code[w][n].bar = b => code[w][n].count \in {0, Cardinality(WarpsOf[c])}

(* Nobody is through a barrier for the n-th time before every warp of the  *)
(* CTA that has not exited has reached it n times ("all warps have reached *)
(* barrier, so release waiting warps").                                    *)
BarrierHolds ==
  \A c \in cta : \A b \in Bar :
    ForAll(c, b) =>
      \A v, w \in WarpsOf[c] : v \in alive => WentOn(w, b) <= Reached(v, b)

(* A warp that waits is counted at the barrier that it waits at, so the    *)
(* warp that completes the barrier releases it.                            *)
WaiterIsCounted ==
  \A w \in atBarrier : w \in atBar[code[w][pc[w] - 1].bar]

(* When the last warp of a CTA has exited nobody is left at a barrier (the *)
(* assertions of deallocate_barrier, "no warps stuck at barrier").         *)
NoWarpStuck ==
  \A c \in cta : WarpsOf[c] \cap alive = {} =>
    /\ WarpsOf[c] \cap atBarrier = {}
    /\ \A b \in Bar : WarpsOf[c] \cap atBar[b] = {}

(* No barrier lets a warp through too soon, none keeps it.                 *)
BarriersHold == BarTypeOK /\ BarrierHolds /\ WaiterIsCounted /\ NoWarpStuck

(* Every CTA that is launched ends.                                        *)
EveryCtaEnds == \A c \in Cta : c \in cta ~> c \notin cta

=============================================================================
