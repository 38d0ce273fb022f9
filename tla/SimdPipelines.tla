---------------------------- MODULE SimdPipelines ----------------------------
(***************************************************************************)
(* The function units of a shader core that must not stall (sp_unit, sfu:  *)
(* pipelined_simd_unit) and the result buses into the EX_WB registers.     *)
(*                                                                         *)
(* A unit is issued an instruction only if a result bus is free in the     *)
(* cycle when it will leave the pipeline.  execute() is taken one unit at  *)
(* a time; `turn` is the next one, 0 before writeback and the shift of     *)
(* the buses.  The bus of an instruction is history: the code forgets it.  *)
(***************************************************************************)
EXTENDS Integers, FiniteSets

CONSTANTS
  NumUnits,  (* the units of m_fu without the ldst_unit, in order          *)
  NumBuses,  (* num_result_bus = pipe_widths[EX_WB]                        *)
  Kind,      (* the kinds of instructions                                  *)
  Latency,   (* warp_inst_t::latency                                       *)
  Interval,  (* warp_inst_t::initiation_interval                           *)
  Runs,      (* the kinds that can_issue of a unit lets pass               *)
  Depth,     (* m_pipeline_depth: max_sp_latency or max_sfu_latency        *)
  None

Unit == 1 .. NumUnits
Bus  == 1 .. NumBuses

(* An interval longer than the latency, or a latency longer than the       *)
(* pipeline, would be a stage that does not exist; the options of the      *)
(* functional simulator exclude them.                                      *)
ASSUME PipelineAssumption ==
  /\ NumUnits \in Nat \ {0} /\ NumBuses \in Nat \ {0}
  /\ Latency \in [Kind -> Nat] /\ Interval \in [Kind -> Nat]
  /\ Runs \in [Unit -> SUBSET Kind] /\ Depth \in [Unit -> Nat]
  /\ \A u \in Unit : \A k \in Runs[u] :
       /\ Interval[k] \in 1 .. Latency[k]
       /\ Latency[k] - Interval[k] < Depth[u]

Inst == [op : Kind, cycles : Nat, bus : Bus]
ASSUME NoneAssumption == None \notin Inst

VARIABLES
  turn,      (* the unit of execute() that is next                         *)
  dispatch,  (* m_dispatch_reg of each unit                                *)
  stage,     (* m_pipeline_reg of each unit                                *)
  occupied,  (* occupied of each unit: the bits that are set               *)
  resultBus, (* m_result_bus: the bits that are set                        *)
  exWb       (* m_pipeline_reg[EX_WB]: what each unit has moved there      *)

vars == <<turn, dispatch, stage, occupied, resultBus, exWb>>

Stage(u) == 0 .. Depth[u] - 1

Init ==
  /\ turn = 0
  /\ dispatch = [u \in Unit |-> None]
  /\ stage = [u \in Unit |-> [s \in Stage(u) |-> None]]
  /\ occupied = [u \in Unit |-> {}]
  /\ resultBus = [b \in Bus |-> {}]
  /\ exWb = [u \in Unit |-> None]

(* bitset >>= 1 *)
Shifted(bits) == {n - 1 : n \in bits \ {0}}

(* writeback() drains EX_WB, then execute() starts: the buses move on. *)
Writeback ==
  /\ turn = 0 /\ turn' = 1
  /\ exWb' = [u \in Unit |-> None]
  /\ resultBus' = [b \in Bus |-> Shifted(resultBus[b])]
  /\ UNCHANGED <<dispatch, stage, occupied>>

StartStage(i) == Latency[i.op] - Interval[i.op]

(* warp_inst_t::dispatch_delay is over with this cycle. *)
Starts(u) == dispatch[u] # None /\ dispatch[u].cycles <= 1

(* Faulty: the first stage, whatever the latency. *)
Advanced_FirstStage(u) ==
  [s \in Stage(u) |->
     IF Starts(u) /\ s = Depth[u] - 1 THEN dispatch[u]
     ELSE IF s + 1 \in Stage(u) THEN stage[u][s + 1] ELSE None]

(* pipelined_simd_unit::cycle: the stages, *)
Advanced(u) ==
  [s \in Stage(u) |->
     IF Starts(u) /\ s = StartStage(dispatch[u]) THEN dispatch[u]
     ELSE IF s + 1 \in Stage(u) THEN stage[u][s + 1] ELSE None]

(* and the dispatch register. *)
Waiting(u) ==
  IF dispatch[u] = None \/ Starts(u) THEN None
  ELSE [dispatch[u] EXCEPT !.cycles = @ - 1]

(* Faulty: only the slot of this cycle is looked at. *)
FreeBus_Now(k) == {b \in Bus : 0 \notin resultBus[b]}

(* test_res_bus *)
FreeBus(k) == {b \in Bus : Latency[k] \notin resultBus[b]}

(* Faulty: any free dispatch register will do. *)
CanIssue_OccupiedIgnored(u, k) == k \in Runs[u] /\ Waiting(u) = None

(* can_issue of the unit, after its cycle. *)
CanIssue(u, k) ==
  k \in Runs[u] /\ Waiting(u) = None /\ Latency[k] \notin Shifted(occupied[u])

Cycle(u) ==
  /\ exWb' = [exWb EXCEPT ![u] = IF 0 \in Stage(u) THEN stage[u][0] ELSE None]
  /\ stage' = [stage EXCEPT ![u] = Advanced(u)]
  /\ turn' = IF u = NumUnits THEN 0 ELSE u + 1

(* The first instruction of the issue port goes to the unit. *)
Execute(u, k) ==
  /\ turn = u /\ Cycle(u)
  /\ CanIssue(u, k)
  /\ \E b \in FreeBus(k) :
       /\ \A c \in FreeBus(k) : b <= c
       /\ resultBus' = [resultBus EXCEPT ![b] = @ \union {Latency[k]}]
       /\ dispatch' = [dispatch EXCEPT ![u] = [op |-> k, cycles |-> Interval[k], bus |-> b]]
  /\ occupied' = [occupied EXCEPT ![u] = Shifted(@) \union {Latency[k]}]

(* No instruction, or none that the unit or the buses have room for. *)
Idle(u) ==
  /\ turn = u /\ Cycle(u)
  /\ dispatch' = [dispatch EXCEPT ![u] = Waiting(u)]
  /\ occupied' = [occupied EXCEPT ![u] = Shifted(@)]
  /\ UNCHANGED resultBus

Next ==
  \/ Writeback
  \/ \E u \in Unit : Idle(u) \/ \E k \in Kind : Execute(u, k)

Spec == Init /\ [][Next]_vars

-----------------------------------------------------------------------------
TypeOK ==
  /\ turn \in 0 .. NumUnits
  /\ dispatch \in [Unit -> Inst \union {None}]
  /\ \A u \in Unit : stage[u] \in [Stage(u) -> Inst \union {None}]
  /\ stage = [u \in Unit |-> stage[u]]
  /\ occupied \in [Unit -> SUBSET Nat] /\ resultBus \in [Bus -> SUBSET Nat]
  /\ exWb \in [Unit -> Inst \union {None}]

(* The cycles until i, in the dispatch register, is where stage 0 is. *)
Ahead(i) == StartStage(i) + i.cycles

(* The stage that an instruction is dispatched to is empty by then         *)
(* (move_warp, "assert( dst->empty() )"): of all the latencies that meet   *)
(* in a unit no two come to the same stage.                                *)
NoCollision ==
  \A u \in Unit : \A s \in Stage(u) :
    Starts(u) /\ s = StartStage(dispatch[u]) + 1 => stage[u][s] = None

(* "the writeback stage drains all waiting instructions": there are never  *)
(* more of them than EX_WB has registers, which move_in would not survive, *)
(* although the units fill it without looking.                             *)
ExWbFits == Cardinality({u \in Unit : exWb[u] # None}) <= NumBuses

(* An instruction that will leave by bus b and has n cycles to go is in u. *)
HoldsFor(u, n, b) ==
  \/ n \in Stage(u) /\ stage[u][n] # None /\ stage[u][n].bus = b
  \/ dispatch[u] # None /\ dispatch[u].bus = b /\ n = Ahead(dispatch[u])

Cycles(u) == Stage(u) \union (IF dispatch[u] = None THEN {} ELSE {Ahead(dispatch[u])})

(* Its bit in the bus: the buses may have moved on and u not yet. *)
Slot(u, n) == IF turn # 0 /\ u >= turn THEN n - 1 ELSE n

(* A slot of a bus is reserved for exactly one instruction that will need  *)
(* it: none is kept by nobody, none is missing, none is promised twice.    *)
SlotsOwned ==
  \A b \in Bus :
    /\ \A m \in resultBus[b] : \E u \in Unit : \E n \in Cycles(u) : Slot(u, n) = m /\ HoldsFor(u, n, b)
    /\ \A u \in Unit : \A n \in Cycles(u) :
         HoldsFor(u, n, b) => Slot(u, n) \in resultBus[b] \union {-1}
    /\ \A u, v \in Unit : \A n \in Cycles(u), m \in Cycles(v) :
         HoldsFor(u, n, b) /\ HoldsFor(v, m, b) /\ Slot(u, n) = Slot(v, m) => u = v

(* No instruction meets another, in a unit or on a bus. *)
SlotsKept == TypeOK /\ NoCollision /\ SlotsOwned

==============================================================================
