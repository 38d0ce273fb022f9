-------------------------- MODULE Pipelines_proofs --------------------------
(***************************************************************************)
(* The function units (SimdPipelines): no instruction meets another in a   *)
(* unit or on a result bus, and EX_WB has room for whatever leaves, for    *)
(* any number of units and buses, and any latencies and intervals that fit *)
(* the pipelines.  Each instruction has a place: the cycles until it       *)
(* leaves its unit, counted through the dispatch register and the stages   *)
(* (HoldsFor).  A cycle of its unit lowers it by one (CycleMoves).  In a   *)
(* unit the places are kept apart by `occupied`, and on a bus the slots by *)
(* m_result_bus.                                                           *)
(*                                                                         *)
(* The operand collector (OperandCollector): what a unit waits for is what *)
(* the banks hold for it, the wavefront allocator grants what Granted      *)
(* says, each bank and each unit has one access in a cycle, and no bank    *)
(* idles that could be read; for any program, banks, units and ports.      *)
(* CollectorInv is the invariant: the requests in the banks and the        *)
(* registers that units wait for are the same (Queued), and an instruction *)
(* that waits for a unit is nowhere else (Placed).                         *)
(***************************************************************************)
EXTENDS SimdPipelines, OperandCollector, FiniteSetTheorems, SequenceTheorems, TLAPS

(* What a dispatch register holds may run in its unit and has time to go.  *)
Dispatched ==
  \A u \in Unit : dispatch[u] # None =>
    dispatch[u].cycles >= 1 /\ dispatch[u].op \in Runs[u]

(* Nobody is in the place of the instruction in the dispatch register.     *)
Apart ==
  \A u \in Unit :
    dispatch[u] # None /\ Ahead(dispatch[u]) \in Stage(u) =>
      stage[u][Ahead(dispatch[u])] = None

(* Every place that is taken is marked.                                    *)
PlacesMarked ==
  \A u \in Unit, n \in Nat, b \in Bus : HoldsFor(u, n, b) => n \in occupied[u]

UnitsInv == TypeOK /\ Dispatched /\ Apart /\ PlacesMarked

(* The three parts of SlotsOwned, over all places.                         *)
Reserved(b) ==
  \A m \in resultBus[b] : \E u \in Unit, n \in Nat : Slot(u, n) = m /\ HoldsFor(u, n, b)
Kept(b) ==
  \A u \in Unit, n \in Nat :
    HoldsFor(u, n, b) => Slot(u, n) \in resultBus[b] \union {-1}
Single(b) ==
  \A u, v \in Unit : \A n, m \in Nat :
    HoldsFor(u, n, b) /\ HoldsFor(v, m, b) /\ Slot(u, n) = Slot(v, m) => u = v

BusesInv == \A b \in Bus : Reserved(b) /\ Kept(b) /\ Single(b)

(* What has left by a bus in this cycle is alone there.                    *)
Leaving ==
  \A v \in Unit : exWb[v] # None =>
    /\ \A u \in Unit : exWb[u] # None /\ exWb[u].bus = exWb[v].bus => u = v
    /\ \A u \in Unit, n \in Nat : HoldsFor(u, n, exWb[v].bus) => Slot(u, n) # -1

PipeInv == UnitsInv /\ BusesInv /\ Leaving

-----------------------------------------------------------------------------
(* The places an instruction can have.                                     *)
LEMMA Places ==
  ASSUME NEW u \in Unit, NEW k \in Runs[u]
  PROVE  /\ k \in Kind
         /\ Latency[k] \in Nat \ {0} /\ Interval[k] \in Nat \ {0}
         /\ Latency[k] - Interval[k] \in Stage(u)
BY PipelineAssumption DEF Stage

(* What waits in the dispatch register of a unit has a stage to go to and  *)
(* a place: the cycles it waits and those of the stages after it.          *)
LEMMA AheadIsPlace ==
  ASSUME TypeOK, Dispatched, NEW u \in Unit, dispatch[u] # None
  PROVE  /\ dispatch[u] \in Inst
         /\ StartStage(dispatch[u]) \in Stage(u)
         /\ Ahead(dispatch[u]) = StartStage(dispatch[u]) + dispatch[u].cycles
         /\ Ahead(dispatch[u]) \in Nat \ {0}
<1>1. dispatch[u] \in Inst /\ dispatch[u].cycles \in Nat \ {0} /\ dispatch[u].op \in Runs[u]
  BY DEF TypeOK, Dispatched, Inst
<1>2. StartStage(dispatch[u]) \in Stage(u) /\ StartStage(dispatch[u]) \in Nat
  BY <1>1, Places DEF StartStage, Stage
<1>. QED
  BY <1>1, <1>2 DEF Ahead

(* What is left in the dispatch register has one cycle less to go.         *)
LEMMA WaitingIsPlace ==
  ASSUME TypeOK, Dispatched, NEW u \in Unit, Waiting(u) # None
  PROVE  /\ dispatch[u] # None /\ ~Starts(u)
         /\ Waiting(u) \in Inst /\ Waiting(u).bus = dispatch[u].bus
         /\ Waiting(u).op \in Runs[u] /\ Waiting(u).cycles >= 1
         /\ Ahead(Waiting(u)) = Ahead(dispatch[u]) - 1
<1>1. dispatch[u] # None /\ ~Starts(u) /\ Waiting(u) = [dispatch[u] EXCEPT !.cycles = @ - 1]
  BY DEF Waiting
<1>2. dispatch[u] \in Inst /\ dispatch[u].cycles \in Nat /\ dispatch[u].cycles > 1
      /\ dispatch[u].op \in Runs[u]
  BY <1>1 DEF TypeOK, Inst, Starts, Dispatched
<1>3. /\ Waiting(u).cycles = dispatch[u].cycles - 1
      /\ Waiting(u).op = dispatch[u].op /\ Waiting(u).bus = dispatch[u].bus
      /\ Waiting(u) \in Inst
  BY <1>1, <1>2 DEF Inst
<1>4. StartStage(dispatch[u]) \in Nat /\ StartStage(Waiting(u)) = StartStage(dispatch[u])
  BY <1>2, <1>3, Places DEF StartStage, Stage
<1>. QED
  BY <1>1, <1>2, <1>3, <1>4 DEF Ahead

(* A cycle of a unit brings everything in it one place nearer to its end.  *)
LEMMA CycleMoves ==
  ASSUME TypeOK, Dispatched, Apart, NEW u \in Unit, Cycle(u), NEW n \in Nat, NEW b \in Bus
  PROVE  HoldsFor(u, n + 1, b) <=>
           \/ n \in Stage(u) /\ stage'[u][n] # None /\ stage'[u][n].bus = b
           \/ Waiting(u) # None /\ Waiting(u).bus = b /\ n = Ahead(Waiting(u))
<1>1. stage'[u] = Advanced(u)
  BY DEF Cycle, TypeOK
<1>2. ASSUME HoldsFor(u, n + 1, b)
      PROVE  \/ n \in Stage(u) /\ stage'[u][n] # None /\ stage'[u][n].bus = b
             \/ Waiting(u) # None /\ Waiting(u).bus = b /\ n = Ahead(Waiting(u))
  <2>1. CASE n + 1 \in Stage(u) /\ stage[u][n + 1] # None /\ stage[u][n + 1].bus = b
    <3>1. n \in Stage(u)
      BY <2>1, PipelineAssumption DEF Stage
    <3>2. ~(Starts(u) /\ n = StartStage(dispatch[u]))
      <4>1. SUFFICES ASSUME Starts(u), n = StartStage(dispatch[u]) PROVE FALSE
        OBVIOUS
      <4>2. dispatch[u] # None /\ Ahead(dispatch[u]) = n + 1
        BY <4>1, AheadIsPlace DEF Starts, Dispatched, Inst
      <4>. QED
        BY <2>1, <4>2 DEF Apart
    <3>. QED
      BY <1>1, <2>1, <3>1, <3>2 DEF Advanced
  <2>2. CASE dispatch[u] # None /\ dispatch[u].bus = b /\ n + 1 = Ahead(dispatch[u])
    <3>1. CASE Starts(u)
      <4>1. n = StartStage(dispatch[u]) /\ n \in Stage(u)
        BY <2>2, <3>1, AheadIsPlace DEF Starts, Dispatched, Inst, Stage
      <4>. QED
        BY <1>1, <2>2, <3>1, <4>1 DEF Advanced
    <3>2. CASE ~Starts(u)
      <4>1. Waiting(u) # None
        BY <2>2, <3>2, AheadIsPlace, NoneAssumption DEF Waiting, Starts, Inst
      <4>. QED
        BY <2>2, <4>1, WaitingIsPlace
    <3>. QED
      BY <3>1, <3>2
  <2>. QED
    BY <1>2, <2>1, <2>2 DEF HoldsFor
<1>3. ASSUME n \in Stage(u), stage'[u][n] # None, stage'[u][n].bus = b
      PROVE  HoldsFor(u, n + 1, b)
  <2>1. CASE Starts(u) /\ n = StartStage(dispatch[u])
    <3>1. dispatch[u] # None /\ Ahead(dispatch[u]) = n + 1
      BY <2>1, AheadIsPlace DEF Starts, Dispatched, Inst
    <3>. QED
      BY <1>1, <1>3, <2>1, <3>1 DEF Advanced, HoldsFor
  <2>2. CASE ~(Starts(u) /\ n = StartStage(dispatch[u]))
    BY <1>1, <1>3, <2>2 DEF Advanced, HoldsFor
  <2>. QED
    BY <2>1, <2>2
<1>4. ASSUME Waiting(u) # None, Waiting(u).bus = b, n = Ahead(Waiting(u))
      PROVE  HoldsFor(u, n + 1, b)
  BY <1>4, WaitingIsPlace, AheadIsPlace DEF HoldsFor
<1>. QED
  BY <1>2, <1>3, <1>4

Steps(u) == Idle(u) \/ \E k \in Kind : Execute(u, k)

(* What is in the other units stays where it is.                           *)
LEMMA OthersStay ==
  ASSUME TypeOK, NEW u \in Unit, Steps(u), NEW v \in Unit, v # u
  PROVE  /\ stage'[v] = stage[v] /\ dispatch'[v] = dispatch[v]
         /\ occupied'[v] = occupied[v] /\ exWb'[v] = exWb[v]
         /\ \A n \in Nat, b \in Bus : HoldsFor(v, n, b)' <=> HoldsFor(v, n, b)
<1>1. /\ stage'[v] = stage[v] /\ dispatch'[v] = dispatch[v]
      /\ occupied'[v] = occupied[v] /\ exWb'[v] = exWb[v]
  BY DEF Steps, Idle, Execute, Cycle, TypeOK
<1>. QED
  BY <1>1 DEF HoldsFor

(* Slots stand still while execute() goes through the units.               *)
LEMMA SlotsStay ==
  ASSUME NEW u \in Unit, Steps(u), NEW v \in Unit, NEW n \in Nat
  PROVE  Slot(v, n)' = IF v = u THEN Slot(u, n + 1) ELSE Slot(v, n)
<1>1. turn = u /\ turn' = (IF u = NumUnits THEN 0 ELSE u + 1)
  BY DEF Steps, Idle, Execute, Cycle
<1>2. u \in Nat \ {0} /\ v \in Nat \ {0} /\ u <= NumUnits /\ v <= NumUnits /\ NumUnits \in Nat
  BY PipelineAssumption DEF Unit
<1>. QED
  BY <1>1, <1>2 DEF Slot

(* What happens in the unit: everything moves on, and at most one new      *)
(* place is taken, which nobody has marked and whose slot is free.         *)
Moves(u, new) ==
  /\ \A n \in Nat, b \in Bus :
       HoldsFor(u, n, b)' <=> HoldsFor(u, n + 1, b) \/ <<n, b>> \in new
  /\ \A b \in Bus : resultBus'[b] = resultBus[b] \union {n \in Nat : <<n, b>> \in new}
  /\ occupied'[u] = Shifted(occupied[u]) \union {n \in Nat : \E b \in Bus : <<n, b>> \in new}
  /\ \A n \in Nat, b \in Bus : <<n, b>> \in new =>
       /\ n \notin Shifted(occupied[u]) /\ n \notin resultBus[b]
       /\ new = {<<n, b>>}

(* Idle moves everything by one, Execute also gives a place and a slot to  *)
(* one new instruction that nobody had.                                    *)
LEMMA UnitMoves ==
  ASSUME UnitsInv, NEW u \in Unit, Steps(u)
  PROVE  \E new \in SUBSET (Nat \X Bus) : Moves(u, new)
<1>1. CASE Idle(u)
  <2>1. dispatch'[u] = Waiting(u) /\ occupied'[u] = Shifted(occupied[u]) /\ resultBus' = resultBus
    BY <1>1 DEF Idle, UnitsInv, TypeOK
  <2>2. \A n \in Nat, b \in Bus : HoldsFor(u, n, b)' <=> HoldsFor(u, n + 1, b)
    BY <1>1, <2>1, CycleMoves DEF Idle, UnitsInv, HoldsFor, Ahead, StartStage
  <2>3. Moves(u, {})
    BY <2>1, <2>2 DEF Moves
  <2>. QED
    BY <2>3
<1>2. ASSUME NEW k \in Kind, Execute(u, k)
      PROVE  \E new \in SUBSET (Nat \X Bus) : Moves(u, new)
  <2>1. PICK c \in FreeBus(k) :
          /\ resultBus' = [resultBus EXCEPT ![c] = @ \union {Latency[k]}]
          /\ dispatch' = [dispatch EXCEPT ![u] = [op |-> k, cycles |-> Interval[k], bus |-> c]]
    BY <1>2 DEF Execute
  <2>2. k \in Runs[u] /\ Waiting(u) = None /\ Latency[k] \notin Shifted(occupied[u])
    BY <1>2 DEF Execute, CanIssue
  <2>3. c \in Bus /\ Latency[k] \notin resultBus[c]
    BY DEF FreeBus
  <2>4. Latency[k] \in Nat /\ Interval[k] \in Nat
    BY <2>2, Places
  <2>5. dispatch'[u] = [op |-> k, cycles |-> Interval[k], bus |-> c]
    BY <2>1 DEF UnitsInv, TypeOK
  <2>6. dispatch'[u] # None /\ dispatch'[u].bus = c
    BY <2>3, <2>4, <2>5, NoneAssumption DEF Inst
  <2>7. Ahead(dispatch'[u]) = Latency[k]
    BY <2>4, <2>5 DEF Ahead, StartStage
  <2>8. \A n \in Nat, b \in Bus :
          HoldsFor(u, n, b)' <=> HoldsFor(u, n + 1, b) \/ <<n, b>> \in {<<Latency[k], c>>}
    <3>1. ASSUME NEW n \in Nat, NEW b \in Bus
          PROVE  HoldsFor(u, n, b)' <=>
                   \/ n \in Stage(u) /\ stage'[u][n] # None /\ stage'[u][n].bus = b
                   \/ dispatch'[u] # None /\ dispatch'[u].bus = b /\ n = Ahead(dispatch'[u])
      BY DEF HoldsFor, Ahead, StartStage
    <3>2. ASSUME NEW n \in Nat, NEW b \in Bus
          PROVE  HoldsFor(u, n + 1, b) <=> n \in Stage(u) /\ stage'[u][n] # None /\ stage'[u][n].bus = b
      BY <1>2, <2>2, CycleMoves DEF Execute, UnitsInv
    <3>. QED
      BY <2>6, <2>7, <3>1, <3>2
  <2>9. \A b \in Bus :
          resultBus'[b] = resultBus[b] \union {n \in Nat : <<n, b>> \in {<<Latency[k], c>>}}
    BY <2>1, <2>3, <2>4 DEF UnitsInv, TypeOK
  <2>10. occupied'[u] = Shifted(occupied[u])
           \union {n \in Nat : \E b \in Bus : <<n, b>> \in {<<Latency[k], c>>}}
    <3>1. occupied'[u] = Shifted(occupied[u]) \union {Latency[k]}
      BY <1>2 DEF Execute, UnitsInv, TypeOK
    <3>. QED
      BY <2>3, <2>4, <3>1
  <2>11. Moves(u, {<<Latency[k], c>>})
    BY <2>2, <2>3, <2>4, <2>8, <2>9, <2>10 DEF Moves
  <2>12. {<<Latency[k], c>>} \in SUBSET (Nat \X Bus)
    BY <2>3, <2>4
  <2>. QED
    BY <2>11, <2>12
<1>. QED
  BY <1>1, <1>2 DEF Steps

-----------------------------------------------------------------------------
(* Nothing is anywhere at first.                                           *)
LEMMA PipeInit == Init => PipeInv
<1>1. SUFFICES ASSUME Init PROVE PipeInv
  OBVIOUS
<1>2. TypeOK
  BY <1>1, PipelineAssumption DEF Init, TypeOK, Stage
<1>3. \A u \in Unit, n \in Nat, b \in Bus : ~HoldsFor(u, n, b)
  BY <1>1 DEF Init, HoldsFor
<1>4. Dispatched /\ Apart
  BY <1>1 DEF Init, Dispatched, Apart
<1>5. BusesInv
  BY <1>1, <1>3 DEF Init, BusesInv, Reserved, Kept, Single
<1>6. Leaving
  BY <1>1 DEF Init, Leaving
<1>. QED
  BY <1>2, <1>3, <1>4, <1>5, <1>6 DEF PipeInv, UnitsInv, PlacesMarked

(* writeback() and the shift: nothing moves but the buses.                 *)
LEMMA WritebackKeeps == ASSUME PipeInv, Writeback PROVE PipeInv'
<1>1. /\ turn = 0 /\ turn' = 1 /\ exWb' = [u \in Unit |-> None]
      /\ dispatch' = dispatch /\ stage' = stage /\ occupied' = occupied
      /\ resultBus' = [b \in Bus |-> Shifted(resultBus[b])]
  BY DEF Writeback
<1>2. TypeOK'
  BY <1>1, PipelineAssumption DEF PipeInv, UnitsInv, TypeOK, Shifted, Stage
<1>3. \A u \in Unit, n \in Nat, b \in Bus : HoldsFor(u, n, b)' <=> HoldsFor(u, n, b)
  BY <1>1 DEF HoldsFor, Ahead, StartStage
<1>4. Dispatched' /\ Apart'
  BY <1>1 DEF PipeInv, UnitsInv, Dispatched, Apart, Ahead, StartStage
<1>5. PlacesMarked'
  BY <1>1, <1>3 DEF PipeInv, UnitsInv, PlacesMarked
<1>6. \A u \in Unit, n \in Nat : Slot(u, n) = n /\ Slot(u, n)' = n - 1
  BY <1>1 DEF Slot, Unit
<1>7. ASSUME NEW b \in Bus PROVE (Reserved(b) /\ Kept(b) /\ Single(b))'
  <2>1. resultBus'[b] = Shifted(resultBus[b]) /\ resultBus[b] \in SUBSET Nat
    BY <1>1 DEF PipeInv, UnitsInv, TypeOK
  <2>2. Reserved(b) /\ Kept(b) /\ Single(b)
    BY DEF PipeInv, BusesInv
  <2>3. Reserved(b)'
    <3>1. SUFFICES ASSUME NEW m \in resultBus'[b]
                   PROVE  \E u \in Unit, n \in Nat : Slot(u, n)' = m /\ HoldsFor(u, n, b)'
      BY DEF Reserved
    <3>2. m \in Nat /\ m + 1 \in resultBus[b]
      BY <2>1 DEF Shifted
    <3>3. PICK u \in Unit, n \in Nat : Slot(u, n) = m + 1 /\ HoldsFor(u, n, b)
      BY <2>2, <3>2 DEF Reserved
    <3>. QED
      BY <1>3, <1>6, <3>2, <3>3
  <2>4. Kept(b)'
    <3>1. SUFFICES ASSUME NEW u \in Unit, NEW n \in Nat, HoldsFor(u, n, b)'
                   PROVE  n - 1 \in resultBus'[b] \union {-1}
      BY <1>6 DEF Kept
    <3>2. n \in resultBus[b]
      BY <1>3, <1>6, <2>2, <3>1 DEF Kept
    <3>. QED
      BY <2>1, <3>2 DEF Shifted
  <2>5. Single(b)'
    <3>1. SUFFICES ASSUME NEW u \in Unit, NEW v \in Unit, NEW n \in Nat, NEW m \in Nat,
                          HoldsFor(u, n, b)', HoldsFor(v, m, b)', Slot(u, n)' = Slot(v, m)'
                   PROVE  u = v
      BY DEF Single
    <3>2. Slot(u, n) = Slot(v, m) /\ HoldsFor(u, n, b) /\ HoldsFor(v, m, b)
      BY <1>3, <1>6, <3>1
    <3>. QED
      BY <2>2, <3>2 DEF Single
  <2>. QED
    BY <2>3, <2>4, <2>5
<1>8. Leaving'
  BY <1>1 DEF Leaving
<1>. QED
  BY <1>2, <1>4, <1>5, <1>7, <1>8 DEF PipeInv, UnitsInv, BusesInv

(* A cycle of a unit, with the instruction that is issued to it, if any.   *)
LEMMA UnitTypes ==
  ASSUME UnitsInv, NEW u \in Unit, Steps(u)
  PROVE  /\ TypeOK'
         /\ dispatch'[u] # None => dispatch'[u].cycles >= 1 /\ dispatch'[u].op \in Runs[u]
<1>1. turn' \in 0 .. NumUnits
  BY PipelineAssumption DEF Steps, Idle, Execute, Cycle, Unit
<1>2. /\ stage' = [v \in Unit |-> stage'[v]]
      /\ \A v \in Unit : stage'[v] \in [Stage(v) -> Inst \union {None}]
  <2>1. stage' = [stage EXCEPT ![u] = Advanced(u)]
    BY DEF Steps, Idle, Execute, Cycle
  <2>2. Advanced(u) \in [Stage(u) -> Inst \union {None}]
    BY DEF Advanced, UnitsInv, TypeOK
  <2>. QED
    BY <2>1, <2>2 DEF UnitsInv, TypeOK
<1>3. exWb' \in [Unit -> Inst \union {None}]
  BY DEF Steps, Idle, Execute, Cycle, UnitsInv, TypeOK
<1>4. Shifted(occupied[u]) \in SUBSET Nat
  <2>1. occupied[u] \in SUBSET Nat
    BY DEF UnitsInv, TypeOK
  <2>. QED
    BY <2>1 DEF Shifted
<1>5. CASE Idle(u)
  <2>1. dispatch' = [dispatch EXCEPT ![u] = Waiting(u)] /\ resultBus' = resultBus
        /\ occupied' = [occupied EXCEPT ![u] = Shifted(@)]
    BY <1>5 DEF Idle
  <2>2. dispatch' \in [Unit -> Inst \union {None}] /\ dispatch'[u] = Waiting(u)
    BY <2>1, WaitingIsPlace DEF UnitsInv, TypeOK
  <2>. QED
    BY <1>1, <1>2, <1>3, <1>4, <2>1, <2>2, WaitingIsPlace DEF UnitsInv, TypeOK
<1>6. ASSUME NEW k \in Kind, Execute(u, k)
      PROVE  /\ TypeOK'
             /\ dispatch'[u] # None => dispatch'[u].cycles >= 1 /\ dispatch'[u].op \in Runs[u]
  <2>1. PICK c \in FreeBus(k) :
          /\ resultBus' = [resultBus EXCEPT ![c] = @ \union {Latency[k]}]
          /\ dispatch' = [dispatch EXCEPT ![u] = [op |-> k, cycles |-> Interval[k], bus |-> c]]
    BY <1>6 DEF Execute
  <2>2. c \in Bus /\ k \in Runs[u] /\ Latency[k] \in Nat /\ Interval[k] \in Nat \ {0}
    BY <1>6, Places DEF FreeBus, Execute, CanIssue
  <2>3. dispatch' \in [Unit -> Inst \union {None}]
    BY <2>1, <2>2 DEF UnitsInv, TypeOK, Inst
  <2>4. dispatch'[u] = [op |-> k, cycles |-> Interval[k], bus |-> c]
    BY <2>1 DEF UnitsInv, TypeOK
  <2>5. resultBus' \in [Bus -> SUBSET Nat]
    BY <2>1, <2>2 DEF UnitsInv, TypeOK
  <2>6. occupied' \in [Unit -> SUBSET Nat]
    BY <1>4, <1>6, <2>2 DEF Execute, UnitsInv, TypeOK
  <2>. QED
    BY <1>1, <1>2, <1>3, <2>2, <2>3, <2>4, <2>5, <2>6 DEF TypeOK
<1>. QED
  BY <1>5, <1>6 DEF Steps

(* In the unit itself: the new instruction takes a place that `occupied`   *)
(* shows to be free, the others keep their distance.                       *)
LEMMA UnitKeepsUnits ==
  ASSUME UnitsInv, NEW u \in Unit, Steps(u)
  PROVE  UnitsInv'
<1>1. TypeOK'
  BY UnitTypes
<1>2. Dispatched'
  BY UnitTypes, OthersStay DEF UnitsInv, Dispatched
<1>3. PICK new \in SUBSET (Nat \X Bus) : Moves(u, new)
  BY UnitMoves
<1>4. PlacesMarked'
  <2>1. SUFFICES ASSUME NEW v \in Unit, NEW n \in Nat, NEW b \in Bus, HoldsFor(v, n, b)'
                 PROVE  n \in occupied'[v]
    BY DEF PlacesMarked
  <2>2. CASE v # u
    BY <2>1, <2>2, OthersStay DEF UnitsInv, PlacesMarked
  <2>3. CASE v = u /\ HoldsFor(u, n + 1, b)
    <3>1. n + 1 \in occupied[u]
      BY <2>3 DEF UnitsInv, PlacesMarked
    <3>2. n \in Shifted(occupied[u])
      BY <3>1 DEF Shifted
    <3>. QED
      BY <1>3, <2>3, <3>2 DEF Moves
  <2>4. CASE v = u /\ <<n, b>> \in new
    BY <1>3, <2>4 DEF Moves
  <2>. QED
    BY <1>3, <2>1, <2>2, <2>3, <2>4 DEF Moves
<1>5. ASSUME NEW v \in Unit, dispatch'[v] # None, Ahead(dispatch'[v]) \in Stage(v)
      PROVE  stage'[v][Ahead(dispatch'[v])] = None
  <2>1. CASE v # u
    BY <1>5, <2>1, OthersStay DEF UnitsInv, Apart
  <2>2. CASE v = u /\ Idle(u)
    <3>1. dispatch'[u] = Waiting(u)
      BY <2>2 DEF Idle, UnitsInv, TypeOK
    <3>2. /\ dispatch[u] # None /\ ~Starts(u) /\ Ahead(dispatch[u]) \in Nat \ {0}
          /\ Ahead(Waiting(u)) = Ahead(dispatch[u]) - 1
      BY <1>5, <2>2, <3>1, WaitingIsPlace, AheadIsPlace DEF UnitsInv
    <3>3. stage'[u] = Advanced(u)
      BY <2>2 DEF Idle, Cycle, UnitsInv, TypeOK
    <3>. QED
      BY <1>5, <2>2, <3>1, <3>2, <3>3 DEF Advanced, UnitsInv, Apart
  <2>3. ASSUME v = u, NEW k \in Kind, Execute(u, k)
        PROVE  stage'[v][Ahead(dispatch'[v])] = None
    <3>1. PICK c \in FreeBus(k) :
            dispatch' = [dispatch EXCEPT ![u] = [op |-> k, cycles |-> Interval[k], bus |-> c]]
      BY <2>3 DEF Execute
    <3>2. dispatch'[u] = [op |-> k, cycles |-> Interval[k], bus |-> c]
      BY <3>1 DEF UnitsInv, TypeOK
    <3>3. k \in Runs[u] /\ Latency[k] \notin Shifted(occupied[u])
      BY <2>3 DEF Execute, CanIssue
    <3>4. Latency[k] \in Nat /\ Interval[k] \in Nat
      BY <3>3, Places
    <3>5. Ahead(dispatch'[u]) = Latency[k]
      BY <3>2, <3>4 DEF Ahead, StartStage
    <3>6. ASSUME stage'[u][Latency[k]] # None PROVE FALSE
      <4>1. Latency[k] \in Stage(u)
        BY <1>5, <2>3, <3>5
      <4>2. stage'[u][Latency[k]].bus \in Bus
        BY <1>1, <3>6, <4>1 DEF TypeOK, Inst
      <4>3. Cycle(u)
        BY <2>3 DEF Execute
      <4>4. HoldsFor(u, Latency[k] + 1, stage'[u][Latency[k]].bus)
        BY <3>4, <3>6, <4>1, <4>2, <4>3, CycleMoves DEF UnitsInv
      <4>5. Latency[k] + 1 \in occupied[u]
        BY <3>4, <4>2, <4>4 DEF UnitsInv, PlacesMarked
      <4>. QED
        BY <3>3, <3>4, <4>5 DEF Shifted
    <3>. QED
      BY <2>3, <3>5, <3>6
  <2>. QED
    BY <2>1, <2>2, <2>3 DEF Steps
<1>6. Apart'
  BY <1>5 DEF Apart, Ahead, StartStage
<1>. QED
  BY <1>1, <1>2, <1>4, <1>6 DEF UnitsInv

(* On the buses: the slots of the others stand still, those of the unit have *)
(* moved already, and the new instruction takes one that is free.          *)
LEMMA UnitKeepsBuses ==
  ASSUME UnitsInv, BusesInv, NEW u \in Unit, Steps(u)
  PROVE  BusesInv'
<1>1. PICK new \in SUBSET (Nat \X Bus) : Moves(u, new)
  BY UnitMoves
<1>2. SUFFICES ASSUME NEW b \in Bus PROVE (Reserved(b) /\ Kept(b) /\ Single(b))'
  BY DEF BusesInv
<1>3. Reserved(b) /\ Kept(b) /\ Single(b) /\ resultBus[b] \in SUBSET Nat
  BY DEF BusesInv, UnitsInv, TypeOK
<1>4. /\ resultBus'[b] = resultBus[b] \union {n \in Nat : <<n, b>> \in new}
      /\ \A n \in Nat : HoldsFor(u, n, b)' <=> HoldsFor(u, n + 1, b) \/ <<n, b>> \in new
      /\ \A n \in Nat : <<n, b>> \in new => n \notin resultBus[b]
  BY <1>1 DEF Moves
<1>5. \A n \in Nat : Slot(u, n + 1) = n /\ Slot(u, n)' = n
  <2>1. turn = u /\ u \in Nat \ {0}
    BY DEF Steps, Idle, Execute, Unit
  <2>. QED
    BY <2>1, SlotsStay DEF Slot
<1>6. \A v \in Unit, n \in Nat : v # u =>
        /\ HoldsFor(v, n, b)' <=> HoldsFor(v, n, b)
        /\ Slot(v, n)' = Slot(v, n)
  BY OthersStay, SlotsStay DEF UnitsInv
<1>7. Reserved(b)'
  <2>1. SUFFICES ASSUME NEW m \in resultBus'[b]
                 PROVE  \E v \in Unit, n \in Nat : Slot(v, n)' = m /\ HoldsFor(v, n, b)'
    BY DEF Reserved
  <2>2. CASE m \in resultBus[b]
    <3>1. PICK v \in Unit, n \in Nat : Slot(v, n) = m /\ HoldsFor(v, n, b)
      BY <1>3, <2>2 DEF Reserved
    <3>2. CASE v # u
      BY <1>6, <3>1, <3>2
    <3>3. CASE v = u
      <4>1. turn = u /\ u \in Nat \ {0}
        BY DEF Steps, Idle, Execute, Unit
      <4>2. m = n - 1 /\ m \in Nat
        BY <1>3, <2>2, <3>1, <3>3, <4>1 DEF Slot
      <4>. QED
        BY <1>4, <1>5, <3>1, <3>3, <4>2
    <3>. QED
      BY <3>2, <3>3
  <2>3. CASE m \in Nat /\ <<m, b>> \in new
    BY <1>4, <1>5, <2>3
  <2>. QED
    BY <1>4, <2>1, <2>2, <2>3
<1>8. Kept(b)'
  <2>1. SUFFICES ASSUME NEW v \in Unit, NEW n \in Nat, HoldsFor(v, n, b)'
                 PROVE  Slot(v, n)' \in resultBus'[b] \union {-1}
    BY DEF Kept
  <2>2. CASE v # u
    BY <1>3, <1>4, <1>6, <2>1, <2>2 DEF Kept
  <2>3. CASE v = u /\ HoldsFor(u, n + 1, b)
    <3>1. Slot(u, n + 1) \in resultBus[b] \union {-1}
      BY <1>3, <2>3 DEF Kept
    <3>. QED
      BY <1>4, <1>5, <2>3, <3>1
  <2>4. CASE v = u /\ <<n, b>> \in new
    BY <1>4, <1>5, <2>4
  <2>. QED
    BY <1>4, <2>1, <2>2, <2>3, <2>4
<1>9. ASSUME NEW v \in Unit, NEW n \in Nat, NEW m \in Nat, v # u,
             HoldsFor(u, n, b)', HoldsFor(v, m, b)', Slot(u, n)' = Slot(v, m)'
      PROVE  FALSE
  <2>1. HoldsFor(v, m, b) /\ Slot(v, m) = n
    BY <1>5, <1>6, <1>9
  <2>2. CASE HoldsFor(u, n + 1, b)
    <3>1. Slot(u, n + 1) = n /\ n + 1 \in Nat
      BY <1>5
    <3>. QED
      BY <1>3, <1>9, <2>1, <2>2, <3>1 DEF Single
  <2>3. CASE <<n, b>> \in new
    BY <1>3, <1>4, <2>1, <2>3 DEF Kept
  <2>. QED
    BY <1>4, <1>9, <2>2, <2>3
<1>10. Single(b)'
  <2>1. SUFFICES ASSUME NEW v \in Unit, NEW w \in Unit, NEW n \in Nat, NEW m \in Nat, v # w,
                        HoldsFor(v, n, b)', HoldsFor(w, m, b)', Slot(v, n)' = Slot(w, m)'
                 PROVE  FALSE
    BY DEF Single
  <2>2. CASE v = u
    BY <1>9, <2>1, <2>2
  <2>3. CASE w = u
    BY <1>9, <2>1, <2>3
  <2>4. CASE v # u /\ w # u
    BY <1>3, <1>6, <2>1, <2>4 DEF Single
  <2>. QED
    BY <2>2, <2>3, <2>4
<1>. QED
  BY <1>7, <1>8, <1>10

(* What leaves stage 0 had slot -1 of its bus, which nobody else has; the  *)
(* units that come later cannot have it either.                            *)
LEMMA UnitKeepsLeaving ==
  ASSUME UnitsInv, BusesInv, Leaving, NEW u \in Unit, Steps(u)
  PROVE  Leaving'
<1>1. turn = u /\ u \in Nat \ {0}
  BY DEF Steps, Idle, Execute, Unit
<1>2. \A n \in Nat : Slot(u, n)' = n
  BY <1>1, SlotsStay DEF Slot
<1>3. Slot(u, 0) = -1
  BY <1>1 DEF Slot
<1>4. exWb' = [exWb EXCEPT ![u] = IF 0 \in Stage(u) THEN stage[u][0] ELSE None]
  BY DEF Steps, Idle, Execute, Cycle
<1>5. exWb'[u] # None => HoldsFor(u, 0, exWb'[u].bus) /\ exWb'[u].bus \in Bus
  BY <1>4 DEF HoldsFor, UnitsInv, TypeOK, Inst
<1>6. \A v \in Unit : v # u => exWb'[v] = exWb[v]
  BY OthersStay DEF UnitsInv
<1>7. \A v \in Unit : exWb[v] # None => exWb[v].bus \in Bus
  BY DEF UnitsInv, TypeOK, Inst
<1>8. ASSUME NEW v \in Unit, v # u, exWb'[u] # None, exWb'[v] # None, exWb'[u].bus = exWb'[v].bus
      PROVE  FALSE
  BY <1>3, <1>5, <1>6, <1>8 DEF Leaving
<1>9. ASSUME NEW v \in Unit, NEW b \in Bus, exWb'[v] # None, exWb'[v].bus = b,
             NEW w \in Unit, NEW n \in Nat, HoldsFor(w, n, b)'
      PROVE  Slot(w, n)' # -1
  <2>1. CASE w = u
    BY <1>2, <2>1
  <2>2. CASE w # u
    <3>1. HoldsFor(w, n, b) /\ Slot(w, n)' = Slot(w, n)
      BY <1>9, <2>2, OthersStay, SlotsStay DEF UnitsInv
    <3>2. CASE v = u
      BY <1>3, <1>5, <1>9, <2>2, <3>1, <3>2 DEF BusesInv, Single
    <3>3. CASE v # u
      BY <1>6, <1>9, <3>1, <3>3 DEF Leaving
    <3>. QED
      BY <3>2, <3>3
  <2>. QED
    BY <2>1, <2>2
<1>10. ASSUME NEW v \in Unit, exWb'[v] # None, NEW w \in Unit, exWb'[w] # None, exWb'[w].bus = exWb'[v].bus
       PROVE  w = v
  BY <1>6, <1>8, <1>10 DEF Leaving
<1>11. \A v \in Unit : exWb'[v] # None => exWb'[v].bus \in Bus
  BY <1>5, <1>6, <1>7
<1>12. ASSUME NEW v \in Unit, exWb'[v] # None
       PROVE  (\A w \in Unit, n \in Nat : HoldsFor(w, n, exWb[v].bus) => Slot(w, n) # -1)'
  <2>1. PICK b \in Bus : b = exWb'[v].bus
    BY <1>11, <1>12
  <2>2. ASSUME NEW w \in Unit, NEW n \in Nat, HoldsFor(w, n, exWb[v].bus)'
        PROVE  HoldsFor(w, n, b)'
    BY <2>1, <2>2 DEF HoldsFor
  <2>. QED
    BY <1>9, <1>12, <2>1, <2>2
<1>. QED
  BY <1>10, <1>12 DEF Leaving

-----------------------------------------------------------------------------
(* The whole is inductive.                                                 *)
LEMMA PipeInvInductive == PipeInv /\ [Next]_vars => PipeInv'
<1>1. SUFFICES ASSUME PipeInv, [Next]_vars PROVE PipeInv'
  OBVIOUS
<1>2. CASE Writeback
  BY <1>1, <1>2, WritebackKeeps
<1>3. ASSUME NEW u \in Unit, Steps(u) PROVE PipeInv'
  BY <1>1, <1>3, UnitKeepsUnits, UnitKeepsBuses, UnitKeepsLeaving DEF PipeInv
<1>4. CASE UNCHANGED vars
  BY <1>1, <1>4 DEF vars, PipeInv, UnitsInv, TypeOK, Dispatched, Apart, PlacesMarked, BusesInv,
     Reserved, Kept, Single, Leaving, HoldsFor, Slot, Ahead, StartStage
<1>. QED
  BY <1>1, <1>2, <1>3, <1>4 DEF Next, Steps

(* The invariant behind both theorems: places and slots are reserved, kept *)
(* and apart, and nothing shares the bus by which it leaves.               *)
THEOREM PipesInvariant == Spec => []PipeInv
BY PipeInit, PipeInvInductive, PTL DEF Spec

(* EX_WB is never asked to hold more than it has registers for, though     *)
(* the units move their instructions there without looking (cycle).        *)
THEOREM ExWbAlwaysFits == Spec => []ExWbFits
<1>1. PipeInv => ExWbFits
  <2>1. SUFFICES ASSUME PipeInv PROVE ExWbFits
    OBVIOUS
  <2> DEFINE S == {u \in Unit : exWb[u] # None}
             f == [u \in S |-> exWb[u].bus]
  <2>2. \A u \in S : exWb[u].bus \in Bus
    BY <2>1 DEF PipeInv, UnitsInv, TypeOK, Inst
  <2>3. \A u, v \in S : exWb[u].bus = exWb[v].bus => u = v
    BY <2>1 DEF PipeInv, Leaving
  <2>4. f \in Injection(S, Bus)
    BY <2>2, <2>3 DEF Injection, IsInjective
  <2>5. IsFiniteSet(Bus) /\ Cardinality(Bus) = NumBuses
    BY FS_Interval, PipelineAssumption DEF Bus
  <2>6. Cardinality(S) <= Cardinality(Bus)
    BY <2>4, <2>5, FS_Injection
  <2>. QED
    BY <2>5, <2>6 DEF ExWbFits
<1>. QED
  BY <1>1, PipesInvariant, PTL

(* No two instructions come to one stage of a unit or to one slot of a     *)
(* bus, and no slot is kept for nobody.                                    *)
THEOREM SlotsAlwaysKept == Spec => []SlotsKept
<1>1. PipeInv => SlotsKept
  <2>1. SUFFICES ASSUME PipeInv PROVE SlotsKept
    OBVIOUS
  <2>2. TypeOK /\ Dispatched /\ Apart
    BY <2>1 DEF PipeInv, UnitsInv
  <2>3. NoCollision
    <3>1. SUFFICES ASSUME NEW u \in Unit, NEW s \in Stage(u), Starts(u), s = StartStage(dispatch[u]) + 1
                   PROVE  stage[u][s] = None
      BY DEF NoCollision
    <3>2. dispatch[u] # None /\ Ahead(dispatch[u]) = s
      BY <2>2, <3>1, AheadIsPlace DEF Starts, Dispatched, Inst
    <3>. QED
      BY <2>2, <3>2 DEF Apart
  <2>4. \A u \in Unit : Cycles(u) \subseteq Nat
    BY <2>2, AheadIsPlace, PipelineAssumption DEF Cycles, Stage
  <2>5. \A u \in Unit, n \in Nat, b \in Bus : HoldsFor(u, n, b) => n \in Cycles(u)
    BY DEF HoldsFor, Cycles
  <2>6. SlotsOwned
    <3>1. SUFFICES ASSUME NEW b \in Bus
                   PROVE  /\ \A m \in resultBus[b] :
                               \E u \in Unit : \E n \in Cycles(u) : Slot(u, n) = m /\ HoldsFor(u, n, b)
                          /\ \A u \in Unit : \A n \in Cycles(u) :
                               HoldsFor(u, n, b) => Slot(u, n) \in resultBus[b] \union {-1}
                          /\ \A u, v \in Unit : \A n \in Cycles(u), m \in Cycles(v) :
                               HoldsFor(u, n, b) /\ HoldsFor(v, m, b) /\ Slot(u, n) = Slot(v, m) => u = v
      BY DEF SlotsOwned
    <3>2. Reserved(b) /\ Kept(b) /\ Single(b)
      BY <2>1 DEF PipeInv, BusesInv
    <3>3. \A m \in resultBus[b] :
            \E u \in Unit : \E n \in Cycles(u) : Slot(u, n) = m /\ HoldsFor(u, n, b)
      BY <2>5, <3>2 DEF Reserved
    <3>4. \A u \in Unit : \A n \in Cycles(u) :
            HoldsFor(u, n, b) => Slot(u, n) \in resultBus[b] \union {-1}
      BY <2>4, <3>2 DEF Kept
    <3>5. \A u, v \in Unit : \A n \in Cycles(u), m \in Cycles(v) :
            HoldsFor(u, n, b) /\ HoldsFor(v, m, b) /\ Slot(u, n) = Slot(v, m) => u = v
      BY <2>4, <3>2 DEF Single
    <3>. QED
      BY <3>3, <3>4, <3>5
  <2>. QED
    BY <2>2, <2>3, <2>6 DEF SlotsKept
<1>. QED
  BY <1>1, PipesInvariant, PTL

-----------------------------------------------------------------------------
(* The operand collector: numbers, first.                                  *)

(* A set of numbers has a least one: the intervals up to its members are   *)
(* finite sets, among which inclusion is well founded.                     *)
LEMMA LeastNat ==
  ASSUME NEW T \in SUBSET Nat, T # {}
  PROVE  \E m \in T : \A n \in T : m <= n
<1>1. PICK A : A = {0 .. n : n \in T}
  OBVIOUS
<1>2. A \subseteq FiniteSubsetsOf(Nat) /\ A # {}
  <2>1. ASSUME NEW n \in T PROVE 0 .. n \in FiniteSubsetsOf(Nat)
    BY FS_Interval, 0 \in Int, n \in Int, 0 .. n \subseteq Nat DEF FiniteSubsetsOf
  <2>. QED
    BY <1>1, <2>1
<1>3. PICK X \in A : \A Y \in A : ~(<<Y, X>> \in StrictSubsetOrdering(Nat))
  BY <1>2, WFMin, FS_StrictSubsetOrderingWellFounded
<1>4. PICK m \in T : X = 0 .. m
  BY <1>1
<1>5. ASSUME NEW n \in T, n < m PROVE FALSE
  <2>1. 0 .. n \in A
    BY <1>1
  <2>2. 0 .. n \subseteq 0 .. m /\ m \in 0 .. m /\ m \notin 0 .. n
    BY <1>5
  <2>3. 0 .. n \in SUBSET Nat /\ 0 .. m \in SUBSET Nat /\ 0 .. n # 0 .. m
    BY <2>2
  <2>4. <<0 .. n, 0 .. m>> \in StrictSubsetOrdering(Nat)
    BY <2>2, <2>3 DEF StrictSubsetOrdering
  <2>. QED
    BY <1>3, <1>4, <2>1, <2>4
<1>. QED
  BY <1>5

(* What holds of 0 and of the number after each of which it holds.         *)
LEMMA NatInd ==
  ASSUME NEW T \in SUBSET Nat, 0 \in T, \A n \in T : n + 1 \in T
  PROVE  T = Nat
<1> SUFFICES ASSUME T # Nat PROVE FALSE
  OBVIOUS
<1>1. PICK m \in Nat \ T : \A n \in Nat \ T : m <= n
  <2>1. Nat \ T \in SUBSET Nat /\ Nat \ T # {}
    OBVIOUS
  <2>. QED
    BY <2>1, LeastNat
<1>2. m - 1 \in Nat
  BY <1>1
<1>. QED
  BY <1>1, <1>2

(* A multiple and a remainder give the quotient and the remainder.         *)
LEMMA ModRest ==
  ASSUME NEW L \in Nat \ {0}, NEW q \in Nat, NEW r \in 0 .. L - 1
  PROVE  (L * q + r) % L = r /\ (L * q + r) \div L = q
OBVIOUS

(* Every number is a multiple and a remainder: induction. *)
LEMMA QuotientExists ==
  ASSUME NEW L \in Nat \ {0}, NEW k \in Nat
  PROVE  \E q \in Nat, r \in 0 .. L - 1 : k = L * q + r
<1>1. PICK T : T = {x \in Nat : \E q \in Nat, r \in 0 .. L - 1 : x = L * q + r}
  OBVIOUS
<1>2. 0 \in T
  <2>1. 0 \in Nat /\ 0 \in 0 .. L - 1 /\ 0 = L * 0 + 0
    OBVIOUS
  <2>. QED
    BY <1>1, <2>1
<1>3. ASSUME NEW x \in T PROVE x + 1 \in T
  <2>1. PICK q \in Nat, r \in 0 .. L - 1 : x = L * q + r
    BY <1>1
  <2>2. CASE r = L - 1
    <3>1. x + 1 = L * (q + 1) + 0 /\ q + 1 \in Nat /\ 0 \in 0 .. L - 1 /\ x + 1 \in Nat
      BY <1>1, <2>1, <2>2
    <3>2. \E p \in Nat, s \in 0 .. L - 1 : x + 1 = L * p + s
      BY <3>1
    <3>. QED
      BY <1>1, <3>1, <3>2
  <2>3. CASE r # L - 1
    <3>1. x + 1 = L * q + (r + 1) /\ r + 1 \in 0 .. L - 1 /\ x + 1 \in Nat
      BY <1>1, <2>1, <2>3
    <3>. QED
      BY <1>1, <3>1
  <2>. QED
    BY <2>2, <2>3
<1>4. T = Nat
  BY <1>1, <1>2, <1>3, NatInd
<1>5. k \in T
  BY <1>4
<1>. QED
  BY <1>1, <1>5

(* The remainder, for multiples below 0 too.                               *)
LEMMA ModOf ==
  ASSUME NEW S \in Nat \ {0}, NEW q \in Int, NEW r \in 0 .. S - 1
  PROVE  (S * q + r) % S = r
OBVIOUS

(* The remainders of numbers that are a few times S away.                  *)
LEMMA ModNear ==
  ASSUME NEW S \in Nat \ {0}, NEW r \in 0 .. S - 1
  PROVE  /\ r % S = r /\ (r + S) % S = r /\ (r + S + S) % S = r
         /\ (r - S) % S = r /\ (r - S - S) % S = r
<1>1. \A q \in Int : (S * q + r) % S = r
  BY ModOf
<1>2. r = S * 0 + r /\ r + S = S * 1 + r /\ r + S + S = S * 2 + r
  OBVIOUS
<1>3. r - S = S * (-1) + r /\ r - S - S = S * (-2) + r
  OBVIOUS
<1>. QED
  BY <1>1, <1>2, <1>3

(* The diagonal on which a bank meets a unit, and the unit that it meets.  *)
Away(c, b, l, S)  == (c - b - l) % S
Meets(l, p, b, S) == (l + p + b) % S

(* One tells the other.                                                    *)
LEMMA DiagonalMeets ==
  ASSUME NEW S \in Nat \ {0}, NEW c \in 0 .. S - 1, NEW b \in 0 .. S - 1, NEW l \in 0 .. S - 1
  PROVE  /\ Away(c, b, l, S) \in 0 .. S - 1
         /\ \A p \in 0 .. S - 1 : Meets(l, p, b, S) = c <=> p = Away(c, b, l, S)
<1>1. PICK x \in Int : x = c - b - l
  OBVIOUS
<1>2. PICK y \in 0 .. S - 1 : y = x \/ y = x + S \/ y = x + S + S
  <2>1. x < S /\ x + S + S >= 0
    BY <1>1
  <2>2. CASE x >= 0
    <3>1. x \in 0 .. S - 1
      BY <2>1, <2>2
    <3>. QED
      BY <3>1
  <2>3. CASE x < 0 /\ x + S >= 0
    <3>1. x + S \in 0 .. S - 1
      BY <2>3
    <3>. QED
      BY <3>1
  <2>4. CASE x + S < 0
    <3>1. x + S + S \in 0 .. S - 1
      BY <2>1, <2>4
    <3>. QED
      BY <3>1
  <2>. QED
    BY <2>2, <2>3, <2>4
<1>3. x % S = y
  <2>1. x = y \/ x = y - S \/ x = y - S - S
    BY <1>2
  <2>. QED
    BY <2>1, ModNear
<1>4. ASSUME NEW p \in 0 .. S - 1 PROVE (l + p + b) % S = c <=> p = y
  <2>1. PICK z \in 0 .. S - 1 : l + p + b = z \/ l + p + b = z + S \/ l + p + b = z + S + S
    <3>1. PICK w \in Int : w = l + p + b
      OBVIOUS
    <3>2. w >= 0 /\ w - S - S < S
      BY <3>1
    <3>3. CASE w < S
      <4>1. w \in 0 .. S - 1
        BY <3>2, <3>3
      <4>. QED
        BY <3>1, <4>1
    <3>4. CASE w >= S /\ w - S < S
      <4>1. w - S \in 0 .. S - 1 /\ w = (w - S) + S
        BY <3>4
      <4>. QED
        BY <3>1, <4>1
    <3>5. CASE w - S >= S
      <4>1. w - S - S \in 0 .. S - 1 /\ w = (w - S - S) + S + S
        BY <3>2, <3>5
      <4>. QED
        BY <3>1, <4>1
    <3>. QED
      BY <3>3, <3>4, <3>5
  <2>2. (l + p + b) % S = z
    BY <2>1, ModNear
  <2>3. z = c <=> p = y
    BY <1>1, <1>2, <2>1
  <2>. QED
    BY <2>2, <2>3
<1>. QED
  BY <1>1, <1>3, <1>4 DEF Away, Meets

(* The numbers of a finite set, each at the place that the number of       *)
(* smaller ones gives it.                                                  *)
Ordered(T) ==
  [n \in 1 .. Cardinality(T) |-> CHOOSE x \in T : Cardinality({o \in T : o < x}) = n - 1]

(* It goes through the set, each number once.                              *)
LEMMA InOrder ==
  ASSUME NEW T \in SUBSET Nat, IsFiniteSet(T), NEW f, f = Ordered(T)
  PROVE  /\ Cardinality(T) \in Nat
         /\ \A n \in 1 .. Cardinality(T) : f[n] \in T
         /\ \A m, n \in 1 .. Cardinality(T) : f[m] = f[n] => m = n
         /\ \A x \in T : \E n \in 1 .. Cardinality(T) : f[n] = x
<1>1. PICK below : below = [x \in T |-> {o \in T : o < x}]
  OBVIOUS
<1>2. PICK rank : rank = [x \in T |-> Cardinality(below[x])]
  OBVIOUS
<1>3. PICK N \in Nat : N = Cardinality(T)
  BY FS_CardinalityType
<1>0. \A x \in T : x \in Nat
  OBVIOUS
<1>4. \A x \in T : /\ below[x] \subseteq T /\ IsFiniteSet(below[x]) /\ rank[x] \in Nat
                   /\ x \notin below[x] /\ Cardinality(below[x] \cup {x}) = rank[x] + 1
  <2>1. ASSUME NEW x \in T PROVE /\ below[x] \subseteq T /\ x \notin below[x]
    BY <1>1
  <2>2. \A x \in T : IsFiniteSet(below[x]) /\ Cardinality(below[x]) \in Nat
    BY <2>1, FS_Subset, FS_CardinalityType
  <2>3. \A x \in T : Cardinality(below[x] \cup {x}) = Cardinality(below[x]) + 1
    BY <2>1, <2>2, FS_AddElement
  <2>. QED
    BY <1>2, <2>1, <2>2, <2>3
<1>5. ASSUME NEW x \in T, NEW y \in T, x < y PROVE rank[x] < rank[y]
  <2>1. below[x] \cup {x} \subseteq below[y]
    <3>1. below[x] = {o \in T : o < x} /\ below[y] = {o \in T : o < y}
      BY <1>1
    <3>2. \A o \in T : o < x => o < y
      BY <1>0, <1>5
    <3>. QED
      BY <1>5, <3>1, <3>2
  <2>2. Cardinality(below[x] \cup {x}) <= Cardinality(below[y])
    BY <1>4, <2>1, FS_Subset
  <2>3. PICK k \in Nat, l \in Nat : k = rank[x] /\ l = rank[y]
    BY <1>4
  <2>4. k + 1 <= l
    BY <1>2, <1>4, <2>2, <2>3
  <2>. QED
    BY <2>3, <2>4
<1>6. ASSUME NEW x \in T PROVE rank[x] \in 0 .. N - 1
  <2>1. Cardinality(below[x] \cup {x}) <= N
    <3>1. below[x] \cup {x} \subseteq T
      BY <1>4
    <3>. QED
      BY <1>3, <3>1, FS_Subset
  <2>. QED
    BY <1>3, <1>4, <2>1
<1>7. \A x, y \in T : rank[x] = rank[y] => x = y
  <2>1. ASSUME NEW x \in T, NEW y \in T, rank[x] = rank[y], x # y PROVE FALSE
    <3>1. x < y \/ y < x
      BY <1>0, <2>1
    <3>2. rank[x] < rank[y] \/ rank[y] < rank[x]
      BY <1>5, <3>1
    <3>3. PICK k \in Nat : k = rank[x] /\ k = rank[y]
      BY <1>4, <2>1
    <3>. QED
      BY <3>2, <3>3
  <2>. QED
    BY <2>1
<1>8. rank \in Injection(T, 0 .. N - 1)
  BY <1>2, <1>6, <1>7 DEF Injection, IsInjective
<1>9. IsFiniteSet(0 .. N - 1) /\ Cardinality(0 .. N - 1) = N
  <2>1. 0 \in Int /\ N - 1 \in Int
    BY <1>3
  <2>2. IsFiniteSet(0 .. N - 1) /\ Cardinality(0 .. N - 1) = IF 0 > N - 1 THEN 0 ELSE N - 1 - 0 + 1
    BY <2>1, FS_Interval
  <2>. QED
    BY <1>3, <2>2
<1>10. \A k \in 0 .. N - 1 : \E x \in T : rank[x] = k
  <2>1. rank \in Surjection(T, 0 .. N - 1)
    BY <1>3, <1>8, <1>9, FS_Injection
  <2>. QED
    BY <2>1 DEF Surjection
<1>11. \A n \in 1 .. N : f[n] \in T /\ rank[f[n]] = n - 1
  <2>1. ASSUME NEW n \in 1 .. N PROVE f[n] \in T /\ rank[f[n]] = n - 1
    <3>1. PICK x \in T : rank[x] = n - 1
      <4>1. n - 1 \in 0 .. N - 1
        BY <1>3
      <4>. QED
        BY <1>10, <4>1
    <3>2. f[n] = CHOOSE y \in T : Cardinality({o \in T : o < y}) = n - 1
      BY <1>3 DEF Ordered
    <3>3. Cardinality({o \in T : o < x}) = n - 1
      BY <1>1, <1>2, <3>1
    <3>4. f[n] \in T /\ Cardinality({o \in T : o < f[n]}) = n - 1
      BY <3>2, <3>3
    <3>. QED
      BY <1>1, <1>2, <3>4
  <2>. QED
    BY <2>1
<1>12. \A m, n \in 1 .. N : f[m] = f[n] => m = n
  <2>1. ASSUME NEW m \in 1 .. N, NEW n \in 1 .. N, f[m] = f[n] PROVE m = n
    <3>1. m - 1 = n - 1
      BY <1>11, <2>1
    <3>. QED
      BY <1>3, <3>1
  <2>. QED
    BY <2>1
<1>13. ASSUME NEW x \in T PROVE \E n \in 1 .. N : f[n] = x
  <2>1. PICK n \in 1 .. N : n = rank[x] + 1
    BY <1>3, <1>6
  <2>2. f[n] \in T /\ rank[f[n]] = n - 1
    BY <1>11
  <2>3. rank[f[n]] = rank[x]
    <3>1. PICK k \in Nat : k = rank[x]
      BY <1>4
    <3>2. n - 1 = k
      BY <2>1, <3>1
    <3>. QED
      BY <2>2, <3>1, <3>2
  <2>. QED
    BY <1>7, <2>2, <2>3
<1>. QED
  BY <1>3, <1>11, <1>12, <1>13

(* What a unit asks of a bank: each operand that lies there, once.         *)
LEMMA RequestsAre ==
  ASSUME NEW c \in Cu, NEW i \in Instr, NEW b \in Bank, NEW R, R = Requests(c, i, b)
  PROVE  /\ R \in Seq([cu : Cu, op : Op])
         /\ \A n \in DOMAIN R : R[n].cu = c /\ R[n].op \in DOMAIN Prog[i].src /\ SrcBank(i, R[n].op) = b
         /\ \A m, n \in DOMAIN R : R[m] = R[n] => m = n
         /\ \A op \in DOMAIN Prog[i].src : SrcBank(i, op) = b =>
              \E n \in DOMAIN R : R[n] = [cu |-> c, op |-> op]
<1>1. PICK T : T = Operands(i, b)
  OBVIOUS
<1>2. T \in SUBSET Nat /\ IsFiniteSet(T) /\ T \subseteq Op
  <2>1. Prog[i].src \in Seq(Nat)
    BY CollectorAssumption DEF Instruction
  <2>2. PICK L \in Nat : DOMAIN Prog[i].src = 1 .. L
    BY <2>1
  <2>3. IsFiniteSet(1 .. L)
    BY <2>2, FS_Interval, 1 \in Int, L \in Int
  <2>4. T \subseteq 1 .. L /\ 1 .. L \subseteq Op
    BY <1>1, <2>2 DEF Operands, Op
  <2>5. 1 .. L \subseteq Nat
    OBVIOUS
  <2>. QED
    BY <2>3, <2>4, <2>5, FS_Subset
<1>3. PICK f : f = Ordered(T)
  OBVIOUS
<1>4. PICK N \in Nat : /\ N = Cardinality(T)
                       /\ \A n \in 1 .. N : f[n] \in T
                       /\ \A m, n \in 1 .. N : f[m] = f[n] => m = n
                       /\ \A x \in T : \E n \in 1 .. N : f[n] = x
  <2>1. /\ Cardinality(T) \in Nat
        /\ \A n \in 1 .. Cardinality(T) : f[n] \in T
        /\ \A m, n \in 1 .. Cardinality(T) : f[m] = f[n] => m = n
        /\ \A x \in T : \E n \in 1 .. Cardinality(T) : f[n] = x
    BY <1>2, <1>3, InOrder
  <2>. QED
    BY <2>1
<1>5. R = [n \in 1 .. N |-> [cu |-> c, op |-> f[n]]]
  <2>1. \A n \in 1 .. N : f[n] = CHOOSE op \in Operands(i, b) :
                                    Cardinality({o \in Operands(i, b) : o < op}) = n - 1
    BY <1>1, <1>3, <1>4 DEF Ordered
  <2>. QED
    BY <1>1, <1>4, <2>1 DEF Requests
<1>6. \A op : op \in T <=> op \in DOMAIN Prog[i].src /\ SrcBank(i, op) = b
  BY <1>1 DEF Operands
<1>7. R \in Seq([cu : Cu, op : Op]) /\ DOMAIN R = 1 .. N
  <2>1. PICK X : X = [cu : Cu, op : Op]
    OBVIOUS
  <2>2. \A n \in 1 .. N : [cu |-> c, op |-> f[n]] \in X
    BY <1>2, <1>4, <2>1
  <2>3. R \in [1 .. N -> X]
    BY <1>5, <2>2
  <2>4. R \in Seq(X)
    BY <1>4, <2>3, SeqDef
  <2>. QED
    BY <1>5, <2>1, <2>4
<1>8. \A n \in DOMAIN R : R[n].cu = c /\ R[n].op = f[n]
  BY <1>5
<1>. QED
  BY <1>4, <1>5, <1>6, <1>7, <1>8

-----------------------------------------------------------------------------
(* Banks and units are numbers below the side of the request matrix.       *)
LEMMA SquareFits ==
  /\ Square \in Nat \ {0} /\ NumBanks \in Nat \ {0} /\ NumBanks <= Square
  /\ \A b \in Bank : b \in 0 .. Square - 1
  /\ \A c \in Cu : c \in 0 .. Square - 1
<1>1. PICK n \in Nat : n = Cardinality(Cu) /\ \A c \in Cu : c \in 0 .. n - 1
  <2>1. Cardinality(Cu) \in Nat
    BY CollectorAssumption, FS_CardinalityType
  <2>. QED
    BY <2>1, CollectorAssumption
<1>2. Square = IF NumBanks > n THEN NumBanks ELSE n
  BY <1>1 DEF Square
<1>3. NumBanks \in Nat \ {0}
  BY CollectorAssumption
<1>4. PICK S \in Nat \ {0} : S = Square /\ NumBanks <= S /\ n <= S
  <2>1. PICK m \in Nat \ {0} : m = NumBanks
    BY <1>3
  <2>2. CASE m > n
    BY <1>2, <2>1, <2>2
  <2>3. CASE ~(m > n)
    <3>1. n # 0 /\ m <= n
      BY <2>3
    <3>. QED
      BY <1>2, <2>1, <2>3, <3>1
  <2>. QED
    BY <2>2, <2>3
<1>5. \A b \in Bank : b \in 0 .. S - 1
  <2>1. PICK m \in Nat \ {0} : m = NumBanks
    BY <1>3
  <2>. QED
    BY <1>4, <2>1 DEF Bank
<1>6. \A c \in Cu : c \in 0 .. S - 1
  BY <1>1, <1>4
<1>. QED
  BY <1>3, <1>4, <1>5, <1>6

(* In the state that a bank and a unit are in.                             *)
LEMMA MeetsAt ==
  ASSUME CollectorTypeOK, NEW b \in Bank, NEW c \in Cu
  PROVE  /\ Diagonal(b, c) \in 0 .. Square - 1
         /\ \A p \in 0 .. Square - 1 : Meets(lastCu, p, b, Square) = c <=> p = Diagonal(b, c)
<1>1. lastCu \in 0 .. Square - 1
  BY DEF CollectorTypeOK
<1>2. Square \in Nat \ {0} /\ c \in 0 .. Square - 1 /\ b \in 0 .. Square - 1
  BY SquareFits
<1>3. Diagonal(b, c) = Away(c, b, lastCu, Square)
  BY DEF Diagonal, Away
<1>. QED
  BY <1>1, <1>2, <1>3, DiagonalMeets

(* The unit that a bank asks for, and where the loops meet the two.        *)
AskedOf(b) == Head(queue[b]).cu
MetOn(b)   == Diagonal(b, AskedOf(b))

(* What a bank that asks has in front.                                     *)
LEMMA AskingIs ==
  ASSUME CollectorTypeOK, NEW b \in Asking
  PROVE  /\ b \in Bank /\ queue[b] \in Seq([cu : Cu, op : Op]) /\ queue[b] # <<>>
         /\ Head(queue[b]) \in [cu : Cu, op : Op]
         /\ AskedOf(b) \in Cu /\ MetOn(b) \in 0 .. Square - 1
<1>1. b \in Bank /\ queue[b] \in Seq([cu : Cu, op : Op]) /\ queue[b] # <<>>
  BY DEF Asking, CollectorTypeOK
<1>2. Head(queue[b]) \in [cu : Cu, op : Op]
  BY <1>1, HeadTailProperties
<1>3. AskedOf(b) \in Cu
  BY <1>2 DEF AskedOf
<1>. QED
  BY <1>1, <1>2, <1>3, MeetsAt DEF MetOn

(* Of the banks that ask for a unit exactly one is granted it.             *)
LEMMA GrantedOne ==
  ASSUME CollectorTypeOK
  PROVE  /\ Granted \subseteq Asking
         /\ \A b, d \in Granted : AskedOf(b) = AskedOf(d) => b = d
         /\ \A b \in Asking : b \notin Granted =>
              \E d \in Granted : AskedOf(d) = AskedOf(b) /\ MetOn(d) < MetOn(b)
<1>1. \A b \in Asking : b \in Bank /\ AskedOf(b) \in Cu
  BY AskingIs
<1>2. \A b \in Bank, c \in Cu : Diagonal(b, c) \in Nat
  BY SquareFits, MeetsAt
<1>3. ASSUME NEW b \in Bank, NEW d \in Bank, NEW c \in Cu, Diagonal(b, c) = Diagonal(d, c)
      PROVE  b = d
  <2>1. PICK p \in 0 .. Square - 1 : p = Diagonal(b, c) /\ p = Diagonal(d, c)
    BY <1>3, MeetsAt
  <2>2. Meets(lastCu, p, b, Square) = c /\ Meets(lastCu, p, d, Square) = c
    BY <2>1, MeetsAt
  <2>3. lastCu \in Int /\ p \in Int /\ b \in Int /\ d \in Int
    BY SquareFits DEF CollectorTypeOK
  <2>4. lastCu + p + b = lastCu + b + p /\ lastCu + p + d = lastCu + d + p
    BY <2>3
  <2>5. Meets(lastCu, b, p, Square) = c /\ Meets(lastCu, d, p, Square) = c
    BY <2>2, <2>4 DEF Meets
  <2>6. \A x \in 0 .. Square - 1 : Meets(lastCu, x, p, Square) = c <=> x = Away(c, p, lastCu, Square)
    <3>1. Square \in Nat \ {0} /\ c \in 0 .. Square - 1 /\ lastCu \in 0 .. Square - 1
      BY SquareFits DEF CollectorTypeOK
    <3>. QED
      BY <2>1, <3>1, DiagonalMeets
  <2>. QED
    BY <2>5, <2>6, SquareFits
<1>4. ASSUME NEW b \in Granted, NEW d \in Granted, AskedOf(b) = AskedOf(d) PROVE b = d
  <2>1. PICK c \in Cu : c = AskedOf(b) /\ c = AskedOf(d)
    BY <1>1, <1>4 DEF Granted
  <2>2. b \in Bank /\ d \in Bank /\ Diagonal(b, c) <= Diagonal(d, c) /\ Diagonal(d, c) <= Diagonal(b, c)
    BY <1>1, <2>1 DEF Granted, AskedOf
  <2>. QED
    BY <1>2, <1>3, <2>2
<1>5. ASSUME NEW b \in Asking, b \notin Granted
      PROVE  \E d \in Granted : AskedOf(d) = AskedOf(b) /\ MetOn(d) < MetOn(b)
  <2>1. PICK c \in Cu : c = AskedOf(b)
    BY <1>1
  <2>2. PICK D : D = {Diagonal(d, c) : d \in {e \in Asking : AskedOf(e) = c}}
    OBVIOUS
  <2>3. D \in SUBSET Nat /\ D # {} /\ Diagonal(b, c) \in D
    BY <1>1, <1>2, <1>5, <2>1, <2>2
  <2>4. PICK m \in D : \A n \in D : m <= n
    BY <2>3, LeastNat
  <2>5. PICK d \in Asking : AskedOf(d) = c /\ Diagonal(d, c) = m
    BY <2>2, <2>4
  <2>6. d \in Granted
    BY <2>2, <2>4, <2>5 DEF Granted, AskedOf
  <2>7. Diagonal(d, c) <= Diagonal(b, c) /\ d # b
    BY <1>5, <2>3, <2>4, <2>5, <2>6
  <2>8. Diagonal(d, c) < Diagonal(b, c)
    BY <1>1, <1>2, <1>3, <1>5, <2>5, <2>7
  <2>. QED
    BY <2>1, <2>5, <2>6, <2>8 DEF MetOn
<1>. QED
  BY <1>4, <1>5 DEF Granted

(* The loops of the wavefront allocator, K steps long.                     *)
IsMatching(walk, K) ==
  walk = [n \in 0 .. K |->
           IF n = 0 THEN {}
           ELSE Match(walk[n - 1], (n - 1) \div NumBanks, (n - 1) % NumBanks)]

(* There is a function with the values that the recursive one states.      *)
LEMMA MatchingExists ==
  ASSUME NEW K \in Nat
  PROVE  \E walk : IsMatching(walk, K)
<1> DEFINE next(x, i) == Match(x, i \div NumBanks, i % NumBanks)
<1>0. \A k, walk : IsMatching(walk, k) <=>
        walk = [i \in 0 .. k |-> IF i = 0 THEN {} ELSE next(walk[i - 1], i - 1)]
  BY DEF IsMatching
<1> HIDE DEF next
<1>1. PICK T : T = {k \in Nat : \E walk : IsMatching(walk, k)}
  OBVIOUS
<1>2. 0 \in T
  <2>1. PICK walk : walk = [i \in 0 .. 0 |-> {}]
    OBVIOUS
  <2>2. walk = [i \in 0 .. 0 |-> IF i = 0 THEN {} ELSE next(walk[i - 1], i - 1)]
    BY <2>1
  <2>. QED
    BY <1>0, <1>1, <2>2
<1>3. ASSUME NEW k \in T PROVE k + 1 \in T
  <2>1. PICK walk : walk = [i \in 0 .. k |-> IF i = 0 THEN {} ELSE next(walk[i - 1], i - 1)]
    BY <1>0, <1>1
  <2>2. k \in Nat
    BY <1>1
  <2>3. PICK last : last = next(walk[k], k)
    OBVIOUS
  <2>4. PICK more : more = [i \in 0 .. k + 1 |-> IF i = k + 1 THEN last ELSE walk[i]]
    OBVIOUS
  <2>5. ASSUME NEW i \in 0 .. k + 1
        PROVE  more[i] = IF i = 0 THEN {} ELSE next(more[i - 1], i - 1)
    <3>1. CASE i = 0
      <4>1. more[i] = walk[0] /\ walk[0] = {}
        BY <2>1, <2>2, <2>4, <3>1
      <4>. QED
        BY <3>1, <4>1
    <3>2. CASE i \in 1 .. k
      <4>1. more[i] = walk[i] /\ more[i - 1] = walk[i - 1]
        BY <2>2, <2>4, <3>2
      <4>2. walk[i] = next(walk[i - 1], i - 1)
        BY <2>1, <2>2, <3>2
      <4>. QED
        BY <3>2, <4>1, <4>2
    <3>3. CASE i = k + 1
      <4>1. more[i] = last /\ more[i - 1] = walk[k] /\ i # 0 /\ i - 1 = k
        BY <2>2, <2>4, <3>3
      <4>. QED
        BY <2>3, <4>1
    <3>. QED
      BY <2>2, <3>1, <3>2, <3>3
  <2>6. more = [i \in 0 .. k + 1 |-> IF i = 0 THEN {} ELSE next(more[i - 1], i - 1)]
    BY <2>4, <2>5
  <2>7. IsMatching(more, k + 1)
    BY <1>0, <2>6
  <2>8. k + 1 \in Nat /\ \E w : IsMatching(w, k + 1)
    BY <2>2, <2>7
  <2>. QED
    BY <1>1, <2>8
<1>4. K \in T
  BY <1>1, <1>2, <1>3, NatInd
<1>. QED
  BY <1>1, <1>4

(* What is matched when the loops come to bank b on diagonal p: of the     *)
(* banks that are granted, those they have come by.                        *)
Passed(p, b)  == {d \in Granted : MetOn(d) < p \/ (MetOn(d) = p /\ d < b)}
Matched(p, b) == {<<d, AskedOf(d)>> : d \in Passed(p, b)}

(* A step of the loops matches the bank they come by if it is granted, and *)
(* no other: an earlier one has its unit or is the one granted.            *)
LEMMA MatchKeeps ==
  ASSUME CollectorTypeOK, NEW p \in 0 .. Square - 1, NEW b \in Bank
  PROVE  Match(Matched(p, b), p, b)
           = IF b = NumBanks - 1 THEN Matched(p + 1, 0) ELSE Matched(p, b + 1)
<1>1. /\ \A d \in Asking : d \in Bank /\ AskedOf(d) \in Cu
      /\ \A d \in Granted : d \in Asking /\ d \in Int /\ MetOn(d) \in 0 .. Square - 1
  BY AskingIs, GrantedOne, SquareFits
<1>2. \A d \in Granted : AskedOf(d) = AskedOf(b) => d = b \/ b \notin Granted
  BY GrantedOne
<1>3. b \in Asking /\ b \notin Granted =>
        \E d \in Granted : AskedOf(d) = AskedOf(b) /\ MetOn(d) < MetOn(b)
  BY GrantedOne
<1>4. PICK c : c = Meets(lastCu, p, b, Square)
  OBVIOUS
<1>5. b \in Asking => (AskedOf(b) = c <=> MetOn(b) = p)
  BY <1>1, <1>4, MeetsAt DEF MetOn
<1>6. PICK M : M = Matched(p, b)
  OBVIOUS
<1>7. PICK P : P = Passed(p, b)
  OBVIOUS
<1>8. M = {<<d, AskedOf(d)>> : d \in P}
  BY <1>6, <1>7 DEF Matched
<1>9. P = {d \in Granted : MetOn(d) < p \/ (MetOn(d) = p /\ d < b)}
  BY <1>7 DEF Passed
<1>10. PICK U : U = IF b \in Granted /\ MetOn(b) = p THEN P \cup {b} ELSE P
  OBVIOUS
<1>11. Match(M, p, b) = {<<d, AskedOf(d)>> : d \in U}
  <2>1. Match(M, p, b) = IF /\ c \in Cu /\ b \in Asking
                            /\ \A m \in M : m[1] # b /\ m[2] # c
                            /\ AskedOf(b) = c
                         THEN M \cup {<<b, c>>} ELSE M
    BY <1>4 DEF Match, Meets, AskedOf
  <2>2. CASE b \in Granted /\ MetOn(b) = p
    <3>1. c \in Cu /\ b \in Asking /\ AskedOf(b) = c
      BY <1>1, <1>5, <2>2
    <3>2. ASSUME NEW d \in P PROVE d # b /\ AskedOf(d) # c
      <4>1. d # b
        BY <1>1, <1>9, <2>2
      <4>. QED
        BY <1>2, <1>9, <2>2, <3>1, <4>1
    <3>3. \A m \in M : m[1] # b /\ m[2] # c
      BY <1>8, <3>2
    <3>4. Match(M, p, b) = M \cup {<<b, AskedOf(b)>>}
      BY <2>1, <3>1, <3>3
    <3>. QED
      BY <1>8, <1>10, <2>2, <3>4
  <2>3. CASE ~(b \in Granted /\ MetOn(b) = p)
    <3>1. ASSUME b \in Asking, AskedOf(b) = c PROVE \E m \in M : m[2] = c
      <4>1. MetOn(b) = p
        BY <1>5, <3>1
      <4>2. PICK d \in Granted : AskedOf(d) = c /\ MetOn(d) < p
        BY <1>3, <2>3, <3>1, <4>1
      <4>3. d \in P
        BY <1>9, <4>2
      <4>4. <<d, AskedOf(d)>> \in M
        BY <1>8, <4>3
      <4>. QED
        BY <4>2, <4>4
    <3>2. Match(M, p, b) = M
      BY <2>1, <3>1
    <3>. QED
      BY <1>8, <1>10, <2>3, <3>2
  <2>. QED
    BY <2>2, <2>3
<1>12. b = NumBanks - 1 => U = Passed(p + 1, 0)
  <2>1. Passed(p + 1, 0) = {d \in Granted : MetOn(d) < p + 1 \/ (MetOn(d) = p + 1 /\ d < 0)}
    BY DEF Passed
  <2>2. ASSUME b = NumBanks - 1, NEW d \in Granted
        PROVE  d \in U <=> (MetOn(d) < p + 1 \/ (MetOn(d) = p + 1 /\ d < 0))
    <3>1. d \in 0 .. NumBanks - 1 /\ NumBanks \in Nat
      BY <1>1, SquareFits DEF Bank
    <3>2. d \in U <=> d \in P \/ (MetOn(d) = p /\ d = b)
      BY <1>10
    <3>3. PICK k \in Nat : k = MetOn(d)
      BY <1>1
    <3>4. d \in P <=> k < p \/ (k = p /\ d < b)
      BY <1>9, <3>3
    <3>5. d < b \/ d = b
      BY <2>2, <3>1
    <3>6. ~(d < 0)
      BY <3>1
    <3>7. d \in U <=> k < p \/ k = p
      BY <3>2, <3>3, <3>4, <3>5
    <3>. QED
      BY <3>3, <3>6, <3>7
  <2>3. U \subseteq Granted
    BY <1>9, <1>10
  <2>. QED
    BY <2>1, <2>2, <2>3
<1>13. b # NumBanks - 1 => U = Passed(p, b + 1)
  <2>1. Passed(p, b + 1) = {d \in Granted : MetOn(d) < p \/ (MetOn(d) = p /\ d < b + 1)}
    BY DEF Passed
  <2>2. ASSUME NEW d \in Granted
        PROVE  d \in U <=> (MetOn(d) < p \/ (MetOn(d) = p /\ d < b + 1))
    <3>1. d \in Int /\ b \in Int
      BY <1>1, SquareFits
    <3>2. d \in U <=> d \in P \/ (MetOn(d) = p /\ d = b)
      BY <1>10
    <3>3. d \in P <=> MetOn(d) < p \/ (MetOn(d) = p /\ d < b)
      BY <1>9
    <3>4. d < b + 1 <=> d < b \/ d = b
      BY <3>1
    <3>. QED
      BY <3>2, <3>3, <3>4
  <2>3. U \subseteq Granted
    BY <1>9, <1>10
  <2>. QED
    BY <2>1, <2>2, <2>3
<1>14. CASE b = NumBanks - 1
  BY <1>6, <1>11, <1>12, <1>14 DEF Matched
<1>15. CASE b # NumBanks - 1
  BY <1>6, <1>11, <1>13, <1>15 DEF Matched
<1>. QED
  BY <1>14, <1>15

(* What the wavefront allocator grants.                                    *)
LEMMA WavefrontGrants ==
  ASSUME CollectorTypeOK
  PROVE  Granted = Wavefront
<1>1. PICK N \in Nat \ {0} : N = NumBanks
  BY SquareFits
<1>2. PICK S \in Nat \ {0} : S = Square
  BY SquareFits
<1>3. PICK K \in Nat : K = N * S + 0 /\ K = Square * NumBanks
  <2>1. S * N \in Nat /\ S * N = N * S + 0
    OBVIOUS
  <2>. QED
    BY <1>1, <1>2, <2>1
<1>4. PICK walk : IsMatching(walk, K) /\ Wavefront = {m[1] : m \in walk[K]}
  <2>1. PICK walk : walk = CHOOSE w : IsMatching(w, K)
    OBVIOUS
  <2>2. IsMatching(walk, K)
    BY <2>1, MatchingExists
  <2>3. Wavefront = {m[1] : m \in walk[K]}
    BY <1>3, <2>1 DEF Wavefront, IsMatching
  <2>. QED
    BY <2>2, <2>3
<1>5. PICK T : T = {i \in Nat : i <= K =>
                      \A p \in Nat, b \in 0 .. N - 1 : i = N * p + b => walk[i] = Matched(p, b)}
  OBVIOUS
<1>6. \A d \in Granted : MetOn(d) \in 0 .. S - 1 /\ d \in 0 .. N - 1
  BY <1>1, <1>2, AskingIs, GrantedOne DEF Bank
<1>7. 0 \in T
  <2>1. ASSUME NEW p \in Nat, NEW b \in 0 .. N - 1, 0 = N * p + b PROVE p = 0 /\ b = 0
    <3>1. b = 0 /\ N * p = 0
      BY <2>1
    <3>2. CASE p >= 1
      <4>1. N * p >= N * 1
        BY <3>2
      <4>. QED
        BY <3>1, <4>1
    <3>. QED
      BY <3>1, <3>2
  <2>2. walk[0] = {}
    BY <1>4 DEF IsMatching
  <2>3. Matched(0, 0) = {}
    BY <1>6 DEF Matched, Passed
  <2>. QED
    BY <1>5, <2>1, <2>2, <2>3
<1>8. ASSUME NEW i \in T PROVE i + 1 \in T
  <2>1. i \in Nat
    BY <1>5
  <2>2. SUFFICES ASSUME i + 1 <= K, NEW p \in Nat, NEW b \in 0 .. N - 1, i + 1 = N * p + b
                 PROVE  walk[i + 1] = Matched(p, b)
    BY <1>5, <2>1
  <2>3. PICK q \in Nat, r \in 0 .. N - 1 : i = N * q + r
    BY <2>1, QuotientExists
  <2>4. walk[i] = Matched(q, r)
    BY <1>5, <2>1, <2>2, <2>3
  <2>5. i % N = r /\ i \div N = q
    BY <2>3, ModRest
  <2>6. walk[i + 1] = Match(walk[i], q, r)
    <3>1. i + 1 \in 0 .. K /\ i + 1 # 0 /\ (i + 1) - 1 = i
      BY <2>1, <2>2
    <3>2. walk[i + 1] = Match(walk[i], i \div N, i % N)
      BY <1>1, <1>4, <3>1 DEF IsMatching
    <3>. QED
      BY <2>5, <3>2
  <2>7. q \in 0 .. S - 1
    <3>1. CASE q >= S
      <4>1. N * q >= N * S
        BY <3>1
      <4>. QED
        BY <1>3, <2>2, <2>3, <4>1
    <3>. QED
      BY <3>1
  <2>8. walk[i + 1] = IF r = N - 1 THEN Matched(q + 1, 0) ELSE Matched(q, r + 1)
    <3>1. q \in 0 .. Square - 1 /\ r \in Bank
      BY <1>1, <1>2, <2>7 DEF Bank
    <3>. QED
      BY <1>1, <2>4, <2>6, <3>1, MatchKeeps
  <2>9. (i + 1) % N = b /\ (i + 1) \div N = p
    BY <2>2, ModRest
  <2>10. CASE r = N - 1
    <3>1. PICK t \in Nat, z \in 0 .. N - 1 : t = q + 1 /\ z = 0
      OBVIOUS
    <3>2. i + 1 = N * t + z
      BY <2>3, <2>10, <3>1
    <3>3. (i + 1) % N = z /\ (i + 1) \div N = t
      BY <3>2, ModRest
    <3>. QED
      BY <2>8, <2>10, <2>9, <3>1, <3>3
  <2>11. CASE r # N - 1
    <3>1. i + 1 = N * q + (r + 1) /\ r + 1 \in 0 .. N - 1
      BY <2>3, <2>11
    <3>2. (i + 1) % N = r + 1 /\ (i + 1) \div N = q
      BY <3>1, ModRest
    <3>. QED
      BY <2>8, <2>11, <2>9, <3>2
  <2>. QED
    BY <2>10, <2>11
<1>9. T = Nat
  BY <1>5, <1>7, <1>8, NatInd
<1>10. walk[K] = Matched(S, 0)
  <2>1. K \in T /\ 0 \in 0 .. N - 1
    BY <1>9
  <2>. QED
    BY <1>3, <1>5, <2>1
<1>11. Passed(S, 0) = Granted
  BY <1>6 DEF Passed
<1>12. walk[K] = {<<d, AskedOf(d)>> : d \in Granted}
  BY <1>10, <1>11 DEF Matched
<1>13. \A d : d \in {m[1] : m \in walk[K]} <=> d \in Granted
  <2>1. ASSUME NEW m \in walk[K] PROVE m[1] \in Granted
    <3>1. PICK d \in Granted : m = <<d, AskedOf(d)>>
      BY <1>12
    <3>. QED
      BY <3>1
  <2>2. ASSUME NEW d \in Granted PROVE \E m \in walk[K] : m[1] = d
    <3>1. <<d, AskedOf(d)>> \in walk[K] /\ <<d, AskedOf(d)>>[1] = d
      BY <1>12
    <3>. QED
      BY <3>1
  <2>. QED
    BY <2>1, <2>2
<1>. QED
  BY <1>4, <1>13

(* The rest of a sequence, place by place.                                 *)
LEMMA RestIs ==
  ASSUME NEW X, NEW q \in Seq(X), q # <<>>
  PROVE  /\ 1 \in DOMAIN q /\ q[1] = Head(q) /\ Head(q) \in X /\ Tail(q) \in Seq(X)
         /\ \A n \in DOMAIN Tail(q) : n \in Nat /\ n + 1 \in DOMAIN q /\ n + 1 # 1 /\ Tail(q)[n] = q[n + 1]
         /\ \A n \in DOMAIN q : n # 1 => n - 1 \in DOMAIN Tail(q) /\ Tail(q)[n - 1] = q[n]
<1>1. /\ Head(q) \in X /\ Tail(q) \in Seq(X) /\ Len(Tail(q)) = Len(q) - 1
      /\ \A i \in 1 .. Len(Tail(q)) : Tail(q)[i] = q[i + 1]
  BY HeadTailProperties
<1>2. PICK k \in Nat \ {0} : k = Len(q) /\ DOMAIN q = 1 .. k
  BY EmptySeq
<1>3. DOMAIN Tail(q) = 1 .. k - 1
  BY <1>1, <1>2
<1>4. q[1] = Head(q)
  OBVIOUS
<1>5. \A i \in 1 .. k - 1 : Tail(q)[i] = q[i + 1]
  BY <1>1, <1>2
<1>6. ASSUME NEW n \in 1 .. k, n # 1 PROVE n - 1 \in 1 .. k - 1 /\ Tail(q)[n - 1] = q[n]
  <2>1. n - 1 \in 1 .. k - 1 /\ (n - 1) + 1 = n
    BY <1>6
  <2>. QED
    BY <1>5, <2>1
<1>. QED
  BY <1>1, <1>2, <1>3, <1>4, <1>5, <1>6

(* Two sequences, one after the other.                                     *)
LEMMA JoinIs ==
  ASSUME NEW X, NEW q \in Seq(X), NEW r \in Seq(X)
  PROVE  /\ q \o r \in Seq(X)
         /\ \A n \in DOMAIN (q \o r) : \/ n \in DOMAIN q /\ (q \o r)[n] = q[n]
                                       \/ n - Len(q) \in DOMAIN r /\ (q \o r)[n] = r[n - Len(q)] /\ n > Len(q)
         /\ \A n \in DOMAIN q : n \in DOMAIN (q \o r) /\ (q \o r)[n] = q[n]
         /\ \A n \in DOMAIN r : Len(q) + n \in DOMAIN (q \o r) /\ (q \o r)[Len(q) + n] = r[n]
<1>1. PICK k, l \in Nat : k = Len(q) /\ l = Len(r) /\ DOMAIN q = 1 .. k /\ DOMAIN r = 1 .. l
  OBVIOUS
<1>2. PICK s \in Seq(X) : s = q \o r /\ Len(s) = k + l
  BY <1>1, ConcatProperties
<1>3. DOMAIN s = 1 .. k + l
  BY <1>2
<1>4. \A n \in 1 .. k + l : s[n] = IF n <= k THEN q[n] ELSE r[n - k]
  BY <1>1, <1>2, ConcatProperties
<1>5. ASSUME NEW n \in 1 .. k + l
      PROVE  (n \in 1 .. k /\ s[n] = q[n]) \/ (n - k \in 1 .. l /\ s[n] = r[n - k] /\ n > k)
  <2>1. CASE n <= k
    <3>1. n \in 1 .. k /\ s[n] = q[n]
      BY <1>4, <2>1
    <3>. QED
      BY <3>1
  <2>2. CASE ~(n <= k)
    <3>1. n - k \in 1 .. l /\ n > k
      BY <1>5, <2>2
    <3>2. s[n] = r[n - k]
      BY <1>4, <2>2
    <3>. QED
      BY <3>1, <3>2
  <2>. QED
    BY <2>1, <2>2
<1>6. \A n \in 1 .. k : n \in 1 .. k + l /\ s[n] = q[n]
  BY <1>1, <1>4
<1>7. ASSUME NEW n \in 1 .. l PROVE k + n \in 1 .. k + l /\ s[k + n] = r[n]
  <2>1. k + n \in 1 .. k + l /\ ~(k + n <= k) /\ (k + n) - k = n
    BY <1>1
  <2>. QED
    BY <1>4, <2>1
<1>. QED
  BY <1>1, <1>2, <1>3, <1>5, <1>6, <1>7

-----------------------------------------------------------------------------
(* The requests at the banks are those of the units, each once, and at the *)
(* bank of its register.                                                   *)
Queued ==
  /\ \A b \in Bank : \A n \in DOMAIN queue[b] :
       /\ queue[b][n].op \in cu[queue[b][n].cu].notReady
       /\ SrcBank(cu[queue[b][n].cu].inst, queue[b][n].op) = b
  /\ \A b \in Bank : \A m, n \in DOMAIN queue[b] : queue[b][m] = queue[b][n] => m = n
  /\ \A c \in Cu : \A op \in cu[c].notReady : \E b \in Bank :
       /\ b = SrcBank(cu[c].inst, op)
       /\ \E n \in DOMAIN queue[b] : queue[b][n] = [cu |-> c, op |-> op]
  /\ \A c \in Cu : \A op \in cu[c].notReady : cu[c].inst # NoInst /\ op \in DOMAIN Prog[cu[c].inst].src

(* An instruction is in one place on its way to a unit.                    *)
Placed ==
  /\ \A p, q \in Pipe : \A m \in DOMAIN idOc[p], n \in DOMAIN idOc[q] :
       idOc[p][m] = idOc[q][n] => p = q /\ m = n
  /\ \A p \in Pipe : \A m \in DOMAIN idOc[p] :
       idOc[p][m] \notin todo /\ \A c \in Cu : cu[c].inst # idOc[p][m]
  /\ \A c \in Cu : cu[c].inst \notin todo

(* The invariant.                                                          *)
CollectorInv == CollectorTypeOK /\ Queued /\ Placed

(* What is outstanding is counted once at its bank, and nowhere else.      *)
LEMMA OutstandingHolds == CollectorTypeOK /\ Queued => OutstandingIsQueued
<1> SUFFICES ASSUME CollectorTypeOK, Queued, NEW c \in Cu, NEW op \in Op, NEW b \in Bank
             PROVE  Cardinality({n \in DOMAIN queue[b] : queue[b][n] = [cu |-> c, op |-> op]})
                      = IF op \in cu[c].notReady /\ b = SrcBank(cu[c].inst, op) THEN 1 ELSE 0
  BY DEF OutstandingIsQueued
<1>1. PICK at : at = {n \in DOMAIN queue[b] : queue[b][n] = [cu |-> c, op |-> op]}
  OBVIOUS
<1>2. CASE op \in cu[c].notReady /\ b = SrcBank(cu[c].inst, op)
  <2>1. PICK n \in DOMAIN queue[b] : queue[b][n] = [cu |-> c, op |-> op]
    BY <1>2 DEF Queued
  <2>2. \A m \in at : m = n
    BY <1>1, <2>1 DEF Queued
  <2>3. at = {n}
    BY <1>1, <2>1, <2>2
  <2>4. Cardinality(at) = 1
    BY <2>3, FS_Singleton
  <2>. QED
    BY <1>1, <1>2, <2>4
<1>3. CASE ~(op \in cu[c].notReady /\ b = SrcBank(cu[c].inst, op))
  <2>1. ASSUME NEW n \in at PROVE FALSE
    <3>1. n \in DOMAIN queue[b] /\ queue[b][n].cu = c /\ queue[b][n].op = op
      BY <1>1, <2>1
    <3>2. op \in cu[c].notReady /\ SrcBank(cu[c].inst, op) = b
      BY <3>1 DEF Queued
    <3>. QED
      BY <1>3, <3>2
  <2>2. at = {}
    BY <2>1
  <2>3. Cardinality(at) = 0
    BY <2>2, FS_EmptySet
  <2>. QED
    BY <1>1, <1>3, <2>3
<1>. QED
  BY <1>2, <1>3

-----------------------------------------------------------------------------
(* It holds at the start: no requests, no instructions.                    *)
LEMMA CollectorStarts == CollectorInit => CollectorInv
<1> SUFFICES ASSUME CollectorInit PROVE CollectorInv
  OBVIOUS
<1>1. CollectorTypeOK
  <2>1. idOc \in [Pipe -> Seq(Instr)] /\ \A p \in Pipe : Len(idOc[p]) <= InWidth
    BY CollectorAssumption DEF CollectorInit
  <2>2. ocEx \in [Pipe -> Seq(Instr)] /\ \A p \in Pipe : Len(ocEx[p]) <= OutWidth
    BY CollectorAssumption DEF CollectorInit
  <2>3. cu \in [Cu -> [inst : Instr \union {NoInst}, notReady : SUBSET Op]]
    BY DEF CollectorInit, FreeUnit
  <2>4. queue \in [Bank -> Seq([cu : Cu, op : Op])]
    BY DEF CollectorInit
  <2>5. alloc \in [Bank -> {"NO_ALLOC", "READ_ALLOC", "WRITE_ALLOC"}] /\ \A b \in Bank : alloc[b] # "READ_ALLOC"
    BY DEF CollectorInit
  <2>6. lastCu \in 0 .. Square - 1
    BY SquareFits DEF CollectorInit
  <2>7. lastReady \in [DOMAIN Dispatch -> Nat]
    BY DEF CollectorInit
  <2>8. piece \in 1 .. LastPiece
    BY CollectorAssumption DEF CollectorInit, LastPiece, ReadsPiece
  <2>9. todo \subseteq Instr /\ exec \subseteq Instr /\ \A c \in Cu : cu[c].inst = NoInst
    BY DEF CollectorInit, FreeUnit
  <2>. QED
    BY <2>1, <2>2, <2>3, <2>4, <2>5, <2>6, <2>7, <2>8, <2>9 DEF CollectorTypeOK
<1>2. Queued
  BY DEF CollectorInit, FreeUnit, Queued
<1>3. Placed
  BY CollectorAssumption DEF CollectorInit, FreeUnit, Placed
<1>. QED
  BY <1>1, <1>2, <1>3 DEF CollectorInv

-----------------------------------------------------------------------------
(* Issue appends an instruction that is in no other place.                 *)
LEMMA IssueKeeps ==
  ASSUME CollectorInv, NEW i \in Instr, Issue(i)
  PROVE  CollectorInv'
<1>1. PICK p \in Pipe : p = Prog[i].pipe
  BY CollectorAssumption DEF Instruction
<1>2. /\ i \in todo /\ Len(idOc[p]) < InWidth
      /\ idOc' = [idOc EXCEPT ![p] = Append(@, i)] /\ todo' = todo \ {i}
      /\ UNCHANGED <<ocEx, cu, queue, alloc, lastCu, lastReady, piece, exec>>
  BY <1>1 DEF Issue
<1>3. PICK s \in Seq(Instr) : s = idOc[p]
  BY DEF CollectorInv, CollectorTypeOK
<1>4. PICK t \in Seq(Instr) :
        /\ t = Append(s, i) /\ Len(t) = Len(s) + 1 /\ DOMAIN t = DOMAIN s \cup {Len(s) + 1}
        /\ \A n \in DOMAIN s : t[n] = s[n]
        /\ t[Len(s) + 1] = i /\ Len(s) + 1 \notin DOMAIN s
  <2>1. Append(s, i) \in Seq(Instr) /\ Len(Append(s, i)) = Len(s) + 1
        /\ (\A n \in 1 .. Len(s) : Append(s, i)[n] = s[n]) /\ Append(s, i)[Len(s) + 1] = i
    BY AppendProperties
  <2>2. PICK k \in Nat : k = Len(s) /\ DOMAIN s = 1 .. k
    OBVIOUS
  <2>3. 1 .. k + 1 = 1 .. k \cup {k + 1} /\ k + 1 \notin 1 .. k
    OBVIOUS
  <2>4. DOMAIN Append(s, i) = 1 .. k + 1
    BY <2>1, <2>2
  <2>. QED
    BY <2>1, <2>2, <2>3, <2>4
<1>5. idOc' = [idOc EXCEPT ![p] = t]
  BY <1>2, <1>3, <1>4
<1>6. idOc \in [Pipe -> Seq(Instr)]
  BY DEF CollectorInv, CollectorTypeOK
<1>7. CollectorTypeOK'
  <2>1. idOc' \in [Pipe -> Seq(Instr)]
    BY <1>5, <1>6
  <2>2. \A q \in Pipe : Len(idOc'[q]) <= InWidth
    BY <1>2, <1>3, <1>4, <1>5, <1>6, CollectorAssumption DEF CollectorInv, CollectorTypeOK
  <2>. QED
    BY <1>2, <2>1, <2>2 DEF CollectorInv, CollectorTypeOK
<1>8. Queued'
  BY <1>2 DEF CollectorInv, Queued
<1>9. Placed'
  <2>1. \A q \in Pipe : \A n \in DOMAIN idOc'[q] :
          \/ n \in DOMAIN idOc[q] /\ idOc'[q][n] = idOc[q][n]
          \/ q = p /\ n = Len(s) + 1 /\ idOc'[q][n] = i
    BY <1>3, <1>4, <1>5, <1>6
  <2>2. \A q \in Pipe : \A n \in DOMAIN idOc[q] : idOc[q][n] # i
    BY <1>2 DEF CollectorInv, Placed
  <2>3. \A c \in Cu : cu[c].inst # i
    BY <1>2 DEF CollectorInv, Placed
  <2>4. ASSUME NEW q \in Pipe, NEW r \in Pipe, NEW m \in DOMAIN idOc'[q], NEW n \in DOMAIN idOc'[r],
               idOc'[q][m] = idOc'[r][n]
        PROVE  q = r /\ m = n
    <3>1. CASE m \in DOMAIN idOc[q] /\ idOc'[q][m] = idOc[q][m]
      <4>1. n \in DOMAIN idOc[r] /\ idOc'[r][n] = idOc[r][n]
        BY <2>1, <2>2, <2>4, <3>1
      <4>2. idOc[q][m] = idOc[r][n]
        BY <2>4, <3>1, <4>1
      <4>. QED
        BY <3>1, <4>1, <4>2 DEF CollectorInv, Placed
    <3>2. CASE q = p /\ m = Len(s) + 1 /\ idOc'[q][m] = i
      <4>1. r = p /\ n = Len(s) + 1
        BY <2>1, <2>2, <2>4, <3>2
      <4>. QED
        BY <3>2, <4>1
    <3>. QED
      BY <2>1, <3>1, <3>2
  <2>5. \A q \in Pipe : \A m \in DOMAIN idOc'[q] : idOc'[q][m] \notin todo' /\ \A c \in Cu : cu'[c].inst # idOc'[q][m]
    BY <1>2, <2>1, <2>3 DEF CollectorInv, Placed
  <2>6. \A c \in Cu : cu'[c].inst \notin todo'
    BY <1>2 DEF CollectorInv, Placed
  <2>. QED
    BY <2>4, <2>5, <2>6 DEF Placed
<1>. QED
  BY <1>7, <1>8, <1>9 DEF CollectorInv

(* The function units take and write results; requests and units stay.     *)
LEMMA TakeKeeps ==
  ASSUME CollectorInv, NEW p \in Pipe, TakeFromOc(p)
  PROVE  CollectorInv'
<1>1. /\ ocEx[p] # <<>> /\ exec' = exec \union {Head(ocEx[p])}
      /\ ocEx' = [ocEx EXCEPT ![p] = Tail(@)]
      /\ UNCHANGED <<idOc, cu, queue, alloc, lastCu, lastReady, piece, todo>>
  BY DEF TakeFromOc
<1>2. ocEx \in [Pipe -> Seq(Instr)] /\ \A q \in Pipe : Len(ocEx[q]) <= OutWidth
  BY DEF CollectorInv, CollectorTypeOK
<1>3. Head(ocEx[p]) \in Instr /\ Tail(ocEx[p]) \in Seq(Instr) /\ Len(Tail(ocEx[p])) = Len(ocEx[p]) - 1
  BY <1>1, <1>2, HeadTailProperties
<1>4. ocEx' \in [Pipe -> Seq(Instr)] /\ \A q \in Pipe : Len(ocEx'[q]) <= OutWidth
  BY <1>1, <1>2, <1>3, CollectorAssumption
<1>5. CollectorTypeOK'
  BY <1>1, <1>3, <1>4 DEF CollectorInv, CollectorTypeOK
<1>6. Queued' /\ Placed'
  BY <1>1 DEF CollectorInv, Queued, Placed
<1>. QED
  BY <1>5, <1>6 DEF CollectorInv

(* A result claims banks between two steps, never for a read.              *)
LEMMA WritesKeep ==
  ASSUME CollectorInv, NEW i \in Instr, writeback(i)
  PROVE  CollectorInv'
<1>1. PICK n : alloc' = [b \in Bank |-> IF \E m \in 1 .. n : DstBanks(i)[m] = b THEN "WRITE_ALLOC" ELSE alloc[b]]
  BY DEF writeback
<1>2. piece = 1 /\ exec' \subseteq exec /\ UNCHANGED <<idOc, ocEx, cu, queue, lastCu, lastReady, piece, todo>>
  BY DEF writeback, AtRest
<1>3. alloc \in [Bank -> {"NO_ALLOC", "READ_ALLOC", "WRITE_ALLOC"}] /\ \A b \in Bank : alloc[b] # "READ_ALLOC"
  <2>1. 1 <= ReadsPiece
    BY CollectorAssumption DEF ReadsPiece
  <2>. QED
    BY <1>2, <2>1 DEF CollectorInv, CollectorTypeOK
<1>4. alloc' \in [Bank -> {"NO_ALLOC", "READ_ALLOC", "WRITE_ALLOC"}] /\ \A b \in Bank : alloc'[b] # "READ_ALLOC"
  BY <1>1, <1>3
<1>5. CollectorTypeOK'
  BY <1>2, <1>4 DEF CollectorInv, CollectorTypeOK
<1>6. Queued' /\ Placed'
  BY <1>2 DEF CollectorInv, Queued, Placed
<1>. QED
  BY <1>5, <1>6 DEF CollectorInv

(* A unit that is dispatched has nothing outstanding.                      *)
LEMMA DispatchKeeps ==
  ASSUME CollectorInv, DispatchReady
  PROVE  CollectorInv'
<1>1. /\ piece < ReadsPiece /\ piece' = piece + 1
      /\ UNCHANGED <<idOc, queue, alloc, lastCu, todo, exec>>
  BY DEF DispatchReady
<1>2. /\ piece' \in 1 .. LastPiece
      /\ piece' <= ReadsPiece
      /\ piece <= ReadsPiece
  <2>1. PICK d, l \in Nat : d = Len(Dispatch) /\ l = Len(Ports)
    BY CollectorAssumption
  <2>. QED
    BY <1>1, <2>1 DEF ReadsPiece, LastPiece, CollectorInv, CollectorTypeOK
<1>3. CASE UNCHANGED <<ocEx, cu, lastReady>>
  <2>1. CollectorTypeOK'
    BY <1>1, <1>2, <1>3 DEF CollectorInv, CollectorTypeOK
  <2>2. Queued' /\ Placed'
    BY <1>1, <1>3 DEF CollectorInv, Queued, Placed
  <2>. QED
    BY <2>1, <2>2 DEF CollectorInv
<1>4. ASSUME NEW at \in find_ready(piece), dispatch_cu(CuSets[Dispatch[piece]][at + 1]),
             lastReady' = [lastReady EXCEPT ![piece] = at]
      PROVE  CollectorInv'
  <2>1. PICK units : units = CuSets[Dispatch[piece]]
    OBVIOUS
  <2>2. units \in Seq(Cu) /\ piece \in DOMAIN Dispatch
    <3>1. piece \in 1 .. Len(Dispatch)
      <4>1. PICK d \in Nat : d = Len(Dispatch)
        BY CollectorAssumption
      <4>. QED
        BY <1>1, <4>1 DEF ReadsPiece, CollectorInv, CollectorTypeOK
    <3>2. Dispatch[piece] \in DOMAIN CuSets /\ piece \in DOMAIN Dispatch
      BY <3>1, CollectorAssumption
    <3>. QED
      BY <2>1, <3>2, CollectorAssumption
  <2>3. PICK N \in Nat : N = Len(units) /\ DOMAIN units = 1 .. N
    BY <2>2
  <2>4. PICK j \in 1 .. N : at = (lastReady[piece] + j) % N /\ Ready(units[at + 1])
    BY <1>4, <2>1, <2>3 DEF find_ready
  <2>5. at \in 0 .. N - 1
    <3>1. lastReady[piece] \in Nat
      BY <2>2 DEF CollectorInv, CollectorTypeOK
    <3>2. PICK k \in Nat : k = lastReady[piece] + j
      BY <2>3, <3>1
    <3>3. N \in Nat \ {0} /\ at = k % N
      BY <2>3, <2>4, <3>2
    <3>. QED
      BY <3>2, <3>3
  <2>6. PICK c \in Cu : c = units[at + 1]
    BY <2>2, <2>3, <2>5
  <2>7. cu[c].inst # NoInst /\ cu[c].notReady = {} /\ Len(ocEx[Prog[cu[c].inst].pipe]) < OutWidth
    BY <2>4, <2>6 DEF Ready
  <2>8. /\ cu \in [Cu -> [inst : Instr \union {NoInst}, notReady : SUBSET Op]]
        /\ ocEx \in [Pipe -> Seq(Instr)] /\ \A p \in Pipe : Len(ocEx[p]) <= OutWidth
        /\ lastReady \in [DOMAIN Dispatch -> Nat]
    BY DEF CollectorInv, CollectorTypeOK
  <2>9. PICK i \in Instr : i = cu[c].inst
    BY <2>7, <2>8
  <2>10. PICK p \in Pipe : p = Prog[i].pipe
    BY CollectorAssumption DEF Instruction
  <2>11. ocEx' = [ocEx EXCEPT ![p] = Append(@, i)] /\ cu' = [cu EXCEPT ![c] = FreeUnit]
    BY <1>4, <2>1, <2>6, <2>9, <2>10 DEF dispatch_cu
  <2>12. ocEx' \in [Pipe -> Seq(Instr)] /\ \A q \in Pipe : Len(ocEx'[q]) <= OutWidth
    <3>1. PICK s \in Seq(Instr) : s = ocEx[p] /\ Len(s) < OutWidth
      BY <2>7, <2>8, <2>9, <2>10
    <3>2. Append(s, i) \in Seq(Instr) /\ Len(Append(s, i)) = Len(s) + 1
      BY AppendProperties
    <3>3. Len(s) \in Nat /\ OutWidth \in Nat
      BY CollectorAssumption
    <3>. QED
      BY <2>8, <2>11, <3>1, <3>2, <3>3
  <2>13. /\ cu' \in [Cu -> [inst : Instr \union {NoInst}, notReady : SUBSET Op]]
         /\ cu'[c] = [inst |-> NoInst, notReady |-> {}]
         /\ \A d \in Cu : d # c => cu'[d] = cu[d]
    BY <2>8, <2>11 DEF FreeUnit
  <2>14. lastReady' \in [DOMAIN Dispatch -> Nat]
    <3>1. at \in Nat
      BY <2>3, <2>5
    <3>. QED
      BY <1>4, <2>8, <3>1
  <2>15. ASSUME NEW d \in Cu, NEW e \in Cu, cu'[d].inst # NoInst, cu'[d].inst = cu'[e].inst
         PROVE  d = e
    <3>1. cu'[c].inst = NoInst
      BY <2>13
    <3>2. d # c /\ e # c
      BY <2>15, <3>1
    <3>3. cu'[d] = cu[d] /\ cu'[e] = cu[e]
      BY <2>13, <3>2
    <3>4. \A x, y \in Cu : cu[x].inst # NoInst /\ cu[x].inst = cu[y].inst => x = y
      BY DEF CollectorInv, CollectorTypeOK
    <3>. QED
      BY <2>15, <3>3, <3>4
  <2>16. CollectorTypeOK'
    BY <1>1, <1>2, <2>12, <2>13, <2>14, <2>15 DEF CollectorInv, CollectorTypeOK
  <2>17. Queued'
    <3>1. ASSUME NEW b \in Bank, NEW n \in DOMAIN queue[b]
          PROVE  queue[b][n].cu \in Cu /\ queue[b][n].cu # c
      <4> DEFINE Req == [cu : Cu, op : Op]
      <4>1. queue \in [Bank -> Seq(Req)]
        BY DEF CollectorInv, CollectorTypeOK
      <4>4. Req = [cu : Cu, op : Op]
        OBVIOUS
      <4> HIDE DEF Req
      <4>2. PICK r \in Req : r = queue[b][n]
        BY <4>1
      <4>3. r.cu \in Cu /\ r.op \in cu[r.cu].notReady
        BY <4>2, <4>4 DEF CollectorInv, Queued
      <4>. QED
        BY <2>7, <4>2, <4>3
    <3>2. \A b \in Bank : \A n \in DOMAIN queue[b] :
             /\ queue[b][n].op \in cu'[queue[b][n].cu].notReady
             /\ SrcBank(cu'[queue[b][n].cu].inst, queue[b][n].op) = b
      BY <2>13, <3>1 DEF CollectorInv, Queued
    <3>3. \A d \in Cu : \A op \in cu'[d].notReady : d # c /\ op \in cu[d].notReady /\ cu'[d] = cu[d]
      BY <2>13
    <3>4. \A d \in Cu : \A op \in cu'[d].notReady : \E b \in Bank :
            /\ b = SrcBank(cu'[d].inst, op)
            /\ \E n \in DOMAIN queue[b] : queue[b][n] = [cu |-> d, op |-> op]
      BY <3>3 DEF CollectorInv, Queued
    <3>5. \A d \in Cu : \A op \in cu'[d].notReady : cu'[d].inst # NoInst /\ op \in DOMAIN Prog[cu'[d].inst].src
      BY <3>3 DEF CollectorInv, Queued
    <3>6. \A b \in Bank : \A m, n \in DOMAIN queue[b] : queue[b][m] = queue[b][n] => m = n
      BY DEF CollectorInv, Queued
    <3>7. queue' = queue
      BY <1>1
    <3>. QED
      BY <3>2, <3>4, <3>5, <3>6, <3>7 DEF Queued
  <2>18. Placed'
    <3>1. \A d \in Cu : cu'[d].inst = cu[d].inst \/ cu'[d].inst = NoInst
      BY <2>13
    <3>2. NoInst \notin todo /\ \A q \in Pipe : \A m \in DOMAIN idOc[q] : idOc[q][m] # NoInst
      BY CollectorAssumption DEF CollectorInv, CollectorTypeOK
    <3>. QED
      BY <1>1, <3>1, <3>2 DEF CollectorInv, Placed
  <2>. QED
    BY <2>16, <2>17, <2>18 DEF CollectorInv
<1>. QED
  BY <1>3, <1>4 DEF DispatchReady

(* The requests that are granted leave their bank and their unit together. *)
LEMMA ReadsKeep ==
  ASSUME CollectorInv, allocate_reads
  PROVE  CollectorInv'
<1> DEFINE Req == [cu : Cu, op : Op]
<1>1. /\ piece = ReadsPiece /\ piece' = piece + 1
      /\ UNCHANGED <<idOc, ocEx, lastReady, todo, exec>> /\ lastCu' = (lastCu + 1) % Square
  BY DEF allocate_reads
<1>2. PICK G : G = Granted
  OBVIOUS
<1>3. /\ queue' = [b \in Bank |-> IF b \in G THEN Tail(queue[b]) ELSE queue[b]]
      /\ alloc' = [b \in Bank |-> IF b \in G THEN "READ_ALLOC" ELSE alloc[b]]
      /\ cu' = [c \in Cu |-> collect_operand(c, {b \in G : Head(queue[b]).cu = c})]
  BY <1>2 DEF allocate_reads
<1>4. /\ cu \in [Cu -> [inst : Instr \union {NoInst}, notReady : SUBSET Op]]
      /\ queue \in [Bank -> Seq(Req)]
      /\ alloc \in [Bank -> {"NO_ALLOC", "READ_ALLOC", "WRITE_ALLOC"}]
  BY DEF CollectorInv, CollectorTypeOK
<1>5. \A b \in G : b \in Bank /\ queue[b] \in Seq(Req) /\ queue[b] # <<>>
  BY <1>2, GrantedOne, AskingIs DEF CollectorInv
<1>6. PICK gone : gone = [c \in Cu |-> {Head(queue[b]).op : b \in {d \in G : Head(queue[d]).cu = c}}]
  OBVIOUS
<1>7. \A c \in Cu : cu'[c].inst = cu[c].inst /\ cu'[c].notReady = cu[c].notReady \ gone[c]
  BY <1>3, <1>4, <1>6 DEF collect_operand
<1>8. cu' \in [Cu -> [inst : Instr \union {NoInst}, notReady : SUBSET Op]]
  BY <1>3, <1>4 DEF collect_operand
<1>9. queue' \in [Bank -> Seq(Req)]
  BY <1>3, <1>4, <1>5, HeadTailProperties
<1> HIDE DEF Req
<1>10. \A b \in Bank : \A n \in DOMAIN queue'[b] : \E m \in DOMAIN queue[b] :
         /\ queue'[b][n] = queue[b][m] /\ (b \in G => m # 1)
         /\ n \in Int /\ m = (IF b \in G THEN n + 1 ELSE n)
  <2>1. ASSUME NEW b \in G, NEW n \in DOMAIN queue'[b]
        PROVE  n \in Int /\ n + 1 \in DOMAIN queue[b] /\ queue'[b][n] = queue[b][n + 1] /\ n + 1 # 1
    <3>1. queue'[b] = Tail(queue[b])
      BY <1>3, <1>5
    <3>. QED
      BY <1>5, <2>1, <3>1, RestIs
  <2>2. ASSUME NEW b \in Bank \ G, NEW n \in DOMAIN queue'[b]
        PROVE  n \in Int /\ n \in DOMAIN queue[b] /\ queue'[b][n] = queue[b][n]
    BY <1>3, <1>4, <2>2
  <2>. QED
    BY <2>1, <2>2
<1>11. \A b \in Bank : \A m \in DOMAIN queue[b] : (b \in G => m # 1) =>
         \E n \in DOMAIN queue'[b] : queue'[b][n] = queue[b][m]
  <2>1. ASSUME NEW b \in G, NEW m \in DOMAIN queue[b], m # 1
        PROVE  m - 1 \in DOMAIN queue'[b] /\ queue'[b][m - 1] = queue[b][m]
    <3>1. queue'[b] = Tail(queue[b])
      BY <1>3, <1>5
    <3>. QED
      BY <1>5, <2>1, <3>1, RestIs
  <2>2. ASSUME NEW b \in Bank \ G, NEW m \in DOMAIN queue[b]
        PROVE  m \in DOMAIN queue'[b] /\ queue'[b][m] = queue[b][m]
    BY <1>3, <2>2
  <2>. QED
    BY <2>1, <2>2
<1>12. \A b \in G : 1 \in DOMAIN queue[b] /\ queue[b][1] = Head(queue[b]) /\ Head(queue[b]) \in Req
  BY <1>5, RestIs
<1>13. CollectorTypeOK'
  <2>1. alloc' \in [Bank -> {"NO_ALLOC", "READ_ALLOC", "WRITE_ALLOC"}]
    BY <1>3, <1>4
  <2>2. lastCu' \in 0 .. Square - 1
    <3>1. PICK S \in Nat \ {0}, l \in Nat : S = Square /\ l = lastCu
      BY SquareFits DEF CollectorInv, CollectorTypeOK
    <3>2. (l + 1) % S \in 0 .. S - 1
      BY <3>1
    <3>. QED
      BY <1>1, <3>1, <3>2
  <2>3. piece' \in 1 .. LastPiece /\ ~(piece' <= ReadsPiece)
    <3>1. PICK d \in Nat, l \in Nat \ {0} : d = Len(Dispatch) /\ l = Len(Ports)
      BY CollectorAssumption, EmptySeq
    <3>. QED
      BY <1>1, <3>1 DEF ReadsPiece, LastPiece
  <2>4. \A d, e \in Cu : cu'[d].inst # NoInst /\ cu'[d].inst = cu'[e].inst => d = e
    BY <1>7 DEF CollectorInv, CollectorTypeOK
  <2>. QED
    BY <1>1, <1>8, <1>9, <2>1, <2>2, <2>3, <2>4 DEF CollectorInv, CollectorTypeOK, Req
<1>14. Queued'
  <2>1. ASSUME NEW b \in Bank, NEW n \in DOMAIN queue'[b]
        PROVE  /\ queue'[b][n].op \in cu'[queue'[b][n].cu].notReady
               /\ SrcBank(cu'[queue'[b][n].cu].inst, queue'[b][n].op) = b
    <3>1. PICK m \in DOMAIN queue[b] : queue'[b][n] = queue[b][m] /\ (b \in G => m # 1)
      BY <1>10
    <3>2. PICK r \in Req : r = queue[b][m]
      BY <1>4
    <3>3. r.cu \in Cu /\ r.op \in cu[r.cu].notReady /\ SrcBank(cu[r.cu].inst, r.op) = b
      BY <3>2 DEF CollectorInv, Queued, Req
    <3>4. r.op \notin gone[r.cu]
      <4>1. SUFFICES ASSUME NEW d \in G, Head(queue[d]).cu = r.cu, Head(queue[d]).op = r.op PROVE FALSE
        BY <1>6, <3>3
      <4>2. Head(queue[d]) = r
        BY <1>12, <4>1 DEF Req
      <4>3. 1 \in DOMAIN queue[d] /\ queue[d][1] = r /\ d \in Bank
        BY <1>5, <1>12, <4>2
      <4>4. d = b
        BY <3>3, <4>3 DEF CollectorInv, Queued
      <4>5. m = 1
        BY <3>2, <4>3, <4>4 DEF CollectorInv, Queued
      <4>. QED
        BY <3>1, <4>4, <4>5
    <3>5. r.op \in cu'[r.cu].notReady /\ cu'[r.cu].inst = cu[r.cu].inst
      BY <1>7, <3>3, <3>4
    <3>. QED
      BY <3>1, <3>2, <3>3, <3>5
  <2>2. ASSUME NEW b \in Bank, NEW n \in DOMAIN queue'[b], NEW k \in DOMAIN queue'[b],
               queue'[b][n] = queue'[b][k]
        PROVE  n = k
    <3>1. PICK m \in DOMAIN queue[b] : queue'[b][n] = queue[b][m] /\ n \in Int /\ m = (IF b \in G THEN n + 1 ELSE n)
      BY <1>10
    <3>2. PICK j \in DOMAIN queue[b] : queue'[b][k] = queue[b][j] /\ k \in Int /\ j = (IF b \in G THEN k + 1 ELSE k)
      BY <1>10
    <3>3. m = j
      BY <2>2, <3>1, <3>2 DEF CollectorInv, Queued
    <3>. QED
      BY <3>1, <3>2, <3>3
  <2>3. ASSUME NEW c \in Cu, NEW op \in cu'[c].notReady
        PROVE  \E b \in Bank : /\ b = SrcBank(cu'[c].inst, op)
                               /\ \E n \in DOMAIN queue'[b] : queue'[b][n] = [cu |-> c, op |-> op]
    <3>1. op \in cu[c].notReady /\ op \notin gone[c] /\ cu'[c].inst = cu[c].inst
      BY <1>7, <2>3
    <3>2. PICK b \in Bank : b = SrcBank(cu[c].inst, op) /\ \E m \in DOMAIN queue[b] : queue[b][m] = [cu |-> c, op |-> op]
      BY <3>1 DEF CollectorInv, Queued
    <3>3. PICK m \in DOMAIN queue[b] : queue[b][m] = [cu |-> c, op |-> op]
      BY <3>2
    <3>4. ASSUME b \in G PROVE m # 1
      <4>1. ASSUME m = 1 PROVE FALSE
        <5>1. Head(queue[b]) = [cu |-> c, op |-> op]
          BY <1>12, <3>3, <3>4, <4>1
        <5>2. Head(queue[b]).cu = c /\ Head(queue[b]).op = op
          BY <5>1
        <5>. QED
          BY <1>6, <3>1, <3>4, <5>2
      <4>. QED
        BY <4>1
    <3>5. \E n \in DOMAIN queue'[b] : queue'[b][n] = [cu |-> c, op |-> op]
      BY <1>11, <3>3, <3>4
    <3>. QED
      BY <3>1, <3>2, <3>5
  <2>4. \A c \in Cu : \A op \in cu'[c].notReady : cu'[c].inst # NoInst /\ op \in DOMAIN Prog[cu'[c].inst].src
    BY <1>7 DEF CollectorInv, Queued
  <2>. QED
    BY <2>1, <2>2, <2>3, <2>4 DEF Queued
<1>15. Placed'
  BY <1>1, <1>7 DEF CollectorInv, Placed
<1>. QED
  BY <1>13, <1>14, <1>15 DEF CollectorInv

(* The pieces of step(), in their order.                                   *)
LEMMA PiecesAre ==
  /\ \E d, l \in Nat : ReadsPiece = d + 1 /\ LastPiece = d + 1 + l /\ d = Len(Dispatch) /\ l = Len(Ports)
  /\ 1 < ReadsPiece /\ ReadsPiece < LastPiece /\ LastPiece \in Nat
<1>1. PICK d \in Nat \ {0} : d = Len(Dispatch)
  BY CollectorAssumption, EmptySeq
<1>2. PICK l \in Nat \ {0} : l = Len(Ports)
  BY CollectorAssumption, EmptySeq
<1>3. ReadsPiece = d + 1 /\ LastPiece = d + 1 + l
  BY <1>1, <1>2 DEF ReadsPiece, LastPiece
<1>. QED
  BY <1>1, <1>2, <1>3

(* The operands of an instruction are at banks.                            *)
LEMMA OperandsAtBanks ==
  ASSUME NEW i \in Instr, NEW op \in DOMAIN Prog[i].src
  PROVE  op \in Op /\ SrcBank(i, op) \in Bank
<1>1. op \in Op
  BY DEF Op
<1>2. PICK r, w \in Nat : r = Prog[i].src[op] /\ w = Prog[i].warp
  <2>1. Prog[i] \in Instruction
    BY CollectorAssumption
  <2>. QED
    BY <2>1 DEF Instruction
<1>3. PICK N \in Nat \ {0} : N = NumBanks
  BY SquareFits
<1>4. PICK k \in Nat : k = r + w
  OBVIOUS
<1>5. k % N \in 0 .. N - 1
  BY <1>3, <1>4
<1>. QED
  BY <1>1, <1>2, <1>3, <1>4, <1>5 DEF SrcBank, register_bank, Bank

(* What a unit asks for is added to the banks behind what is there.        *)
LEMMA RequestsKeep ==
  ASSUME CollectorInv, NEW c \in Cu, NEW i \in Instr, cu[c].inst = NoInst,
         cu' = [cu EXCEPT ![c] = [inst |-> i, notReady |-> DOMAIN Prog[i].src]],
         queue' = [b \in Bank |-> queue[b] \o Requests(c, i, b)]
  PROVE  /\ cu' \in [Cu -> [inst : Instr \union {NoInst}, notReady : SUBSET Op]]
         /\ cu'[c] = [inst |-> i, notReady |-> DOMAIN Prog[i].src]
         /\ \A d \in Cu : d # c => cu'[d] = cu[d]
         /\ queue' \in [Bank -> Seq([cu : Cu, op : Op])]
         /\ Queued'
<1> DEFINE Req == [cu : Cu, op : Op]
<1>1. /\ cu \in [Cu -> [inst : Instr \union {NoInst}, notReady : SUBSET Op]]
      /\ queue \in [Bank -> Seq(Req)]
  BY DEF CollectorInv, CollectorTypeOK
<1>2. DOMAIN Prog[i].src \in SUBSET Op
  BY OperandsAtBanks
<1>3. PICK u : u = [inst |-> i, notReady |-> DOMAIN Prog[i].src]
  OBVIOUS
<1>4. u \in [inst : Instr \union {NoInst}, notReady : SUBSET Op]
  BY <1>2, <1>3
<1>5. /\ cu' \in [Cu -> [inst : Instr \union {NoInst}, notReady : SUBSET Op]]
      /\ cu'[c] = u /\ u.inst = i /\ u.notReady = DOMAIN Prog[i].src
      /\ \A d \in Cu : d # c => cu'[d] = cu[d]
  <2>1. cu' = [cu EXCEPT ![c] = u]
    BY <1>3
  <2>. QED
    BY <1>1, <1>3, <1>4, <2>1
<1>6. ASSUME NEW b \in Bank
      PROVE  /\ Requests(c, i, b) \in Seq(Req)
             /\ \A n \in DOMAIN Requests(c, i, b) :
                  /\ Requests(c, i, b)[n].cu = c
                  /\ Requests(c, i, b)[n].op \in DOMAIN Prog[i].src
                  /\ SrcBank(i, Requests(c, i, b)[n].op) = b
             /\ \A m, n \in DOMAIN Requests(c, i, b) :
                  Requests(c, i, b)[m] = Requests(c, i, b)[n] => m = n
  <2>1. PICK R : R = Requests(c, i, b)
    OBVIOUS
  <2>2. R \in Seq([cu : Cu, op : Op])
    BY <2>1, RequestsAre
  <2>3. \A n \in DOMAIN R : R[n].cu = c /\ R[n].op \in DOMAIN Prog[i].src /\ SrcBank(i, R[n].op) = b
    BY <2>1, RequestsAre
  <2>4. \A m, n \in DOMAIN R : R[m] = R[n] => m = n
    BY <2>1, RequestsAre
  <2>. QED
    BY <2>1, <2>2, <2>3, <2>4
<1>7. Req = [cu : Cu, op : Op]
  OBVIOUS
<1> HIDE DEF Req
<1>8. \A b \in Bank : queue'[b] = queue[b] \o Requests(c, i, b)
  OBVIOUS
<1>9. queue' \in [Bank -> Seq(Req)]
  <2>1. \A b \in Bank : queue[b] \o Requests(c, i, b) \in Seq(Req)
    BY <1>1, <1>6, JoinIs
  <2>. QED
    BY <2>1
<1>10. cu[c].notReady = {}
  <2>1. \A op \in cu[c].notReady : cu[c].inst # NoInst
    BY DEF CollectorInv, Queued
  <2>. QED
    BY <2>1
<1>11. ASSUME NEW b \in Bank, NEW n \in DOMAIN queue[b]
       PROVE  /\ queue[b][n].cu \in Cu /\ queue[b][n].cu # c
              /\ queue[b][n].op \in cu[queue[b][n].cu].notReady
              /\ SrcBank(cu[queue[b][n].cu].inst, queue[b][n].op) = b
  <2>1. PICK r \in Req : r = queue[b][n]
    BY <1>1
  <2>2. r.cu \in Cu /\ r.op \in cu[r.cu].notReady /\ SrcBank(cu[r.cu].inst, r.op) = b
    BY <1>7, <2>1 DEF CollectorInv, Queued
  <2>. QED
    BY <1>10, <2>1, <2>2
<1>12. ASSUME NEW b \in Bank, NEW n \in DOMAIN queue'[b]
       PROVE  \/ n \in DOMAIN queue[b] /\ queue'[b][n] = queue[b][n] /\ queue'[b][n].cu # c
              \/ /\ n - Len(queue[b]) \in DOMAIN Requests(c, i, b) /\ n > Len(queue[b])
                 /\ queue'[b][n] = Requests(c, i, b)[n - Len(queue[b])] /\ queue'[b][n].cu = c
  <2>1. PICK s \in Seq(Req) : s = queue[b]
    BY <1>1
  <2>2. PICK R \in Seq(Req) : R = Requests(c, i, b)
    BY <1>6
  <2>3. \/ n \in DOMAIN s /\ (s \o R)[n] = s[n]
        \/ n - Len(s) \in DOMAIN R /\ (s \o R)[n] = R[n - Len(s)] /\ n > Len(s)
    BY <1>8, <1>12, <2>1, <2>2, JoinIs
  <2>4. queue'[b] = s \o R
    BY <1>8, <2>1, <2>2
  <2>5. CASE n \in DOMAIN s /\ (s \o R)[n] = s[n]
    BY <1>11, <2>1, <2>4, <2>5
  <2>6. CASE n - Len(s) \in DOMAIN R /\ (s \o R)[n] = R[n - Len(s)] /\ n > Len(s)
    <3>1. R[n - Len(s)].cu = c
      BY <1>6, <2>2, <2>6
    <3>. QED
      BY <2>1, <2>2, <2>4, <2>6, <3>1
  <2>. QED
    BY <2>3, <2>5, <2>6
<1>13. ASSUME NEW b \in Bank, NEW n \in DOMAIN queue'[b]
       PROVE  /\ queue'[b][n].op \in cu'[queue'[b][n].cu].notReady
              /\ SrcBank(cu'[queue'[b][n].cu].inst, queue'[b][n].op) = b
  <2>1. CASE n \in DOMAIN queue[b] /\ queue'[b][n] = queue[b][n] /\ queue'[b][n].cu # c
    <3>1. cu'[queue[b][n].cu] = cu[queue[b][n].cu]
      BY <1>5, <1>11, <2>1
    <3>. QED
      BY <1>11, <2>1, <3>1
  <2>2. CASE /\ n - Len(queue[b]) \in DOMAIN Requests(c, i, b)
             /\ queue'[b][n] = Requests(c, i, b)[n - Len(queue[b])] /\ queue'[b][n].cu = c
    <3>1. /\ Requests(c, i, b)[n - Len(queue[b])].op \in DOMAIN Prog[i].src
          /\ SrcBank(i, Requests(c, i, b)[n - Len(queue[b])].op) = b
      BY <1>6, <2>2
    <3>. QED
      BY <1>5, <2>2, <3>1
  <2>. QED
    BY <1>12, <2>1, <2>2
<1>14. ASSUME NEW b \in Bank, NEW m \in DOMAIN queue'[b], NEW n \in DOMAIN queue'[b],
              queue'[b][m] = queue'[b][n]
       PROVE  m = n
  <2>1. CASE queue'[b][m].cu # c
    <3>1. m \in DOMAIN queue[b] /\ n \in DOMAIN queue[b] /\ queue[b][m] = queue[b][n]
      BY <1>12, <1>14, <2>1
    <3>. QED
      BY <3>1 DEF CollectorInv, Queued
  <2>2. CASE queue'[b][m].cu = c
    <3>1. PICK s \in Seq(Req) : s = queue[b]
      BY <1>1
    <3>2. PICK l \in Nat : l = Len(s)
      OBVIOUS
    <3>3. PICK x : x = m - l /\ x \in DOMAIN Requests(c, i, b) /\ queue'[b][m] = Requests(c, i, b)[x]
      BY <1>12, <2>2, <3>1, <3>2
    <3>4. PICK y : y = n - l /\ y \in DOMAIN Requests(c, i, b) /\ queue'[b][n] = Requests(c, i, b)[y]
      BY <1>12, <1>14, <2>2, <3>1, <3>2
    <3>5. x = y
      BY <1>6, <1>14, <3>3, <3>4
    <3>6. m \in Int /\ n \in Int
      BY <1>9
    <3>. QED
      BY <3>2, <3>3, <3>4, <3>5, <3>6
  <2>. QED
    BY <2>1, <2>2
<1>15. ASSUME NEW d \in Cu, NEW op \in cu'[d].notReady
       PROVE  /\ \E b \in Bank : /\ b = SrcBank(cu'[d].inst, op)
                                 /\ \E n \in DOMAIN queue'[b] : queue'[b][n] = [cu |-> d, op |-> op]
              /\ cu'[d].inst # NoInst /\ op \in DOMAIN Prog[cu'[d].inst].src
  <2>1. CASE d = c
    <3>1. cu'[d].inst = i /\ op \in DOMAIN Prog[i].src /\ i # NoInst
      BY <1>5, <1>15, <2>1, CollectorAssumption
    <3>2. PICK b \in Bank : b = SrcBank(i, op)
      BY <3>1, OperandsAtBanks
    <3>3. PICK R \in Seq(Req) : R = Requests(c, i, b)
      BY <1>6
    <3>4. PICK n \in DOMAIN R : R[n] = [cu |-> c, op |-> op]
      BY <3>1, <3>2, <3>3, RequestsAre
    <3>5. PICK s \in Seq(Req) : s = queue[b]
      BY <1>1
    <3>6. Len(s) + n \in DOMAIN (s \o R) /\ (s \o R)[Len(s) + n] = R[n]
      BY JoinIs
    <3>7. \E k \in DOMAIN queue'[b] : queue'[b][k] = [cu |-> c, op |-> op]
      BY <1>8, <3>3, <3>4, <3>5, <3>6
    <3>. QED
      BY <2>1, <3>1, <3>2, <3>7
  <2>2. CASE d # c
    <3>1. cu'[d] = cu[d]
      BY <1>5, <2>2
    <3>2. cu[d].inst # NoInst /\ op \in DOMAIN Prog[cu[d].inst].src
      BY <1>15, <3>1 DEF CollectorInv, Queued
    <3>3. PICK b \in Bank : b = SrcBank(cu[d].inst, op) /\ \E n \in DOMAIN queue[b] : queue[b][n] = [cu |-> d, op |-> op]
      BY <1>15, <3>1 DEF CollectorInv, Queued
    <3>4. PICK n \in DOMAIN queue[b] : queue[b][n] = [cu |-> d, op |-> op]
      BY <3>3
    <3>5. n \in DOMAIN queue'[b] /\ queue'[b][n] = queue[b][n]
      <4>1. queue[b] \in Seq(Req) /\ Requests(c, i, b) \in Seq(Req)
        BY <1>1, <1>6
      <4>. QED
        BY <1>8, <3>4, <4>1, JoinIs
    <3>. QED
      BY <3>1, <3>2, <3>3, <3>4, <3>5
  <2>. QED
    BY <2>1, <2>2
<1>16. Queued'
  <2>1. \A b \in Bank : \A n \in DOMAIN queue'[b] :
          /\ queue'[b][n].op \in cu'[queue'[b][n].cu].notReady
          /\ SrcBank(cu'[queue'[b][n].cu].inst, queue'[b][n].op) = b
    BY <1>13
  <2>2. \A b \in Bank : \A m, n \in DOMAIN queue'[b] : queue'[b][m] = queue'[b][n] => m = n
    BY <1>14
  <2>3. \A d \in Cu : \A op \in cu'[d].notReady : \E b \in Bank :
          /\ b = SrcBank(cu'[d].inst, op)
          /\ \E n \in DOMAIN queue'[b] : queue'[b][n] = [cu |-> d, op |-> op]
    BY <1>15
  <2>4. \A d \in Cu : \A op \in cu'[d].notReady : cu'[d].inst # NoInst /\ op \in DOMAIN Prog[cu'[d].inst].src
    BY <1>15
  <2>. QED
    BY <2>1, <2>2, <2>3, <2>4 DEF Queued
<1>. QED
  BY <1>3, <1>5, <1>7, <1>9, <1>16

(* The instruction at the head of its register enters a free unit.         *)
LEMMA AllocateKeeps ==
  ASSUME CollectorInv, AllocateCu
  PROVE  CollectorInv'
<1>1. /\ piece > ReadsPiece
      /\ piece' = (IF piece = LastPiece THEN 1 ELSE piece + 1)
      /\ alloc' = (IF piece = LastPiece THEN [b \in Bank |-> "NO_ALLOC"] ELSE alloc)
      /\ UNCHANGED <<ocEx, lastCu, lastReady, todo, exec>>
  BY DEF AllocateCu
<1>2. /\ piece' \in 1 .. LastPiece
      /\ alloc' \in [Bank -> {"NO_ALLOC", "READ_ALLOC", "WRITE_ALLOC"}]
      /\ piece' <= ReadsPiece => \A b \in Bank : alloc'[b] # "READ_ALLOC"
  <2>1. PICK d, l \in Nat : ReadsPiece = d + 1 /\ LastPiece = d + 1 + l
    BY PiecesAre
  <2>2. piece \in 1 .. LastPiece /\ alloc \in [Bank -> {"NO_ALLOC", "READ_ALLOC", "WRITE_ALLOC"}]
    BY DEF CollectorInv, CollectorTypeOK
  <2>3. CASE piece = LastPiece
    BY <1>1, <2>1, <2>2, <2>3
  <2>4. CASE piece # LastPiece
    <3>1. piece' = piece + 1 /\ alloc' = alloc
      BY <1>1, <2>4
    <3>2. piece' \in 1 .. LastPiece /\ ~(piece' <= ReadsPiece)
      BY <1>1, <2>1, <2>2, <2>4, <3>1
    <3>. QED
      BY <2>2, <3>1, <3>2
  <2>. QED
    BY <2>3, <2>4
<1>3. CASE UNCHANGED <<idOc, cu, queue>>
  <2>1. CollectorTypeOK'
    BY <1>1, <1>2, <1>3 DEF CollectorInv, CollectorTypeOK
  <2>2. Queued' /\ Placed'
    BY <1>1, <1>3 DEF CollectorInv, Queued, Placed
  <2>. QED
    BY <2>1, <2>2 DEF CollectorInv
<1>4. ASSUME NEW q, q = piece - ReadsPiece, NEW p \in Input(q), NEW c \in FreeCu(q), allocate(c, p)
      PROVE  CollectorInv'
  <2>1. q \in DOMAIN Ports
    <3>1. PICK d, l \in Nat : ReadsPiece = d + 1 /\ LastPiece = d + 1 + l /\ l = Len(Ports)
      BY PiecesAre
    <3>2. q \in 1 .. l
      BY <1>1, <1>4, <3>1 DEF CollectorInv, CollectorTypeOK
    <3>. QED
      BY <3>1, <3>2, CollectorAssumption
  <2>2. PICK s \in Seq(Pipe), t \in Seq(DOMAIN CuSets) : Ports[q].in = s /\ Ports[q].sets = t
    <3> DEFINE Port == [in : Seq(Pipe), sets : Seq(DOMAIN CuSets)]
    <3>1. Ports \in Seq(Port)
      BY CollectorAssumption
    <3>2. Port = [in : Seq(Pipe), sets : Seq(DOMAIN CuSets)]
      OBVIOUS
    <3> HIDE DEF Port
    <3>3. PICK x \in Port : x = Ports[q]
      BY <2>1, <3>1
    <3>. QED
      BY <3>2, <3>3
  <2>3. p \in Pipe /\ idOc[p] # <<>>
    BY <1>4, <2>2 DEF Input
  <2>4. c \in Cu /\ cu[c].inst = NoInst
    <3>1. PICK x \in (DOMAIN t) \X (1 .. Cardinality(Cu)) :
            /\ x[2] <= Len(CuSets[t[x[1]]]) /\ c = CuSets[t[x[1]]][x[2]] /\ cu[c].inst = NoInst
      BY <1>4, <2>2 DEF FreeCu
    <3>2. t[x[1]] \in DOMAIN CuSets /\ x[2] \in 1 .. Cardinality(Cu)
      BY <3>1
    <3>3. PICK units \in Seq(Cu) : units = CuSets[t[x[1]]]
      BY <3>2, CollectorAssumption
    <3>4. x[2] \in DOMAIN units
      <4>1. Cardinality(Cu) \in Nat
        BY CollectorAssumption, FS_CardinalityType
      <4>. QED
        BY <3>1, <3>2, <3>3, <4>1
    <3>. QED
      BY <3>1, <3>3, <3>4
  <2>5. idOc \in [Pipe -> Seq(Instr)] /\ \A r \in Pipe : Len(idOc[r]) <= InWidth
    BY DEF CollectorInv, CollectorTypeOK
  <2>6. PICK w \in Seq(Instr) : w = idOc[p] /\ w # <<>>
    BY <2>3, <2>5
  <2>7. PICK i \in Instr : /\ i = Head(w) /\ 1 \in DOMAIN w /\ w[1] = i
    BY <2>6, RestIs
  <2>8. /\ Tail(w) \in Seq(Instr) /\ Len(Tail(w)) = Len(w) - 1
        /\ \A n \in DOMAIN Tail(w) : n \in Nat /\ n + 1 \in DOMAIN w /\ n + 1 # 1 /\ Tail(w)[n] = w[n + 1]
    BY <2>6, RestIs, HeadTailProperties
  <2>9. /\ idOc' = [idOc EXCEPT ![p] = Tail(w)]
        /\ cu' = [cu EXCEPT ![c] = [inst |-> i, notReady |-> DOMAIN Prog[i].src]]
        /\ queue' = [b \in Bank |-> queue[b] \o Requests(c, i, b)]
    BY <1>4, <2>6, <2>7 DEF allocate
  <2>10. /\ cu' \in [Cu -> [inst : Instr \union {NoInst}, notReady : SUBSET Op]]
         /\ cu'[c] = [inst |-> i, notReady |-> DOMAIN Prog[i].src]
         /\ \A d \in Cu : d # c => cu'[d] = cu[d]
         /\ queue' \in [Bank -> Seq([cu : Cu, op : Op])]
         /\ Queued'
    BY <2>4, <2>9, RequestsKeep
  <2>11. cu'[c].inst = i
    BY <2>10
  <2>12. i \notin todo /\ \A d \in Cu : cu[d].inst # i
    BY <2>3, <2>6, <2>7 DEF CollectorInv, Placed
  <2>13. idOc' \in [Pipe -> Seq(Instr)] /\ \A r \in Pipe : Len(idOc'[r]) <= InWidth
    <3>1. Len(w) \in Nat /\ InWidth \in Nat /\ Len(w) <= InWidth
      BY <2>3, <2>5, <2>6, CollectorAssumption
    <3>. QED
      BY <2>3, <2>5, <2>8, <2>9, <3>1
  <2>14. ASSUME NEW d \in Cu, NEW e \in Cu, cu'[d].inst # NoInst, cu'[d].inst = cu'[e].inst
         PROVE  d = e
    <3>1. CASE d = c
      <4>1. e = c
        BY <2>10, <2>11, <2>12, <2>14, <3>1
      <4>. QED
        BY <3>1, <4>1
    <3>2. CASE e = c
      <4>1. d = c
        BY <2>10, <2>11, <2>12, <2>14, <3>2
      <4>. QED
        BY <3>2, <4>1
    <3>3. CASE d # c /\ e # c
      <4>1. cu'[d] = cu[d] /\ cu'[e] = cu[e]
        BY <2>10, <3>3
      <4>2. \A x, y \in Cu : cu[x].inst # NoInst /\ cu[x].inst = cu[y].inst => x = y
        BY DEF CollectorInv, CollectorTypeOK
      <4>. QED
        BY <2>14, <4>1, <4>2
    <3>. QED
      BY <3>1, <3>2, <3>3
  <2>15. CollectorTypeOK'
    BY <1>1, <1>2, <2>10, <2>13, <2>14 DEF CollectorInv, CollectorTypeOK
  <2>16. Placed'
    <3>1. ASSUME NEW r \in Pipe, NEW n \in DOMAIN idOc'[r]
          PROVE  \E m \in DOMAIN idOc[r] : /\ idOc'[r][n] = idOc[r][m] /\ (r = p => m # 1)
                                           /\ n \in Int /\ m = (IF r = p THEN n + 1 ELSE n)
      <4>1. CASE r = p
        <5>1. idOc'[r] = Tail(w)
          BY <2>3, <2>5, <2>9, <4>1
        <5>2. n \in Nat /\ n + 1 \in DOMAIN w /\ n + 1 # 1 /\ Tail(w)[n] = w[n + 1]
          BY <2>8, <3>1, <5>1
        <5>. QED
          BY <2>6, <4>1, <5>1, <5>2
      <4>2. CASE r # p
        <5>1. idOc'[r] = idOc[r]
          BY <2>5, <2>9, <4>2
        <5>2. idOc[r] \in Seq(Instr)
          BY <2>5
        <5>. QED
          BY <3>1, <4>2, <5>1, <5>2
      <4>. QED
        BY <4>1, <4>2
    <3>2. ASSUME NEW r \in Pipe, NEW n \in DOMAIN idOc'[r] PROVE idOc'[r][n] # i
      <4>1. PICK m \in DOMAIN idOc[r] : idOc'[r][n] = idOc[r][m] /\ (r = p => m # 1)
        BY <3>1
      <4>. QED
        BY <2>3, <2>6, <2>7, <4>1 DEF CollectorInv, Placed
    <3>3. ASSUME NEW r \in Pipe, NEW v \in Pipe, NEW m \in DOMAIN idOc'[r], NEW n \in DOMAIN idOc'[v],
                 idOc'[r][m] = idOc'[v][n]
          PROVE  r = v /\ m = n
      <4>1. PICK x \in DOMAIN idOc[r] : idOc'[r][m] = idOc[r][x] /\ m \in Int /\ x = (IF r = p THEN m + 1 ELSE m)
        BY <3>1
      <4>2. PICK y \in DOMAIN idOc[v] : idOc'[v][n] = idOc[v][y] /\ n \in Int /\ y = (IF v = p THEN n + 1 ELSE n)
        BY <3>1
      <4>3. idOc[r][x] = idOc[v][y]
        BY <3>3, <4>1, <4>2
      <4>4. r = v /\ x = y
        BY <4>3 DEF CollectorInv, Placed
      <4>. QED
        BY <4>1, <4>2, <4>4
    <3>4. ASSUME NEW r \in Pipe, NEW n \in DOMAIN idOc'[r]
          PROVE  idOc'[r][n] \notin todo' /\ \A d \in Cu : cu'[d].inst # idOc'[r][n]
      <4>1. PICK m \in DOMAIN idOc[r] : idOc'[r][n] = idOc[r][m]
        BY <3>1
      <4>2. idOc[r][m] \notin todo /\ \A d \in Cu : cu[d].inst # idOc[r][m]
        BY DEF CollectorInv, Placed
      <4>. QED
        BY <1>1, <2>10, <2>11, <3>2, <4>1, <4>2
    <3>5. \A d \in Cu : cu'[d].inst \notin todo'
      BY <1>1, <2>10, <2>11, <2>12 DEF CollectorInv, Placed
    <3>. QED
      BY <3>3, <3>4, <3>5 DEF Placed
  <2>. QED
    BY <2>10, <2>15, <2>16 DEF CollectorInv
<1>. QED
  BY <1>3, <1>4 DEF AllocateCu

(* Every step keeps it.                                                    *)
LEMMA CollectorKeeps == CollectorInv /\ [CollectorNext]_collectorVars => CollectorInv'
<1> SUFFICES ASSUME CollectorInv, [CollectorNext]_collectorVars PROVE CollectorInv'
  OBVIOUS
<1>1. CASE DispatchReady
  BY <1>1, DispatchKeeps
<1>2. CASE allocate_reads
  BY <1>2, ReadsKeep
<1>3. CASE AllocateCu
  BY <1>3, AllocateKeeps
<1>4. ASSUME NEW i \in Instr, Issue(i) PROVE CollectorInv'
  BY <1>4, IssueKeeps
<1>5. ASSUME NEW i \in Instr, writeback(i) PROVE CollectorInv'
  BY <1>5, WritesKeep
<1>6. ASSUME NEW p \in Pipe, TakeFromOc(p) PROVE CollectorInv'
  BY <1>6, TakeKeeps
<1>7. CASE UNCHANGED collectorVars
  <2>1. UNCHANGED <<idOc, ocEx, cu, queue, alloc, lastCu, lastReady, piece, todo, exec>>
    BY <1>7 DEF collectorVars
  <2>2. CollectorTypeOK'
    BY <2>1 DEF CollectorInv, CollectorTypeOK
  <2>3. Queued' /\ Placed'
    BY <2>1 DEF CollectorInv, Queued, Placed
  <2>. QED
    BY <2>2, <2>3 DEF CollectorInv
<1>. QED
  BY <1>1, <1>2, <1>3, <1>4, <1>5, <1>6, <1>7 DEF CollectorNext, step

(* It holds always.                                                        *)
LEMMA CollectorAlways == CollectorSpec => []CollectorInv
<1>1. CollectorInit => CollectorInv
  BY CollectorStarts
<1>2. CollectorInv /\ [CollectorNext]_collectorVars => CollectorInv'
  BY CollectorKeeps
<1>. QED
  BY <1>1, <1>2, PTL DEF CollectorSpec

(* An operand is outstanding exactly when it is queued, once, at the bank  *)
(* of its register, and the loops of arbiter_t::allocate_reads grant what  *)
(* Granted says.                                                           *)
THEOREM ReadsAlwaysHold == CollectorSpec => []ReadsHold
<1>1. CollectorInv => ReadsHold
  BY OutstandingHolds, WavefrontGrants DEF CollectorInv, ReadsHold, GrantedIsWavefront
<1>. QED
  BY <1>1, CollectorAlways, PTL

(* The banks are read in one piece of the step, and only in that one.      *)
LEMMA OnlyReads ==
  ASSUME [CollectorNext]_collectorVars, piece = ReadsPiece
  PROVE  allocate_reads \/ UNCHANGED collectorVars
<1>1. 1 < ReadsPiece
  BY PiecesAre
<1>2. ~AtRest
  BY <1>1 DEF AtRest
<1>3. ~DispatchReady /\ ~AllocateCu
  <2>1. ReadsPiece \in Nat
    BY PiecesAre
  <2>. QED
    BY <2>1 DEF DispatchReady, AllocateCu
<1>. QED
  BY <1>2, <1>3 DEF CollectorNext, step, Issue, writeback, TakeFromOc

(* What a unit is given: the operands that the banks that are granted had  *)
(* first for it.                                                           *)
Given(c) == {Head(queue[b]).op : b \in {d \in Granted : Head(queue[d]).cu = c}}

(* A unit is given at most one operand, and only one it waits for.         *)
LEMMA UnitGets ==
  ASSUME CollectorInv, allocate_reads, NEW c \in Cu
  PROVE  /\ cu'[c].notReady = cu[c].notReady \ Given(c)
         /\ Given(c) \subseteq cu[c].notReady
         /\ \A x, y \in Given(c) : x = y
<1>1. cu'[c] = collect_operand(c, {b \in Granted : Head(queue[b]).cu = c})
  BY DEF allocate_reads
<1>2. cu \in [Cu -> [inst : Instr \union {NoInst}, notReady : SUBSET Op]]
  BY DEF CollectorInv, CollectorTypeOK
<1>3. cu'[c].notReady = cu[c].notReady \ Given(c)
  BY <1>1, <1>2 DEF collect_operand, Given
<1>4. ASSUME NEW x \in Given(c), NEW y \in Given(c) PROVE x = y
  <2>1. PICK b \in Granted : Head(queue[b]).cu = c /\ x = Head(queue[b]).op
    BY DEF Given
  <2>2. PICK d \in Granted : Head(queue[d]).cu = c /\ y = Head(queue[d]).op
    BY DEF Given
  <2>3. b = d
    BY <2>1, <2>2, GrantedOne DEF CollectorInv, AskedOf
  <2>. QED
    BY <2>1, <2>2, <2>3
<1>5. ASSUME NEW x \in Given(c) PROVE x \in cu[c].notReady
  <2>1. PICK b \in Granted : Head(queue[b]).cu = c /\ x = Head(queue[b]).op
    BY DEF Given
  <2>2. b \in Bank /\ queue[b] \in Seq([cu : Cu, op : Op]) /\ queue[b] # <<>>
    BY GrantedOne, AskingIs DEF CollectorInv
  <2>3. 1 \in DOMAIN queue[b] /\ queue[b][1] = Head(queue[b])
    BY <2>2, RestIs
  <2>4. queue[b][1].op \in cu[queue[b][1].cu].notReady
    BY <2>2, <2>3 DEF CollectorInv, Queued
  <2>. QED
    BY <2>1, <2>3, <2>4
<1>. QED
  BY <1>3, <1>4, <1>5

(* What a step does to the banks and to the units.                         *)
LEMMA OnePortStep ==
  CollectorInv /\ [CollectorNext]_collectorVars =>
    [piece = ReadsPiece =>
      /\ \A b \in Bank : Served(b) => queue[b] = <<Head(queue[b])>> \o queue'[b] /\ alloc[b] = "NO_ALLOC"
      /\ \A c \in Cu : Cardinality(cu[c].notReady \ cu'[c].notReady) <= 1]_collectorVars
<1> SUFFICES ASSUME CollectorInv, allocate_reads, piece = ReadsPiece
             PROVE  /\ \A b \in Bank : Served(b) => queue[b] = <<Head(queue[b])>> \o queue'[b] /\ alloc[b] = "NO_ALLOC"
                    /\ \A c \in Cu : Cardinality(cu[c].notReady \ cu'[c].notReady) <= 1
  BY OnlyReads
<1>1. ASSUME NEW b \in Bank, Served(b)
      PROVE  queue[b] = <<Head(queue[b])>> \o queue'[b] /\ alloc[b] = "NO_ALLOC"
  <2>1. queue'[b] = IF b \in Granted THEN Tail(queue[b]) ELSE queue[b]
    BY DEF allocate_reads
  <2>2. b \in Granted /\ queue'[b] = Tail(queue[b])
    BY <1>1, <2>1 DEF Served
  <2>3. b \in Asking /\ queue[b] \in Seq([cu : Cu, op : Op]) /\ queue[b] # <<>>
    BY <2>2, GrantedOne, AskingIs DEF CollectorInv
  <2>4. queue[b] = <<Head(queue[b])>> \o Tail(queue[b])
    BY <2>3
  <2>5. /\ alloc \in [Bank -> {"NO_ALLOC", "READ_ALLOC", "WRITE_ALLOC"}]
        /\ alloc[b] # "READ_ALLOC" /\ alloc[b] # "WRITE_ALLOC"
    <3>1. piece <= ReadsPiece
      BY PiecesAre
    <3>. QED
      BY <2>3, <3>1 DEF CollectorInv, CollectorTypeOK, Asking
  <2>. QED
    BY <2>2, <2>4, <2>5
<1>2. ASSUME NEW c \in Cu PROVE Cardinality(cu[c].notReady \ cu'[c].notReady) <= 1
  <2>1. cu[c].notReady \ cu'[c].notReady = Given(c) /\ \A x, y \in Given(c) : x = y
    BY UnitGets
  <2>2. CASE Given(c) = {}
    BY <2>1, <2>2, FS_EmptySet
  <2>3. CASE Given(c) # {}
    <3>1. PICK x \in Given(c) : TRUE
      BY <2>3
    <3>2. Given(c) = {x}
      BY <2>1, <3>1
    <3>3. Cardinality({x}) = 1
      BY FS_Singleton
    <3>. QED
      BY <2>1, <3>2, <3>3
  <2>. QED
    BY <2>2, <2>3
<1>. QED
  BY <1>1, <1>2

(* In a cycle a bank serves one access, and not one that is being written, *)
(* and a unit is given at most one operand.                                *)
THEOREM OnePortAlways == CollectorSpec => OnePortEach
<1>1. CollectorInv /\ [CollectorNext]_collectorVars =>
    [piece = ReadsPiece =>
      /\ \A b \in Bank : Served(b) => queue[b] = <<Head(queue[b])>> \o queue'[b] /\ alloc[b] = "NO_ALLOC"
      /\ \A c \in Cu : Cardinality(cu[c].notReady \ cu'[c].notReady) <= 1]_collectorVars
  BY OnePortStep
<1>. QED
  BY <1>1, CollectorAlways, PTL DEF CollectorSpec, OnePortEach

(* A step in which a bank could be read gives its unit an operand.         *)
LEMMA NoIdleStep ==
  CollectorInv /\ [CollectorNext]_collectorVars =>
    [piece = ReadsPiece =>
      \A b \in Bank : queue[b] # <<>> /\ alloc[b] = "NO_ALLOC" =>
        cu'[Head(queue[b]).cu].notReady # cu[Head(queue[b]).cu].notReady]_collectorVars
<1> SUFFICES ASSUME CollectorInv, allocate_reads, piece = ReadsPiece,
                    NEW b \in Bank, queue[b] # <<>>, alloc[b] = "NO_ALLOC"
             PROVE  cu'[Head(queue[b]).cu].notReady # cu[Head(queue[b]).cu].notReady
  BY OnlyReads
<1>1. b \in Asking
  BY DEF Asking
<1>2. PICK c \in Cu : c = AskedOf(b)
  BY <1>1, AskingIs DEF CollectorInv
<1>3. PICK d \in Granted : AskedOf(d) = c
  BY <1>1, <1>2, GrantedOne DEF CollectorInv
<1>4. Head(queue[d]).op \in Given(c)
  BY <1>3 DEF Given, AskedOf
<1>5. Head(queue[d]).op \in cu[c].notReady /\ Head(queue[d]).op \notin cu'[c].notReady
  BY <1>4, UnitGets
<1>. QED
  BY <1>2, <1>5 DEF AskedOf

(* A bank that could be read idles only for another that has an operand    *)
(* for the same unit.                                                      *)
THEOREM NoBankIdles == CollectorSpec => NoIdleBank
<1>1. CollectorInv /\ [CollectorNext]_collectorVars =>
    [piece = ReadsPiece =>
      \A b \in Bank : queue[b] # <<>> /\ alloc[b] = "NO_ALLOC" =>
        cu'[Head(queue[b]).cu].notReady # cu[Head(queue[b]).cu].notReady]_collectorVars
  BY NoIdleStep
<1>. QED
  BY <1>1, CollectorAlways, PTL DEF CollectorSpec, NoIdleBank
=============================================================================
