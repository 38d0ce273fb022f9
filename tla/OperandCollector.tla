-------------------------- MODULE OperandCollector --------------------------
(***************************************************************************)
(* The operand collector of a shader core (opndcoll_rfu_t): instructions   *)
(* wait in collector units until the arbiter has read their registers from *)
(* the banks, and go on to the function units.  Results are written to the *)
(* same banks, and writes come first.                                      *)
(*                                                                         *)
(* A pipeline register set hands out the oldest instruction it holds, so   *)
(* it is a FIFO here.  step() is taken in the pieces that it calls:        *)
(* dispatch_ready_cu for one dispatch unit, allocate_reads, allocate_cu    *)
(* for one port.  `piece` is the next one; nothing else runs in between.   *)
(***************************************************************************)
EXTENDS Integers, Sequences, FiniteSets, Functions

CONSTANTS
  Instr,     (* the instructions, each issued once                         *)
  Prog,      (* what they are: pipe, warp, src and dst registers           *)
  Pipe,      (* "SP", "SFU", "MEM": ID_OC_x and OC_EX_x                    *)
  Stallable, (* the pipes whose unit retries a write (the ldst_unit)       *)
  InWidth,   (* instructions that ID_OC_x holds                            *)
  OutWidth,  (* instructions that OC_EX_x holds                            *)
  NumBanks,  (* m_num_banks                                                *)
  CuSets,    (* m_cus: the collector units of each set, in order           *)
  Dispatch,  (* m_dispatch_units: the set that each of them serves         *)
  Ports,     (* m_in_ports: the inputs and the sets of each                *)
  NoInst

Bank == 0 .. NumBanks - 1
Cu   == UNION {Range(CuSets[s]) : s \in DOMAIN CuSets}
Op   == UNION {DOMAIN Prog[i].src : i \in Instr}

Instruction ==
  [pipe : Pipe, warp : Nat, src : Seq(Nat), dst : Seq(Nat)]

(* Each collector unit is in one set.  A core has a dispatch unit and a    *)
(* port at least: without them no instruction would ever be executed.      *)
ASSUME CollectorAssumption ==
  /\ NumBanks \in Nat \ {0} /\ InWidth \in Nat \ {0} /\ OutWidth \in Nat \ {0}
  /\ Prog \in [Instr -> Instruction]
  /\ NoInst \notin Instr
  /\ Stallable \subseteq Pipe
  /\ IsFiniteSet(Cu) /\ Cu = 0 .. Cardinality(Cu) - 1
  /\ \A s \in DOMAIN CuSets : CuSets[s] \in Seq(Cu)
  /\ \A s, t \in DOMAIN CuSets : s # t => Range(CuSets[s]) \cap Range(CuSets[t]) = {}
  /\ Dispatch \in Seq(DOMAIN CuSets) /\ Dispatch # <<>>
  /\ Ports \in Seq([in : Seq(Pipe), sets : Seq(DOMAIN CuSets)]) /\ Ports # <<>>

VARIABLES
  idOc, ocEx,   (* m_pipeline_reg[ID_OC_x], m_pipeline_reg[OC_EX_x]        *)
  cu,           (* the instruction of each unit and its m_not_ready        *)
  queue,        (* m_queue: operands to be read, per bank                  *)
  alloc,        (* m_allocated_bank                                        *)
  lastCu,       (* arbiter_t::m_last_cu                                    *)
  lastReady,    (* dispatch_unit_t::m_last_cu, per dispatch unit           *)
  piece,        (* the next piece of step()                                *)
  todo, exec    (* not issued yet; in a function unit                      *)

collectorVars == <<idOc, ocEx, cu, queue, alloc, lastCu, lastReady, piece, todo, exec>>

FreeUnit == [inst |-> NoInst, notReady |-> {}]

CollectorInit ==
  /\ idOc = [p \in Pipe |-> <<>>] /\ ocEx = [p \in Pipe |-> <<>>]
  /\ cu = [c \in Cu |-> FreeUnit]
  /\ queue = [b \in Bank |-> <<>>]
  /\ alloc = [b \in Bank |-> "NO_ALLOC"]
  /\ lastCu = 0
  /\ lastReady = [d \in DOMAIN Dispatch |-> 0]
  /\ piece = 1
  /\ todo = Instr /\ exec = {}

AtRest == piece = 1
ReadsPiece == Len(Dispatch) + 1
LastPiece  == ReadsPiece + Len(Ports)

register_bank(reg, warp) == (reg + warp) % NumBanks

SrcBank(i, op) == register_bank(Prog[i].src[op], Prog[i].warp)
DstBanks(i) == [n \in DOMAIN Prog[i].dst |-> register_bank(Prog[i].dst[n], Prog[i].warp)]

-----------------------------------------------------------------------------
(* The rest of the core, between two steps.                                *)

(* issue_warp: into ID_OC_x. *)
Issue(i) ==
  LET p == Prog[i].pipe
  IN  /\ AtRest /\ i \in todo /\ Len(idOc[p]) < InWidth
      /\ idOc' = [idOc EXCEPT ![p] = Append(@, i)]
      /\ todo' = todo \ {i}
      /\ UNCHANGED <<ocEx, cu, queue, alloc, lastCu, lastReady, piece, exec>>

(* shader_core_ctx::execute: a function unit takes from OC_EX_x. *)
TakeFromOc(p) ==
  /\ AtRest /\ ocEx[p] # <<>>
  /\ exec' = exec \union {Head(ocEx[p])}
  /\ ocEx' = [ocEx EXCEPT ![p] = Tail(@)]
  /\ UNCHANGED <<idOc, cu, queue, alloc, lastCu, lastReady, piece, todo>>

(* How many of the registers writeback gets through: up to the first whose *)
(* bank is not idle, be it by this very instruction.                       *)
Written(banks) ==
  CHOOSE n \in 0 .. Len(banks) :
    LET Idle(m) == alloc[banks[m]] = "NO_ALLOC" /\ \A k \in 1 .. m - 1 : banks[k] # banks[m]
    IN  (\A m \in 1 .. n : Idle(m)) /\ (n < Len(banks) => ~Idle(n + 1))

(* opndcoll_rfu_t::writeback.  The pipelines ignore a failure, the         *)
(* ldst_unit tries again in the next cycle.                                *)
writeback(i) ==
  LET banks == DstBanks(i)
      n     == Written(banks)
  IN  /\ AtRest /\ i \in exec
      /\ alloc' = [b \in Bank |-> IF \E m \in 1 .. n : banks[m] = b THEN "WRITE_ALLOC" ELSE alloc[b]]
      /\ exec' = IF n < Len(banks) /\ Prog[i].pipe \in Stallable THEN exec ELSE exec \ {i}
      /\ UNCHANGED <<idOc, ocEx, cu, queue, lastCu, lastReady, piece, todo>>

-----------------------------------------------------------------------------
(* dispatch_ready_cu *)

(* collector_unit_t::ready *)
Ready(c) ==
  /\ cu[c].inst # NoInst
  /\ cu[c].notReady = {}
  /\ Len(ocEx[Prog[cu[c].inst].pipe]) < OutWidth

(* Faulty: the search ends before it is back at the last one dispatched.   *)
find_ready_SkipsLast(d) ==
  LET units == CuSets[Dispatch[d]]
      N     == Len(units)
      At(n) == (lastReady[d] + n) % N
      hit   == {n \in 1 .. N - 1 : Ready(units[At(n) + 1])}
  IN  {At(n) : n \in {m \in hit : \A k \in hit : m <= k}}

(* The position in its set of the next ready unit, round robin: a set of   *)
(* at most one.                                                            *)
find_ready(d) ==
  LET units == CuSets[Dispatch[d]]
      N     == Len(units)
      At(n) == (lastReady[d] + n) % N
      hit   == {n \in 1 .. N : Ready(units[At(n) + 1])}
  IN  {At(n) : n \in {m \in hit : \A k \in hit : m <= k}}

dispatch_cu(c) ==
  /\ ocEx' = [ocEx EXCEPT ![Prog[cu[c].inst].pipe] = Append(@, cu[c].inst)]
  /\ cu' = [cu EXCEPT ![c] = FreeUnit]

DispatchReady ==
  /\ piece < ReadsPiece
  /\ piece' = piece + 1
  /\ IF find_ready(piece) = {}
     THEN UNCHANGED <<ocEx, cu, lastReady>>
     ELSE \E at \in find_ready(piece) :
            /\ dispatch_cu(CuSets[Dispatch[piece]][at + 1])
            /\ lastReady' = [lastReady EXCEPT ![piece] = at]
  /\ UNCHANGED <<idOc, queue, alloc, lastCu, todo, exec>>

-----------------------------------------------------------------------------
(* allocate_reads *)

(* The request matrix made square.  With more banks than units the loops   *)
(* come to outputs that do not exist: "output < _outputs" is asserted, and *)
(* tested again for a build without assertions, which is the one here.     *)
Square == IF NumBanks > Cardinality(Cu) THEN NumBanks ELSE Cardinality(Cu)

(* The diagonal of the request matrix that bank b asks for c on, counted   *)
(* from the one with priority.                                             *)
Diagonal(b, c) == (c - b - lastCu) % Square

Asking == {b \in Bank : queue[b] # <<>> /\ alloc[b] # "WRITE_ALLOC"}

(* Faulty: a unit is given all it asks for. *)
Granted_EveryBank == Asking

(* Faulty: a bank that is being written is met and passed over. *)
Granted_WrittenMet ==
  {b \in Asking : \A d \in {e \in Bank : queue[e] # <<>>} :
     Head(queue[d]).cu = Head(queue[b]).cu =>
       Diagonal(b, Head(queue[b]).cu) <= Diagonal(d, Head(queue[d]).cu)}

(* The wavefront allocator of arbiter_t::allocate_reads.  A bank asks for  *)
(* one unit only, so the first to be met for a unit is the one it gets.    *)
Granted ==
  {b \in Asking : \A d \in Asking :
     Head(queue[d]).cu = Head(queue[b]).cu =>
       Diagonal(b, Head(queue[b]).cu) <= Diagonal(d, Head(queue[d]).cu)}

collect_operand(c, banks) ==
  [cu[c] EXCEPT !.notReady = @ \ {Head(queue[b]).op : b \in banks}]

allocate_reads ==
  /\ piece = ReadsPiece
  /\ piece' = piece + 1
  /\ \E G \in {Granted} :
       /\ queue' = [b \in Bank |-> IF b \in G THEN Tail(queue[b]) ELSE queue[b]]
       /\ alloc' = [b \in Bank |-> IF b \in G THEN "READ_ALLOC" ELSE alloc[b]]
       /\ cu' = [c \in Cu |-> collect_operand(c, {b \in G : Head(queue[b]).cu = c})]
  /\ lastCu' = (lastCu + 1) % Square
  /\ UNCHANGED <<idOc, ocEx, lastReady, todo, exec>>

-----------------------------------------------------------------------------
(* allocate_cu *)

(* The first input of the port that has an instruction ("can only service  *)
(* a single input"), and the first free unit of the first set with one.    *)
Input(q) ==
  LET ready == {n \in DOMAIN Ports[q].in : idOc[Ports[q].in[n]] # <<>>}
  IN  {Ports[q].in[n] : n \in {m \in ready : \A k \in ready : m <= k}}

FreeCu(q) ==
  LET set(x)  == CuSets[Ports[q].sets[x[1]]]
      unit(x) == set(x)[x[2]]
      free == {x \in (DOMAIN Ports[q].sets) \X (1 .. Cardinality(Cu)) :
                 x[2] <= Len(set(x)) /\ cu[unit(x)].inst = NoInst}
      Before(x, y) == x[1] < y[1] \/ (x[1] = y[1] /\ x[2] <= y[2])
  IN  {unit(x) : x \in {y \in free : \A z \in free : Before(y, z)}}

Operands(i, b) == {op \in DOMAIN Prog[i].src : SrcBank(i, op) = b}

(* Faulty: only the first of the operands in a bank is asked for. *)
Requests_OnePerBank(c, i, b) ==
  [n \in {k \in {1} : Operands(i, b) # {}} |->
    [cu |-> c, op |-> CHOOSE op \in Operands(i, b) : \A o \in Operands(i, b) : op <= o]]

(* arbiter_t::add_read_requests: what unit c asks of bank b, operand by    *)
(* operand; the nth is the one that n - 1 come before.                     *)
Requests(c, i, b) ==
  [n \in 1 .. Cardinality(Operands(i, b)) |->
    [cu |-> c, op |-> CHOOSE op \in Operands(i, b) :
                        Cardinality({o \in Operands(i, b) : o < op}) = n - 1]]

allocate(c, p) ==
  LET i == Head(idOc[p])
  IN  /\ idOc' = [idOc EXCEPT ![p] = Tail(@)]
      /\ cu' = [cu EXCEPT ![c] = [inst |-> i, notReady |-> DOMAIN Prog[i].src]]
      /\ queue' = [b \in Bank |-> queue[b] \o Requests(c, i, b)]

(* The last port is followed by process_banks, which frees the banks.      *)
AllocateCu ==
  /\ piece > ReadsPiece
  /\ LET q == piece - ReadsPiece
     IN  IF Input(q) = {} \/ FreeCu(q) = {}
         THEN UNCHANGED <<idOc, cu, queue>>
         ELSE \E p \in Input(q), c \in FreeCu(q) : allocate(c, p)
  /\ piece' = IF piece = LastPiece THEN 1 ELSE piece + 1
  /\ alloc' = IF piece = LastPiece THEN [b \in Bank |-> "NO_ALLOC"] ELSE alloc
  /\ UNCHANGED <<ocEx, lastCu, lastReady, todo, exec>>

step == DispatchReady \/ allocate_reads \/ AllocateCu

CollectorNext ==
  \/ step
  \/ \E i \in Instr : Issue(i) \/ writeback(i)
  \/ \E p \in Pipe : TakeFromOc(p)

(* Every cycle of the core runs a step, the function units and writeback.  *)
(* The last two only run between steps, hence strong fairness.             *)
CollectorFairness ==
  /\ WF_collectorVars(step)
  /\ \A p \in Pipe : SF_collectorVars(TakeFromOc(p))
  /\ \A i \in Instr : SF_collectorVars(writeback(i))

CollectorSpec == CollectorInit /\ [][CollectorNext]_collectorVars /\ CollectorFairness

-----------------------------------------------------------------------------
(* Each instruction is in one unit, and banks are claimed by reads only in *)
(* the course of a step.                                                   *)
CollectorTypeOK ==
  /\ idOc \in [Pipe -> Seq(Instr)] /\ \A p \in Pipe : Len(idOc[p]) <= InWidth
  /\ ocEx \in [Pipe -> Seq(Instr)] /\ \A p \in Pipe : Len(ocEx[p]) <= OutWidth
  /\ cu \in [Cu -> [inst : Instr \union {NoInst}, notReady : SUBSET Op]]
  /\ queue \in [Bank -> Seq([cu : Cu, op : Op])]
  /\ alloc \in [Bank -> {"NO_ALLOC", "READ_ALLOC", "WRITE_ALLOC"}]
  /\ piece <= ReadsPiece => \A b \in Bank : alloc[b] # "READ_ALLOC"
  /\ lastCu \in 0 .. Square - 1
  /\ lastReady \in [DOMAIN Dispatch -> Nat]
  /\ piece \in 1 .. LastPiece
  /\ todo \subseteq Instr /\ exec \subseteq Instr
  /\ \A c, d \in Cu : cu[c].inst # NoInst /\ cu[c].inst = cu[d].inst => c = d

(* An operand is outstanding exactly when it is queued, once, at the bank  *)
(* of its register: none is waited for that nobody reads, and a unit that  *)
(* is dispatched or free leaves no request behind for the next instruction *)
(* (the assertions of allocate and dispatch, "m_not_ready.none()").        *)
OutstandingIsQueued ==
  \A c \in Cu, op \in Op, b \in Bank :
    Cardinality({n \in DOMAIN queue[b] : queue[b][n] = [cu |-> c, op |-> op]})
      = IF op \in cu[c].notReady /\ b = SrcBank(cu[c].inst, op) THEN 1 ELSE 0

(* The wavefront allocator as its loops go: over the diagonals, from the   *)
(* one with priority on, and along each over the banks.  M are the banks   *)
(* and units matched so far, bank b is met on diagonal p.                  *)
Match(M, p, b) ==
  LET c == (lastCu + p + b) % Square
  IN  IF /\ c \in Cu /\ b \in Asking
         /\ \A m \in M : m[1] # b /\ m[2] # c
         /\ Head(queue[b]).cu = c
      THEN M \union {<<b, c>>} ELSE M

Wavefront ==
  LET walk[n \in 0 .. Square * NumBanks] ==
        IF n = 0 THEN {}
        ELSE Match(walk[n - 1], (n - 1) \div NumBanks, (n - 1) % NumBanks)
  IN  {m[1] : m \in walk[Square * NumBanks]}

(* The loops grant what Granted says. *)
GrantedIsWavefront == piece = ReadsPiece => Granted = Wavefront

(* What is asked of the banks, and what they are made to give.             *)
ReadsHold == CollectorTypeOK /\ OutstandingIsQueued /\ GrantedIsWavefront

(* "a list of registers that (a) are in different register banks, (b) do   *)
(* not go to the same operand collector", "write gets priority": in a      *)
(* cycle a bank serves one access and a unit is given one operand.         *)
Served(b) == queue'[b] # queue[b]
OnePortEach ==
  [][piece = ReadsPiece =>
      /\ \A b \in Bank : Served(b) => queue[b] = <<Head(queue[b])>> \o queue'[b] /\ alloc[b] = "NO_ALLOC"
      /\ \A c \in Cu : Cardinality(cu[c].notReady \ cu'[c].notReady) <= 1]_collectorVars

(* No bank that could be read idles: the unit that its first operand is    *)
(* for is given another one.                                               *)
NoIdleBank ==
  [][piece = ReadsPiece =>
      \A b \in Bank : queue[b] # <<>> /\ alloc[b] = "NO_ALLOC" =>
        cu'[Head(queue[b]).cu].notReady # cu[Head(queue[b]).cu].notReady]_collectorVars

(* Every instruction that is issued gets its operands, its unit and its    *)
(* write: no unit, bank or port waits for ever.                            *)
EveryInstEnds ==
  \A i \in Instr : i \notin todo ~>
    /\ i \notin todo \union exec
    /\ \A c \in Cu : cu[c].inst # i
    /\ \A p \in Pipe : i \notin Range(idOc[p]) \union Range(ocEx[p])

=============================================================================
