------------------------------- MODULE LdstUnit -------------------------------
(***************************************************************************)
(* The load/store unit of a shader core (ldst_unit) with what its warps    *)
(* keep of it: the registers that the scoreboard reserves, the stores and  *)
(* atomics that are out, the instructions in the pipeline.                 *)
(*                                                                         *)
(* The accesses of an instruction are equal, so its identity stands for    *)
(* each of them on their way.  A cache decides freely between its answers; *)
(* HIT_RESERVED is a MISS whose data come with somebody else's.  cycle()   *)
(* is taken in the pieces it is made of; `piece` is the next one.          *)
(***************************************************************************)
EXTENDS Integers, Sequences, FiniteSets

CONSTANTS
  Warp, Reg,
  Programs,     (* what the warps may run: a sequence of memory            *)
                (* instructions each                                       *)
  ResponseSize, (* ldst_unit_response_queue_size                           *)
  None

Instruction ==
  [op : {"load", "store", "atomic", "membar"},
   space : {"shared", "tex", "const", "global"},
   bypass : BOOLEAN,  (* CACHE_GLOBAL, gmem_skip_L1D or no L1D             *)
   n : Nat,           (* the accesses, one thread each; for shared memory  *)
                      (* the threads, and the cycles of its bank conflicts *)
   dst : SUBSET Reg, src : SUBSET Reg]

(* Atomics are not given to the L1D; only loads have a destination, and    *)
(* only a reduction has none; textures and constants are only read.        *)
MayRun(I) ==
  /\ I.op = "atomic" => I.space = "shared" \/ (I.space = "global" /\ I.bypass)
  /\ I.op = "load" => I.dst # {}
  /\ I.op \in {"store", "membar"} => I.dst = {} /\ I.space \in {"shared", "global"}
  /\ I.op = "membar" => I.n = 0

ASSUME LdstAssumption ==
  /\ ResponseSize \in Nat \ {0}
  /\ \A p \in Programs, w \in Warp :
       p[w] \in Seq(Instruction) /\ \A k \in DOMAIN p[w] : MayRun(p[w][k])
  /\ IsFiniteSet(Warp)
  /\ None \notin Warp \X Nat

VARIABLES
  prog,        (* the one of Programs that is run                          *)
  pc, exited, retired, (* next instruction; functional_done; done_exit     *)
  collected,  (* in the operand collector                                  *)
  dispatch,   (* m_dispatch_reg and the accesses or cycles it has left     *)
  pipe,       (* m_pipeline_reg                                            *)
  mem,        (* the requests of each instruction that are out             *)
  fifo,       (* m_response_fifo                                           *)
  ready,      (* answers of m_L1T, m_L1C, m_L1D: access_ready              *)
  nextGlobal, nextWb, arb, (* m_next_global, m_next_wb, m_writeback_arb    *)
  pending,    (* m_pending_writes                                          *)
  reserved,   (* the scoreboard: Scoreboard::reg_table                     *)
  stores, atomics, inPipe, (* m_stores_outstanding, m_n_atomic,            *)
                           (* m_inst_in_pipeline                           *)
  membar,     (* m_membar                                                  *)
  piece

warpVars == <<prog, pc, exited, retired, collected, membar>>
cacheVars == <<mem, fifo, ready, nextGlobal>>
wbVars == <<nextWb, arb>>
counts == <<pending, reserved, stores, atomics, inPipe>>
ldstVars == <<warpVars, cacheVars, wbVars, counts, dispatch, pipe, piece>>

(* The instructions, by their warp and their place. *)
Inst == UNION {{w} \X DOMAIN prog[w] : w \in Warp}
P(i) == prog[i[1]][i[2]]
is_load(i) == P(i).op \in {"load", "atomic"}
Stage == 0 .. 2

(* The writeback clients, in the order of the switch. *)
Client == 0 .. 4
Cache == [tex |-> 1, const |-> 2, L1D |-> 4]
CacheOf(i) == IF P(i).space \in {"tex", "const"} THEN P(i).space ELSE "L1D"

LdstInit ==
  /\ prog \in Programs
  /\ pc = [w \in Warp |-> 1]
  /\ exited = {} /\ retired = {} /\ collected = {}
  /\ dispatch = [inst |-> None, left |-> 0]
  /\ pipe = [s \in Stage |-> None]
  /\ mem = [i \in Inst |-> 0]
  /\ fifo = <<>>
  /\ ready = [c \in DOMAIN Cache |-> <<>>]
  /\ nextGlobal = None /\ nextWb = None /\ arb = 0
  /\ pending = [w \in Warp |-> [r \in Reg |-> 0]]
  /\ reserved = [w \in Warp |-> {}]
  /\ stores = [w \in Warp |-> 0] /\ atomics = [w \in Warp |-> 0] /\ inPipe = [w \in Warp |-> 0]
  /\ membar = [w \in Warp |-> FALSE]
  /\ piece = 1

AtRest == piece = 1

-----------------------------------------------------------------------------
(* The warps, between two cycles of the unit.                              *)

(* shd_warp_t::waiting; the membar is cleared when it is met with no       *)
(* register pending, here with the next issue.                             *)
waiting(w) == w \in exited \/ (membar[w] /\ reserved[w] # {}) \/ atomics[w] > 0

(* shader_core_ctx::issue_warp, once the scoreboard sees no collision. *)
Issue(w) ==
  /\ AtRest /\ ~waiting(w) /\ pc[w] <= Len(prog[w])
  /\ LET i == <<w, pc[w]>>
     IN  /\ (P(i).dst \union P(i).src) \cap reserved[w] = {}
         /\ collected' = collected \union {i}
         /\ reserved' = [reserved EXCEPT ![w] = @ \union P(i).dst]
         /\ membar' = [membar EXCEPT ![w] = P(i).op = "membar"]
         /\ atomics' = [atomics EXCEPT ![w] = @ + (IF P(i).op = "atomic" THEN P(i).n ELSE 0)]
  /\ pc' = [pc EXCEPT ![w] = @ + 1]
  /\ inPipe' = [inPipe EXCEPT ![w] = @ + 1]
  /\ UNCHANGED <<prog, exited, retired, dispatch, pipe, cacheVars, wbVars, pending, stores, piece>>

(* The exit instruction: the threads are done as soon as it is issued. *)
Exit(w) ==
  /\ AtRest /\ ~waiting(w) /\ pc[w] > Len(prog[w])
  /\ exited' = exited \union {w}
  /\ UNCHANGED <<prog, pc, retired, collected, membar, dispatch, pipe, cacheVars, wbVars, counts, piece>>

(* Faulty: stores that are out are not waited for. *)
HardwareDone_StoresIgnored(w) == w \in exited /\ inPipe[w] = 0 /\ reserved[w] = {}

(* hardware_done, and no write pending in the scoreboard. *)
HardwareDone(w) == w \in exited /\ stores[w] = 0 /\ inPipe[w] = 0 /\ reserved[w] = {}

(* fetch: the warp is reclaimed. *)
Retire(w) ==
  /\ AtRest /\ HardwareDone(w) /\ w \notin retired
  /\ retired' = retired \union {w}
  /\ UNCHANGED <<prog, pc, exited, collected, membar, dispatch, pipe, cacheVars, wbVars, counts, piece>>

(* ldst_unit::issue, from the operand collector. *)
Enter(i) ==
  /\ AtRest /\ i \in collected /\ dispatch.inst = None
  /\ collected' = collected \ {i}
  /\ dispatch' = [inst |-> i, left |-> P(i).n]
  /\ pending' = [pending EXCEPT ![i[1]] = [r \in Reg |->
                   @[r] + IF is_load(i) /\ P(i).space # "shared" /\ r \in P(i).dst THEN P(i).n ELSE 0]]
  /\ UNCHANGED <<prog, pc, exited, retired, membar, pipe, cacheVars, wbVars,
                 reserved, stores, atomics, inPipe, piece>>

(* The memory answers, in any order, if the response FIFO has room. *)
Answer(i) ==
  /\ AtRest /\ mem[i] > 0 /\ Len(fifo) < ResponseSize
  /\ mem' = [mem EXCEPT ![i] = @ - 1]
  /\ fifo' = Append(fifo, i)
  /\ UNCHANGED <<warpVars, dispatch, pipe, ready, nextGlobal, wbVars, counts, piece>>

-----------------------------------------------------------------------------
(* writeback *)

(* Faulty: the first access that comes back releases the registers. *)
Released_AtFirst(i) == P(i).dst

(* The registers that no further access of their load will write. *)
Released(i) ==
  IF P(i).space = "shared" THEN P(i).dst ELSE {r \in P(i).dst : pending[i[1]][r] = 1}

CountedDown(i) ==
  [pending EXCEPT ![i[1]] = [r \in Reg |-> IF r \in P(i).dst THEN @[r] - 1 ELSE @[r]]]

WroteBack ==
  /\ nextWb # None
  /\ reserved' = [reserved EXCEPT ![nextWb[1]] = @ \ Released(nextWb)]
  /\ pending' = IF P(nextWb).space = "shared" THEN pending ELSE CountedDown(nextWb)
  /\ nextWb' = None

(* opndcoll_rfu_t::writeback says whether the banks were free. *)
WriteOut ==
  /\ piece = 1 /\ piece' = 2
  /\ \/ WroteBack
     \/ /\ nextWb # None => P(nextWb).dst # {}
        /\ UNCHANGED <<nextWb, reserved, pending>>
  /\ UNCHANGED <<warpVars, cacheVars, arb, stores, atomics, inPipe, dispatch, pipe>>

(* What each client has for the writeback. *)
Offer(c) ==
  CASE c = 0 -> pipe[0]
    [] c = 1 -> IF ready.tex = <<>> THEN None ELSE Head(ready.tex)
    [] c = 2 -> IF ready.const = <<>> THEN None ELSE Head(ready.const)
    [] c = 3 -> nextGlobal
    [] c = 4 -> IF ready.L1D = <<>> THEN None ELSE Head(ready.L1D)

Offering == {c \in Client : Offer(c) # None}

(* Faulty: four clients, the L1D is never asked. *)
Served_Four ==
  LET turn == {n \in 0 .. 3 : (n + arb) % 4 \in Offering}
  IN  {(n + arb) % 4 : n \in {m \in turn : \A k \in turn : m <= k}}

(* The client served: a set of at most one. *)
Served ==
  LET turn == {n \in 0 .. 4 : (n + arb) % 5 \in Offering}
  IN  {(n + arb) % 5 : n \in {m \in turn : \A k \in turn : m <= k}}

NextArb(c) == (c + 1) % 5

(* Faulty: an atomic of shared memory is not taken off its warp. *)
AtomicsDone_NotShared(c, i) ==
  IF c = 3 /\ P(i).op = "atomic" THEN [atomics EXCEPT ![i[1]] = @ - 1] ELSE atomics

AtomicsDone(c, i) ==
  IF P(i).op # "atomic" THEN atomics
  ELSE [atomics EXCEPT ![i[1]] = @ - (CASE c = 0 -> P(i).n [] c = 3 -> 1 [] OTHER -> 0)]

Serve(c) ==
  /\ nextWb' = Offer(c)
  /\ arb' = NextArb(c)
  /\ atomics' = AtomicsDone(c, Offer(c))
  /\ inPipe' = IF c = 0 THEN [inPipe EXCEPT ![Offer(c)[1]] = @ - 1] ELSE inPipe
  /\ pipe' = IF c = 0 THEN [pipe EXCEPT ![0] = None] ELSE pipe
  /\ nextGlobal' = IF c = 3 THEN None ELSE nextGlobal
  /\ ready' = [d \in DOMAIN Cache |-> IF Cache[d] = c THEN Tail(ready[d]) ELSE ready[d]]

Arbitrate ==
  /\ piece = 2 /\ piece' = 3
  /\ IF nextWb # None \/ Served = {}
     THEN UNCHANGED <<nextWb, arb, atomics, inPipe, pipe, nextGlobal, ready>>
     ELSE \E c \in Served : Serve(c)
  /\ UNCHANGED <<warpVars, mem, fifo, pending, reserved, stores, dispatch>>

-----------------------------------------------------------------------------
(* The rest of cycle() *)

(* The stages of the pipeline from the first: a stage moves on if the one  *)
(* before is, by now, empty.                                               *)
Shift ==
  /\ piece = 3 /\ piece' = 4
  /\ pipe' = IF pipe[0] = None THEN [s \in Stage |-> IF s = 2 THEN None ELSE pipe[s + 1]]
             ELSE IF pipe[1] = None THEN [pipe EXCEPT ![1] = pipe[2], ![2] = None]
             ELSE pipe
  /\ UNCHANGED <<warpVars, cacheVars, wbVars, counts, dispatch>>

(* The front of the response FIFO goes to its cache, if its fill port is   *)
(* free, to the warp, or to the buffer of the accesses that bypass.        *)
Respond ==
  /\ piece = 4 /\ piece' = 5
  /\ \/ /\ fifo # <<>>
        /\ LET i == Head(fifo)
           IN  /\ fifo' = Tail(fifo)
               /\ IF P(i).op = "store"
                  THEN /\ stores' = [stores EXCEPT ![i[1]] = @ - 1]
                       /\ UNCHANGED <<nextGlobal, ready>>
                  ELSE IF P(i).bypass
                  THEN /\ nextGlobal = None /\ nextGlobal' = i
                       /\ UNCHANGED <<stores, ready>>
                  ELSE /\ ready' = [ready EXCEPT ![CacheOf(i)] = Append(@, i)]
                       /\ UNCHANGED <<stores, nextGlobal>>
     \/ /\ fifo # <<>> => /\ P(Head(fifo)).op # "store"
                           /\ P(Head(fifo)).bypass => nextGlobal # None
        /\ UNCHANGED <<fifo, stores, nextGlobal, ready>>
  /\ UNCHANGED <<warpVars, mem, wbVars, pending, reserved, atomics, inPipe, dispatch, pipe>>

(* A request leaves: inc_store_req, if it is a write. *)
Sent(i) ==
  /\ mem' = [mem EXCEPT ![i] = @ + 1]
  /\ stores' = IF P(i).op = "store" THEN [stores EXCEPT ![i[1]] = @ + 1] ELSE stores
  /\ UNCHANGED <<pending, ready>>

(* process_cache_access, HIT: nothing will come back.  The texture cache   *)
(* says HIT_RESERVED and delivers.                                         *)
Hit(i) ==
  /\ IF P(i).space = "tex"
     THEN /\ ready' = [ready EXCEPT !.tex = Append(@, i)]
          /\ UNCHANGED pending
     ELSE /\ pending' = CountedDown(i)
          /\ UNCHANGED ready
  /\ UNCHANGED <<mem, stores>>

(* The end of cycle() for an instruction whose accesses are all made, with *)
(* what is pending by now.                                                 *)
Leave(i, pend) ==
  /\ dispatch' = [inst |-> None, left |-> 0]
  /\ inPipe' = [inPipe EXCEPT ![i[1]] = @ - 1]
  /\ reserved' = IF is_load(i) /\ (\A r \in P(i).dst : pend[i[1]][r] = 0)
                 THEN [reserved EXCEPT ![i[1]] = @ \ P(i).dst]
                 ELSE reserved
  /\ UNCHANGED pipe

AccessMade(i) ==
  IF dispatch.left = 1 THEN Leave(i, pending')
  ELSE /\ dispatch' = [dispatch EXCEPT !.left = @ - 1]
       /\ UNCHANGED <<inPipe, reserved, pipe>>

(* memory_cycle, constant_cycle, texture_cycle: one access goes out, or it *)
(* is done with in the cache.  A store that hits goes out all the same     *)
(* under write-through and write-evict, and stays under write-back.        *)
MakeAccess ==
  /\ dispatch.inst # None /\ dispatch.left > 0 /\ P(dispatch.inst).space # "shared"
  /\ LET i == dispatch.inst
     IN  \/ Sent(i) /\ AccessMade(i)
         \/ ~P(i).bypass /\ Hit(i) /\ AccessMade(i)

(* RESERVATION_FAIL, no data port, the interconnect is full. *)
Stall ==
  /\ dispatch.inst # None /\ dispatch.left > 0 /\ P(dispatch.inst).space # "shared"
  /\ UNCHANGED <<dispatch, pipe, inPipe, reserved, pending, mem, stores, ready>>

(* shared_cycle: the cycles of the bank conflicts go by, then a load waits *)
(* for the pipeline.                                                       *)
SharedAccess ==
  /\ dispatch.inst # None /\ P(dispatch.inst).space = "shared"
  /\ UNCHANGED <<pending, mem, stores, ready>>
  /\ LET i == dispatch.inst
     IN  IF dispatch.left > 1
         THEN /\ dispatch' = [dispatch EXCEPT !.left = @ - 1]
              /\ UNCHANGED <<pipe, inPipe, reserved>>
         ELSE IF ~is_load(i) THEN Leave(i, pending)
         ELSE IF pipe[2] = None
         THEN /\ pipe' = [pipe EXCEPT ![2] = i]
              /\ dispatch' = [inst |-> None, left |-> 0]
              /\ UNCHANGED <<inPipe, reserved>>
         ELSE UNCHANGED <<dispatch, pipe, inPipe, reserved>>

(* No accesses: a memory barrier, or no thread is active. *)
NoAccess ==
  /\ dispatch.inst # None => dispatch.left = 0 /\ P(dispatch.inst).space # "shared"
  /\ UNCHANGED <<pending, mem, stores, ready>>
  /\ IF dispatch.inst = None
     THEN UNCHANGED <<dispatch, pipe, inPipe, reserved>>
     ELSE Leave(dispatch.inst, pending)

DispatchReg ==
  /\ piece = 5 /\ piece' = 1
  /\ MakeAccess \/ Stall \/ SharedAccess \/ NoAccess
  /\ UNCHANGED <<warpVars, fifo, nextGlobal, wbVars, atomics>>

ldst_cycle == WriteOut \/ Arbitrate \/ Shift \/ Respond \/ DispatchReg

Outside ==
  \/ \E w \in Warp : Issue(w) \/ Exit(w) \/ Retire(w)
  \/ \E i \in Inst : Enter(i) \/ Answer(i)

LdstNext == ldst_cycle \/ Outside

(* The core calls cycle() for ever.  The warps, the collector and the      *)
(* memory have their turn between two of them, and a write or an access    *)
(* that is retried, or a fill, gets through at last.                       *)
LdstFairness ==
  /\ WF_ldstVars(ldst_cycle)
  /\ SF_ldstVars(WriteOut /\ WroteBack)
  /\ SF_ldstVars(DispatchReg /\ MakeAccess)
  /\ SF_ldstVars(Respond /\ fifo' # fifo)
  /\ SF_ldstVars(Outside)

LdstSpec == LdstInit /\ [][LdstNext]_ldstVars /\ LdstFairness

-----------------------------------------------------------------------------
(* The sum of f over S, as the number of things that f[i] counts of each i.*)
Total(f, S) == Cardinality(UNION {{i} \X (1 .. f[i]) : i \in S})

InSeq(s, i) == Cardinality({n \in DOMAIN s : s[n] = i})

(* The accesses of i that wait for the memory or for the writeback, and    *)
(* with the one that is written back.                                      *)
Away(i) ==
  mem[i] + InSeq(fifo, i) + (IF nextGlobal = i THEN 1 ELSE 0)
    + InSeq(ready.tex, i) + InSeq(ready.const, i) + InSeq(ready.L1D, i)
InFlight(i) == Away(i) + (IF nextWb = i THEN 1 ELSE 0)

(* Those of i that are still to be made, if it is at the dispatch register.*)
Left(i) == IF dispatch.inst = i THEN dispatch.left ELSE 0

InUnit(i) == dispatch.inst = i \/ \E s \in Stage : pipe[s] = i

LdstTypeOK ==
  /\ pc \in [Warp -> Nat] /\ retired \subseteq exited
  /\ collected \subseteq Inst
  /\ dispatch \in [inst : Inst \union {None}, left : Nat]
  /\ pipe \in [Stage -> Inst \union {None}]
  /\ mem \in [Inst -> Nat] /\ Len(fifo) <= ResponseSize
  /\ {nextGlobal, nextWb} \subseteq Inst \union {None}
  /\ arb \in Client /\ piece \in 1 .. 5
  /\ \A w \in Warp : pending[w] \in [Reg -> Nat] /\ reserved[w] \subseteq Reg
  /\ \A w \in Warp : {stores[w], atomics[w], inPipe[w]} \subseteq Nat

(* m_pending_writes counts the accesses of the loads of a register that    *)
(* are still to be made or to be written, neither more nor less, whatever  *)
(* mixture of hits, misses and stalls their instruction met.               *)
PendingExact ==
  \A w \in Warp, r \in Reg :
    pending[w][r] =
      Total([i \in Inst |-> InFlight(i) + Left(i)],
            {i \in Inst : i[1] = w /\ is_load(i) /\ P(i).space # "shared" /\ r \in P(i).dst})

(* A register is reserved as long as a load of it is on its way, up to its *)
(* last access, and no longer: no instruction reads it too soon, none      *)
(* waits for ever.                                                         *)
ReleasedWhenBack ==
  \A w \in Warp, r \in Reg :
    r \in reserved[w] <=>
      \E i \in Inst : /\ i[1] = w /\ r \in P(i).dst
                      /\ i \in collected \/ InUnit(i) \/ InFlight(i) > 0

(* What is out of an atomic: its threads up to the end of the pipeline, or *)
(* its accesses, which are counted off when they enter the writeback.      *)
AtomicsOut(i) ==
  IF P(i).space = "shared" \/ i \in collected
  THEN (IF i \in collected \/ InUnit(i) THEN P(i).n ELSE 0)
  ELSE Away(i) + Left(i)

(* The stores and atomics that a warp believes to be out, and its          *)
(* instructions in the unit, are those that are ("assert(                  *)
(* m_stores_outstanding > 0 )", "assert( m_warp[wid].get_n_atomic() >= n)").*)
Counted ==
  \A w \in Warp :
    LET mine == {i \in Inst : i[1] = w}
    IN  /\ stores[w] = Total([i \in Inst |-> InFlight(i)], {i \in mine : P(i).op = "store"})
        /\ inPipe[w] = Cardinality({i \in mine : i \in collected \/ InUnit(i)})
        /\ atomics[w] = Total([i \in Inst |-> AtomicsOut(i)], {i \in mine : P(i).op = "atomic"})

(* When fetch reclaims the slot of a warp, for a warp of another CTA,      *)
(* nothing of the old one is on its way any more, but for what has nothing *)
(* to write: no answer will be booked to the new one.                      *)
RetiredIsClean ==
  \A i \in Inst : i[1] \in retired =>
    /\ i \notin collected /\ ~InUnit(i)
    /\ InFlight(i) = 0 \/ (P(i).dst = {} /\ nextWb = i /\ InFlight(i) = 1)

(* Loads, stores and atomics are accounted for, up to the end of the warp. *)
AccessesCounted == LdstTypeOK /\ PendingExact /\ ReleasedWhenBack /\ Counted /\ RetiredIsClean

(* Every warp ends: its loads, stores, atomics and barriers all come to    *)
(* their end, and its slot is reclaimed.                                   *)
EveryWarpRetires == <>(retired = Warp)
===============================================================================
