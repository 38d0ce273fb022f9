------------------------------ MODULE WarpFront ------------------------------
(***************************************************************************)
(* The front of a shader core: fetch through the instruction cache, decode *)
(* into the two-entry instruction buffers (shd_warp_t::m_ibuffer), issue   *)
(* with its control hazards, and the reclaiming of the slots of the warps  *)
(* that have ended, for warps of later CTAs.                               *)
(*                                                                         *)
(* A warp takes one way through the code: its SIMT stack is one pc.  The   *)
(* launch of a warp that an item belongs to (`gen`) is history.            *)
(***************************************************************************)
EXTENDS Integers, Sequences, FiniteSets

CONSTANTS
  NumWarps,  (* max_warps_per_shader                                       *)
  CodeLen,   (* ptx_fetch_inst gives NULL behind it                        *)
  Target,    (* where each instruction leads; 0: it is exit                *)
  MaxLaunch, (* bound: launches of a slot                                  *)
  MaxFlying, (* bound: instructions of a warp in the pipelines             *)
  None

Warp == 0 .. NumWarps - 1
Pc   == 1 .. CodeLen

ASSUME FrontAssumption ==
  /\ NumWarps \in Nat \ {0} /\ CodeLen \in Nat \ {0}
  /\ Target \in [Warp -> [Pc -> 0 .. CodeLen]]
  /\ MaxLaunch \in Nat \ {0} /\ MaxFlying \in Nat \ {0}
  /\ None \notin Int

NoInst == 0   (* m_valid with m_inst = NULL *)

VARIABLES
  gen,         (* history: the launches of each slot                       *)
  completed,   (* functional_done                                          *)
  doneExit,    (* m_done_exit                                              *)
  simtPc,      (* the pc on top of the SIMT stack                          *)
  nextPc,      (* m_next_pc                                                *)
  ibuffer,     (* m_ibuffer: a pc, NoInst, or None where it is not valid   *)
  next,        (* m_next                                                   *)
  inPipe,      (* m_inst_in_pipeline                                       *)
  flying,      (* the launch of each instruction in the pipelines          *)
  imiss,       (* m_imiss_pending                                          *)
  fetchBuffer, (* m_inst_fetch_buffer                                      *)
  missing,     (* the fetches that the instruction cache is waiting for    *)
  ready,       (* and those that it has got: access_ready                  *)
  lastFetched, (* m_last_warp_fetched                                      *)
  piece        (* the next stage of cycle()                                *)

warpVars == <<gen, completed, doneExit, simtPc, nextPc>>
bufferVars == <<ibuffer, next, inPipe, flying>>
fetchVars == <<imiss, fetchBuffer, missing, ready, lastFetched>>
vars == <<warpVars, bufferVars, fetchVars, piece>>

Slot == {0, 1}
EmptyBuffer == [s \in Slot |-> None]
Fetch(w) == [warp |-> w, pc |-> nextPc[w], gen |-> gen[w]]

(* As reset() leaves the slots: "waiting to be initialized with a kernel". *)
Init ==
  /\ gen = [w \in Warp |-> 0]
  /\ completed = [w \in Warp |-> TRUE] /\ doneExit = [w \in Warp |-> TRUE]
  /\ simtPc = [w \in Warp |-> 1] /\ nextPc = [w \in Warp |-> 1]
  /\ ibuffer = [w \in Warp |-> EmptyBuffer] /\ next = [w \in Warp |-> 0]
  /\ inPipe = [w \in Warp |-> 0] /\ flying = [w \in Warp |-> <<>>]
  /\ imiss = [w \in Warp |-> FALSE]
  /\ fetchBuffer = None
  /\ missing = {} /\ ready = <<>>
  /\ lastFetched = 0
  /\ piece = "issue"

AtRest == piece = "issue"
Valid(w) == {s \in Slot : ibuffer[w][s] # None}
ibuffer_empty(w) == Valid(w) = {}

-----------------------------------------------------------------------------
(* Between the cycles.                                                     *)

(* init_warps, with the reset of reinit, in a slot that has been reclaimed *)
Launch(w) ==
  /\ AtRest /\ doneExit[w] /\ gen[w] < MaxLaunch
  /\ gen' = [gen EXCEPT ![w] = @ + 1]
  /\ completed' = [completed EXCEPT ![w] = FALSE]
  /\ doneExit' = [doneExit EXCEPT ![w] = FALSE]
  /\ simtPc' = [simtPc EXCEPT ![w] = 1]
  /\ nextPc' = [nextPc EXCEPT ![w] = 1]
  /\ next' = [next EXCEPT ![w] = 0]
  /\ imiss' = [imiss EXCEPT ![w] = FALSE]
  /\ UNCHANGED <<ibuffer, inPipe, flying, fetchBuffer, missing, ready, lastFetched, piece>>

(* writeback and the ldst_unit: an instruction leaves the pipelines. *)
Complete(w) ==
  /\ AtRest /\ flying[w] # <<>>
  /\ flying' = [flying EXCEPT ![w] = Tail(@)]
  /\ inPipe' = [inPipe EXCEPT ![w] = @ - 1]
  /\ UNCHANGED <<warpVars, ibuffer, next, fetchVars, piece>>

(* accept_fetch_response *)
Fill(mf) ==
  /\ AtRest /\ mf \in missing
  /\ missing' = missing \ {mf}
  /\ ready' = Append(ready, mf)
  /\ UNCHANGED <<warpVars, bufferVars, imiss, fetchBuffer, lastFetched, piece>>

-----------------------------------------------------------------------------
(* issue *)

(* Faulty: what is flushed stays counted. *)
Flushed_Counted(w) == 0

(* ibuffer_flush: what dec_inst_in_pipeline takes back. *)
Flushed(w) == Cardinality(Valid(w))

(* Faulty: the warp goes on fetching where it was. *)
Redirected_Not(w) == nextPc[w]

(* set_next_pc, when the buffer does not hold what the SIMT stack wants. *)
Redirected(w) == simtPc[w]

ControlHazard(w) ==
  /\ nextPc' = [nextPc EXCEPT ![w] = Redirected(w)]
  /\ inPipe' = [inPipe EXCEPT ![w] = @ - Flushed(w)]
  /\ ibuffer' = [ibuffer EXCEPT ![w] = EmptyBuffer]
  /\ UNCHANGED <<gen, completed, doneExit, simtPc, next, flying>>

(* issue_warp and do_on_warp_issued.  The functional execution comes first *)
(* and flushes the buffer of a warp that exits.                            *)
issue_warp(w) ==
  LET pc == simtPc[w]
      exits == Target[w][pc] = 0
  IN  /\ Len(flying[w]) < MaxFlying
      /\ flying' = [flying EXCEPT ![w] = Append(@, gen[w])]
      /\ nextPc' = [nextPc EXCEPT ![w] = pc + 1]
      /\ next' = [next EXCEPT ![w] = 1 - @]
      /\ IF exits
         THEN /\ completed' = [completed EXCEPT ![w] = TRUE]
              /\ inPipe' = [inPipe EXCEPT ![w] = @ - (Flushed(w) - 1)]
              /\ ibuffer' = [ibuffer EXCEPT ![w] = EmptyBuffer]
              /\ UNCHANGED simtPc
         ELSE /\ simtPc' = [simtPc EXCEPT ![w] = Target[w][pc]]
              /\ ibuffer' = [ibuffer EXCEPT ![w][next[w]] = None]
              /\ UNCHANGED <<completed, inPipe>>
      /\ UNCHANGED <<gen, doneExit>>

Step(w) ==
  /\ ~completed[w] /\ ~ibuffer_empty(w)
  /\ IF ibuffer[w][next[w]] = simtPc[w] THEN issue_warp(w)
     ELSE ibuffer[w][next[w]] # None /\ ControlHazard(w)

(* A scheduler takes one of the warps, or none: all wait, or collide.      *)
Issue ==
  /\ piece = "issue" /\ piece' = "decode"
  /\ \/ \E w \in Warp : Step(w)
     \/ UNCHANGED <<warpVars, bufferVars>>
  /\ UNCHANGED fetchVars

-----------------------------------------------------------------------------
(* decode *)

(* ibuffer_fill: m_next = 0 *)
FirstSlot(w) == 0

(* One or two instructions; behind the code, one that does not exist. *)
Decoded(pc) ==
  [s \in Slot |-> CASE s = 0 -> IF pc \in Pc THEN pc ELSE NoInst
                    [] s = 1 -> IF pc \in Pc /\ pc + 1 \in Pc THEN pc + 1 ELSE None]

Decode ==
  /\ piece = "decode" /\ piece' = "fetch"
  /\ IF fetchBuffer = None THEN UNCHANGED <<ibuffer, next, inPipe>>
     ELSE LET w == fetchBuffer.warp
              d == Decoded(fetchBuffer.pc)
          IN  /\ ibuffer' = [ibuffer EXCEPT ![w] = d]
              /\ next' = [next EXCEPT ![w] = FirstSlot(w)]
              /\ inPipe' = [inPipe EXCEPT ![w] = @ + Cardinality({s \in Slot : d[s] # None})]
  /\ fetchBuffer' = None
  /\ UNCHANGED <<warpVars, flying, imiss, missing, ready, lastFetched>>

-----------------------------------------------------------------------------
(* fetch *)

(* Faulty: the instructions in the pipelines are not waited for. *)
HardwareDone_PipeIgnored(w) == completed[w]

(* hardware_done, where no store and no register is out. *)
HardwareDone(w) == completed[w] /\ inPipe[w] = 0

CanFetch(w) == ~completed[w] /\ ~imiss[w] /\ ibuffer_empty(w)

Distance(w) == (w - lastFetched - 1) % NumWarps

(* The first warp, from the last one on, that can fetch: at most one. *)
Chosen == {w \in Warp : CanFetch(w) /\ \A v \in Warp : CanFetch(v) => Distance(w) <= Distance(v)}

(* The loop looks, on its way, for warps that can be reclaimed. *)
Reclaimed ==
  {w \in Warp : /\ HardwareDone(w) /\ ~doneExit[w]
                /\ \A v \in Chosen : Distance(w) <= Distance(v)}

Accessed(w) ==
  /\ lastFetched' = w
  /\ \/ /\ missing' = missing \union {Fetch(w)}              (* MISS *)
        /\ imiss' = [imiss EXCEPT ![w] = TRUE]
        /\ UNCHANGED fetchBuffer
     \/ /\ fetchBuffer' = Fetch(w)                           (* HIT *)
        /\ UNCHANGED <<imiss, missing>>
     \/ UNCHANGED <<imiss, missing, fetchBuffer>>            (* RESERVATION_FAIL *)

(* The cache is accessed, then it delivers one of the answers that it has  *)
(* got: the warp will fetch anew.                                          *)
FetchStage ==
  /\ piece = "fetch" /\ piece' = "answer"
  /\ doneExit' = [w \in Warp |-> doneExit[w] \/ w \in Reclaimed]
  /\ IF Chosen = {} THEN UNCHANGED <<imiss, fetchBuffer, missing, lastFetched>>
     ELSE \E w \in Chosen : Accessed(w)
  /\ UNCHANGED <<gen, completed, simtPc, nextPc, bufferVars, ready>>

next_access ==
  /\ piece = "answer" /\ piece' = "issue"
  /\ IF ready = <<>> THEN UNCHANGED <<imiss, ready>>
     ELSE /\ imiss' = [imiss EXCEPT ![Head(ready).warp] = FALSE]
          /\ ready' = Tail(ready)
  /\ UNCHANGED <<warpVars, bufferVars, fetchBuffer, missing, lastFetched>>

cycle == Issue \/ Decode \/ FetchStage \/ next_access

Next ==
  \/ cycle
  \/ \E w \in Warp : Launch(w) \/ Complete(w)
  \/ \E mf \in missing : Fill(mf)

(* The core is cycled for ever, the memory and the pipelines do their      *)
(* part, no warp is refused its turn in the schedulers for ever (see       *)
(* Scheduler) nor the line that it has been waiting for.                   *)
Fairness ==
  /\ WF_vars(cycle)
  /\ \A w \in Warp :
       /\ SF_vars(\E mf \in missing : mf.warp = w /\ Fill(mf))
       /\ SF_vars(Complete(w))
       /\ SF_vars(Issue /\ Step(w))
       /\ SF_vars(FetchStage /\ fetchBuffer' = Fetch(w) /\ fetchBuffer' # fetchBuffer)

Spec == Init /\ [][Next]_vars /\ Fairness

-----------------------------------------------------------------------------
TypeOK ==
  /\ gen \in [Warp -> 0 .. MaxLaunch]
  /\ completed \in [Warp -> BOOLEAN] /\ doneExit \in [Warp -> BOOLEAN]
  /\ simtPc \in [Warp -> Pc] /\ nextPc \in [Warp -> 1 .. CodeLen + 1]
  /\ ibuffer \in [Warp -> [Slot -> Pc \union {NoInst, None}]]
  /\ next \in [Warp -> Slot] /\ inPipe \in [Warp -> Nat]
  /\ imiss \in [Warp -> BOOLEAN] /\ lastFetched \in Warp

(* The entries of the buffer that are valid and the instructions in the    *)
(* pipelines, whatever was flushed: "assert( m_inst_in_pipeline > 0 )",    *)
(* and none left that would keep the warp from being reclaimed.            *)
PipelineCount == \A w \in Warp : inPipe[w] = Cardinality(Valid(w)) + Len(flying[w])

(* A slot that has been reclaimed is free of its old warp: no instruction, *)
(* no fetch and no miss of an earlier launch is ever met ("assert(         *)
(* m_inst_in_pipeline==0)" of reset).                                      *)
NoStale ==
  \A w \in Warp :
    LET mine == {mf \in missing \union {ready[n] : n \in DOMAIN ready} \union ({fetchBuffer} \ {None}) :
                   mf.warp = w}
    IN  /\ \A n \in DOMAIN flying[w] : flying[w][n] = gen[w] /\ ~doneExit[w]
        /\ \A mf \in mine : mf.gen = gen[w] /\ ~completed[w]
        /\ doneExit[w] => inPipe[w] = 0

(* A warp has one fetch out at most, in the cache or in the buffer, and    *)
(* none while it has instructions: what is decoded never falls on top of   *)
(* what is not issued yet.                                                 *)
OneFetch ==
  \A w \in Warp :
    LET out == {mf \in missing : mf.warp = w}
        got == {n \in DOMAIN ready : ready[n].warp = w}
    IN  /\ imiss[w] <=> Cardinality(out) + Cardinality(got) = 1
        /\ ~imiss[w] => Cardinality(out) + Cardinality(got) = 0
        /\ imiss[w] \/ (fetchBuffer # None /\ fetchBuffer.warp = w) => ibuffer_empty(w)
        /\ imiss[w] => fetchBuffer = None \/ fetchBuffer.warp # w

(* A buffer that is not empty has a valid entry where issue will look:     *)
(* otherwise neither branch of the scheduler would ever empty it, and      *)
(* fetch would not fill it.                                                *)
NextIsValid == \A w \in Warp : ~ibuffer_empty(w) => ibuffer[w][next[w]] # None

(* What is fetched, buffered and counted is of this warp.                  *)
FrontHolds == TypeOK /\ PipelineCount /\ NoStale /\ OneFetch /\ NextIsValid

(* A warp whose way leads to an exit gets there, through the instructions  *)
(* fetched in vain behind branches and behind the end of the code, and its *)
(* slot is reclaimed, although other warps go on for ever.                 *)
Exits(w) == \E pc \in Pc : Target[w][pc] = 0
EveryWarpIsReclaimed ==
  \A w \in Warp : Exits(w) => (~doneExit[w] ~> doneExit[w])
==============================================================================
