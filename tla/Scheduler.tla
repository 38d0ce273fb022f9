------------------------------ MODULE Scheduler ------------------------------
(***************************************************************************)
(* A warp scheduler of a shader core (scheduler_unit) under its four       *)
(* orders: loose round robin, greedy then oldest, two-level active and     *)
(* static warp limiting.  In a cycle it orders its warps and issues from   *)
(* the first that can.                                                     *)
(*                                                                         *)
(* What a warp runs is a sequence of instructions [op, dep]: dep says that *)
(* it needs the result of the one before.  Branches make what is buffered  *)
(* stale, barriers are of all warps and the last instruction is an exit.   *)
(***************************************************************************)
EXTENDS Integers, Sequences, FiniteSets, Functions

CONSTANTS
  NumWarps,   (* warps that the scheduler supervises                       *)
  Programs,   (* what they may run: a set of functions on the warps        *)
  Ages,       (* dynamic ids that they may have: functions too           *)
  Policies,   (* the policies that may be configured                       *)
  MaxActive,  (* two_level: m_max_active_warps                             *)
  Limit,      (* swl: m_num_warps_to_limit                                 *)
  MaxIssue,   (* gpgpu_max_insn_issue_per_warp, for each policy            *)
  Width       (* instructions that a register set ID_OC_x holds            *)

Warp == 1 .. NumWarps
Pipe == {"SP", "SFU", "MEM"}
Op   == {"ALU", "SFU", "ALU_SFU", "LOAD", "BRANCH", "BARRIER", "EXIT"}

ASSUME SchedulerAssumption ==
  /\ NumWarps \in Nat \ {0} /\ Width \in Nat \ {0}
  /\ Policies \subseteq {"lrr", "gto", "two_level", "swl"}
  /\ MaxActive \in 1 .. NumWarps /\ Limit \in 1 .. NumWarps
  /\ MaxIssue \in [Policies -> Nat \ {0}]
  /\ \A a \in Ages : a \in [Warp -> Nat] /\ \A v, w \in Warp : a[v] = a[w] => v = w
  /\ Programs \subseteq [Warp -> Seq([op : Op, dep : BOOLEAN])]
  /\ \A p \in Programs, w \in Warp : \A n \in DOMAIN p[w] : p[w][n].op = "EXIT" <=> n = Len(p[w])

VARIABLES
  policy,   (* the one that is configured                                  *)
  prog,     (* what each warp runs                                         *)
  age,      (* dynamic warp ids                                            *)
  warp,     (* per warp: next instruction, instructions buffered, whether  *)
            (* they are stale, and what result is outstanding              *)
  barrier,  (* the warps that wait at the barrier                          *)
  room,     (* room in the register sets                                   *)
  last,     (* m_last_supervised_issued: its position, 0 for end()         *)
  active,   (* two_level: m_next_cycle_prioritized_warps                   *)
  pending,  (* two_level: m_pending_warps                                  *)
  over      (* history: who was issued while a warp could have been        *)

vars == <<policy, prog, age, warp, barrier, room, last, active, pending, over>>

(* The greedy orders start with their first warp, which they dereference;  *)
(* a round begins with it because nobody was last.                         *)
done_adding_supervised_warps == IF policy \in {"gto", "swl"} THEN 1 ELSE 0

(* add_supervised_warp_id of two_level fills the active level first.       *)
ActiveAtFirst  == [n \in 1 .. MaxActive |-> n]
PendingAtFirst == [n \in 1 .. NumWarps - MaxActive |-> MaxActive + n]

Init ==
  /\ policy \in Policies
  /\ prog \in Programs
  /\ age \in Ages
  /\ warp = [w \in Warp |-> [pc |-> 1, buffered |-> 0, stale |-> FALSE, result |-> "none"]]
  /\ barrier = {}
  /\ room = [p \in Pipe |-> Width]
  /\ last = done_adding_supervised_warps
  /\ active = ActiveAtFirst /\ pending = PendingAtFirst
  /\ over = [w \in Warp |-> {}]

(* done_exit *)
Done(w) == warp[w].pc > Len(prog[w])
Live == {w \in Warp : ~Done(w)}
waiting(w) == Done(w) \/ w \in barrier

-----------------------------------------------------------------------------
(* What may be issued, in a state s = [warp, barrier, room].               *)

Now == [warp |-> warp, barrier |-> barrier, room |-> room]

NextInst(s, w) == prog[w][s.warp[w].pc]

Tested(s, w) ==
  /\ s.warp[w].pc <= Len(prog[w]) /\ w \notin s.barrier
  /\ s.warp[w].buffered > 0

(* The register set that takes the next instruction of w; SP is preferred. *)
PipeFor(s, w) ==
  LET fits == CASE NextInst(s, w).op = "LOAD"    -> <<"MEM">>
                [] NextInst(s, w).op = "SFU"     -> <<"SFU">>
                [] NextInst(s, w).op = "ALU_SFU" -> <<"SP", "SFU">>
                [] OTHER                         -> <<"SP">>
      free == {n \in DOMAIN fits : s.room[fits[n]] > 0}
  IN  {fits[n] : n \in {m \in free : \A k \in free : m <= k}}

Collides(s, w) == NextInst(s, w).dep /\ s.warp[w].result # "none"

CanIssue(s, w) ==
  Tested(s, w) /\ ~s.warp[w].stale /\ ~Collides(s, w) /\ PipeFor(s, w) # {}

(* A control hazard: what is buffered is not what the warp has to run.     *)
ibuffer_flush(s, w) ==
  [s EXCEPT !.warp[w].buffered = 0, !.warp[w].stale = FALSE]

(* Faulty: a warp that exits is not looked for at the barrier. *)
Arrivals_ExitIgnored(s, w) ==
  s.barrier \union (IF NextInst(s, w).op = "BARRIER" THEN {w} ELSE {})

(* The barrier after w has issued: everybody goes when all that are left   *)
(* are there.                                                              *)
Arrivals(s, w) ==
  LET there == s.barrier \union (IF NextInst(s, w).op = "BARRIER" THEN {w} ELSE {})
      left  == {v \in Warp : s.warp[v].pc <= Len(prog[v])} \
                 (IF NextInst(s, w).op = "EXIT" THEN {w} ELSE {})
  IN  IF left \subseteq there THEN {} ELSE there

(* issue_warp and do_on_warp_issued (ibuffer_step). *)
issue_warp(s, w, p) ==
  LET op   == NextInst(s, w).op
      left == IF op = "EXIT" THEN 0 ELSE s.warp[w].buffered - 1
  IN  [warp    |-> [s.warp EXCEPT ![w] =
                      [pc |-> @.pc + 1, buffered |-> left,
                       stale |-> op = "BRANCH" /\ left > 0,
                       result |-> CASE op = "LOAD" -> "long"
                                    [] op \in {"ALU", "SFU", "ALU_SFU"} /\ @.result = "none" -> "short"
                                    [] OTHER -> @.result]],
       barrier |-> Arrivals(s, w),
       room    |-> [s.room EXCEPT ![p] = @ - 1]]

(* What w makes of its turn: it issues up to MaxIssue instructions, and    *)
(* stops at the first that it cannot issue or has to flush.                *)
Try(t, w) ==
  IF ~t.on \/ ~Tested(t.s, w) THEN [t EXCEPT !.on = FALSE]
  ELSE IF t.s.warp[w].stale THEN [t EXCEPT !.s = ibuffer_flush(t.s, w), !.on = FALSE]
  ELSE IF CanIssue(t.s, w)
       THEN [s |-> issue_warp(t.s, w, CHOOSE p \in PipeFor(t.s, w) : TRUE),
             issued |-> t.issued + 1, on |-> TRUE]
  ELSE [t EXCEPT !.on = FALSE]

Turn(s, w) ==
  LET turn[n \in 0 .. MaxIssue[policy]] ==
        IF n = 0 THEN {[s |-> s, issued |-> 0, on |-> TRUE]}
        ELSE {Try(t, w) : t \in turn[n - 1]}
  IN  turn[MaxIssue[policy]]

-----------------------------------------------------------------------------
(* The orders *)

(* Faulty: the round starts with the warp that was issued. *)
order_lrr_Same(list, at) ==
  [n \in DOMAIN list |-> list[((at + Len(list) + n - 2) % Len(list)) + 1]]

(* From the one after position at on; at = 0 is end().                     *)
order_lrr(list, at) ==
  [n \in DOMAIN list |-> list[((at + n - 1) % Len(list)) + 1]]

(* sort_warps_by_oldest_dynamic_id.  It does not order those that wait or  *)
(* are done: whatever their order, they come last and cannot issue.        *)
Older(v, w) ==
  IF waiting(v) = waiting(w) THEN age[v] < age[w] ELSE waiting(w)

(* The elements of S from the first to the last of a strict total order.   *)
InOrder(S, before) ==
  CHOOSE f \in [1 .. Cardinality(S) -> S] :
    \A m, n \in DOMAIN f : m < n => <<f[m], f[n]>> \in before

(* What there is of S in a list, in the order of the list.                 *)
Only(list, S) ==
  LET at   == {n \in DOMAIN list : list[n] \in S}
      from == InOrder(at, {p \in Nat \X Nat : p[1] < p[2]})
  IN  [n \in DOMAIN from |-> list[from[n]]]

(* The first num after sort_warps_by_oldest_dynamic_id.                    *)
Oldest(num) == {w \in Warp : Cardinality({v \in Warp : Older(v, w)}) < num}

Sorted(S) == InOrder(S, {p \in Warp \X Warp : Older(p[1], p[2])})

(* Faulty: the warp that was issued last is taken for the youngest. *)
order_by_priority_NotGreedy(greedy, num) ==
  Sorted(Oldest(num) \ {greedy}) \o <<greedy>>

(* The greedy one, then the others of the first num.                       *)
order_by_priority(greedy, num) ==
  <<greedy>> \o Sorted(Oldest(num) \ {greedy})

(* A warp that waits, or for a long operation.  It is the next instruction *)
(* in the buffer that is looked at.                                        *)
Demoted(w) ==
  \/ waiting(w)
  \/ warp[w].buffered > 0 /\ NextInst(Now, w).dep /\ warp[w].result = "long"

(* The active warps that stay, then those that pend, the demoted last.     *)
Lined ==
  LET stay == {w \in Warp : ~Demoted(w)}
  IN  Only(active, stay) \o (pending \o Only(active, Warp \ stay))

(* Faulty: the last warp that is promoted is kept with the pending ones. *)
Levels_Twice ==
  [active |-> SubSeq(Lined, 1, MaxActive), pending |-> SubSeq(Lined, MaxActive, NumWarps)]

(* two_level_active_scheduler::order_warps promotes until the active level *)
(* is full.                                                                *)
Levels ==
  [active |-> SubSeq(Lined, 1, MaxActive), pending |-> SubSeq(Lined, MaxActive + 1, NumWarps)]

lrr_order == order_lrr([w \in Warp |-> w], last)
gto_order == order_by_priority(last, NumWarps)
swl_order == order_by_priority(last, Limit)

order_warps ==
  CASE policy = "lrr" -> lrr_order
    [] policy = "gto" -> gto_order
    [] policy = "swl" -> swl_order
    [] policy = "two_level" -> Levels.active

(* two_level_active_scheduler::do_on_warp_issued, once per instruction: a  *)
(* second turn is about the position of the first, where another warp is.  *)
Rotated(list, at, issued) == order_lrr(list, issued * at)

-----------------------------------------------------------------------------
Min0(S) == CHOOSE n \in S \union {0} : (S = {} /\ n = 0) \/ (n \in S /\ \A m \in S : n <= m)

(* Who has been passed over, and by whom, since it was in the order and    *)
(* could issue.                                                            *)
Passed(w, order) ==
  [v \in Warp |-> IF v # w /\ v \in Range(order) /\ CanIssue(Now, v) THEN over[v] \union {w} ELSE {}]

(* scheduler_unit::cycle: the first of the order that can issue does; the  *)
(* ones before it are flushed where a branch was taken.                    *)
Flushed(at, order) ==
  {order[n] : n \in {m \in DOMAIN order :
     (at = 0 \/ m < at) /\ Tested(Now, order[m]) /\ warp[order[m]].stale}}

cycle ==
  \E order \in {order_warps} : \E at \in {Min0({n \in DOMAIN order : CanIssue(Now, order[n])})} :
  \E flush \in {Flushed(at, order)} :
  \E s \in {[Now EXCEPT !.warp = [w \in Warp |-> IF w \in flush THEN ibuffer_flush(Now, w).warp[w]
                                                ELSE warp[w]]]} :
  \E t \in IF at = 0 THEN {[s |-> s, issued |-> 0]} ELSE Turn(s, order[at]) :
    /\ warp' = t.s.warp /\ barrier' = t.s.barrier /\ room' = t.s.room
    /\ last' = IF at = 0 \/ policy = "two_level" THEN last ELSE order[at]
    /\ active' = IF policy # "two_level" THEN active
                 ELSE IF at = 0 THEN order ELSE Rotated(order, at, t.issued)
    /\ pending' = IF policy = "two_level" THEN Levels.pending ELSE pending
    /\ over' = IF at = 0 \/ policy \in {"gto", "swl"} THEN [v \in Warp |-> {}]
               ELSE Passed(order[at], order)
    /\ UNCHANGED <<policy, prog, age>>

(* decode: one or two instructions, when the buffer is empty.              *)
Decode(w) ==
  /\ ~Done(w) /\ warp[w].buffered = 0
  /\ \E n \in 1 .. 2 :
       /\ warp[w].pc + n - 1 <= Len(prog[w])
       /\ warp' = [warp EXCEPT ![w].buffered = n]
  /\ UNCHANGED <<policy, prog, age, barrier, room, last, active, pending, over>>

(* releaseRegisters: the outstanding result of w is written.               *)
Result(w) ==
  /\ warp[w].result # "none"
  /\ warp' = [warp EXCEPT ![w].result = "none"]
  /\ UNCHANGED <<policy, prog, age, barrier, room, last, active, pending, over>>

(* The operand collector takes from ID_OC_x.                               *)
Take(p) ==
  /\ room[p] < Width
  /\ room' = [room EXCEPT ![p] = @ + 1]
  /\ UNCHANGED <<policy, prog, age, warp, barrier, last, active, pending, over>>

Next ==
  \/ cycle
  \/ \E w \in Warp : Decode(w) \/ Result(w)
  \/ \E p \in Pipe : Take(p)

(* Every cycle of the core runs the scheduler, fetch looks at every warp,  *)
(* and results and registers do not depend on the scheduler.               *)
Fairness ==
  /\ WF_vars(cycle)
  /\ \A w \in Warp : WF_vars(Decode(w)) /\ WF_vars(Result(w))
  /\ \A p \in Pipe : WF_vars(Take(p))

Spec == Init /\ [][Next]_vars /\ Fairness

-----------------------------------------------------------------------------
TypeOK ==
  /\ \A w \in Warp : /\ warp[w].pc \in 1 .. Len(prog[w]) + 1
                     /\ warp[w].buffered \in 0 .. 2
                     /\ warp[w].result \in {"none", "short", "long"}
                     /\ warp[w].stale => warp[w].buffered > 0
  /\ barrier \subseteq Live
  /\ room \in [Pipe -> 0 .. Width]
  /\ last \in 0 .. NumWarps
  /\ over \in [Warp -> SUBSET Warp]

(* Loose round robin, and within the active warps of two levels: while a   *)
(* warp can issue, nobody is issued twice before it.                       *)
Issued(w) == warp'[w].pc # warp[w].pc
RoundRobin ==
  [][\A v, w \in Warp :
       v # w /\ CanIssue(Now, v) /\ Issued(w) => w \notin over[v]]_vars

(* Greedy then oldest: the warp issued last goes on as long as it can; if  *)
(* it cannot, the oldest of those that can goes.                           *)
GreedyThenOldest ==
  [][policy = "gto" => \A w \in Warp : Issued(w) =>
       \/ w = last
       \/ ~CanIssue(Now, last) /\ \A v \in Warp : CanIssue(Now, v) => age[w] <= age[v]]_vars

(* The warps are shared out between the two levels, and the active level   *)
(* is full (the assertion that as many are promoted as are demoted): no    *)
(* warp is dropped while it moves.                                         *)
LevelsPartition ==
  /\ Len(active) = MaxActive /\ Len(active) + Len(pending) = NumWarps
  /\ Range(active) \union Range(pending) = Warp

(* What a scheduler knows of its warps.                                    *)
LevelsHold == TypeOK /\ LevelsPartition

(* A warp that can issue is issued, or something else is, and no policy    *)
(* leaves one behind: all warps reach their exit, through barriers that    *)
(* they wait at for each other.                                            *)
EveryWarpEnds == <>(Live = {})

=============================================================================
