------------------------------ MODULE TexCache ------------------------------
(***************************************************************************)
(* The texture cache (tex_cache): its tags run ahead of its data.  A miss  *)
(* is marked valid in the tags at once and asks memory for the block;      *)
(* every fetch, hit or miss, queues in the fragment FIFO, and what the     *)
(* tags promised has to be there when it reaches the head.  Memory may     *)
(* answer in any order: the answers wait in a reorder buffer whose slots   *)
(* are used again and again.                                               *)
(*                                                                         *)
(* One set of ways is modelled, with any choice among the valid ones (LRU  *)
(* and FIFO are two of them).  A fetch is the number of the access it was  *)
(* made for.                                                               *)
(***************************************************************************)
EXTENDS Integers, Sequences, FiniteSets

CONSTANTS
  Texel,        (* the texture blocks that are accessed                    *)
  NLines,       (* ways of the set                                         *)
  FragEntries,  (* m_fragment_fifo_entries                                 *)
  ReqEntries,   (* m_request_fifo_entries                                  *)
  RobEntries,   (* m_rob_entries                                           *)
  ResEntries,   (* m_result_fifo_entries                                   *)
  MaxTex,       (* bound: accesses that are accepted                       *)
  NoBlock       (* the block of an invalid line or of an unused slot       *)

ASSUME TexAssumption ==
  /\ {NLines, FragEntries, ReqEntries, RobEntries, ResEntries} \subseteq Nat \ {0}
  /\ MaxTex \in Nat
  /\ NoBlock \notin Texel

Line  == 1 .. NLines
Slot  == 0 .. RobEntries - 1
Fetch == 1 .. MaxTex

VARIABLES
  asked,    (* the block of each fetch accepted so far, in order           *)
  tags,     (* m_tags: the block of each line, NoBlock when INVALID        *)
  frag,     (* m_fragment_fifo                                             *)
  req,      (* m_request_fifo                                              *)
  rob,      (* the array of m_rob                                          *)
  tail,     (* m_tail of m_rob, the slot that is popped next               *)
  num,      (* m_num of m_rob                                              *)
  slotOf,   (* m_extra_mf_fields: the slot of each fetch that missed       *)
  memory,   (* fetches the memory works on or has on the way back          *)
  cache,    (* m_cache: the block of each line's data                      *)
  res       (* m_result_fifo                                               *)

texVars == <<asked, tags, frag, req, rob, tail, num, slotOf, memory, cache, res>>

(* m_head of m_rob. *)
head == (tail + num) % RobEntries

FragEntry == [fetch : Fetch, line : Line, miss : BOOLEAN]
RobEntry  == [ready : BOOLEAN, line : Line, fetch : Fetch, block : Texel]
Unused    == [ready |-> FALSE, line |-> 1, fetch |-> 0, block |-> NoBlock]

TexInit ==
  /\ asked = <<>>
  /\ tags = [i \in Line |-> NoBlock]
  /\ frag = <<>> /\ req = <<>> /\ res = <<>>
  /\ rob = [x \in Slot |-> Unused] /\ tail = 0 /\ num = 0
  /\ slotOf = [f \in Fetch |-> -1]
  /\ memory = {}
  /\ cache = [i \in Line |-> NoBlock]

-----------------------------------------------------------------------------
(* tex_cache::access. *)

Accepts == Len(frag) < FragEntries /\ Len(req) < ReqEntries /\ num < RobEntries

(* tag_array::probe of a block that is absent: an invalid line if there is *)
(* one, otherwise a valid one.                                             *)
Victim(i) == tags[i] = NoBlock \/ \A j \in Line : tags[j] # NoBlock

(* Faulty: a hit passes the misses that wait. *)
Accept_HitFirst(b, i, miss) ==
  LET e == [fetch |-> Len(asked) + 1, line |-> i, miss |-> miss]
  IN  /\ Len(asked) < MaxTex
      /\ Accepts
      /\ asked' = Append(asked, b)
      /\ frag' = IF miss THEN Append(frag, e) ELSE <<e>> \o frag
      /\ UNCHANGED <<tail, memory, cache, res>>

Accept(b, i, miss) ==
  /\ Len(asked) < MaxTex
  /\ Accepts
  /\ asked' = Append(asked, b)
  /\ frag' = Append(frag, [fetch |-> Len(asked) + 1, line |-> i, miss |-> miss])
  /\ UNCHANGED <<tail, memory, cache, res>>

(* Faulty: a hit is decided by the data instead of the tags. *)
TexHit_OnData(b, i) ==
  /\ cache[i] = b
  /\ Accept(b, i, FALSE)
  /\ UNCHANGED <<tags, req, rob, num, slotOf>>

TexHit(b, i) ==
  /\ tags[i] = b
  /\ Accept(b, i, FALSE)
  /\ UNCHANGED <<tags, req, rob, num, slotOf>>

(* The block is asked of memory and its line is valid from now on.         *)
TexMiss(b, i) ==
  /\ \A j \in Line : tags[j] # b
  /\ Victim(i)
  /\ Accept(b, i, TRUE)
  /\ tags' = [tags EXCEPT ![i] = b]
  /\ rob' = [rob EXCEPT ![head] =
               [ready |-> FALSE, line |-> i, fetch |-> Len(asked) + 1, block |-> b]]
  /\ num' = num + 1
  /\ slotOf' = [slotOf EXCEPT ![Len(asked) + 1] = head]
  /\ req' = Append(req, Len(asked) + 1)

tex_access == \E b \in Texel, i \in Line : TexHit(b, i) \/ TexMiss(b, i)

-----------------------------------------------------------------------------
(* tex_cache::cycle: first a request goes out, unless the port is full,    *)
(* then the fetch at the head of the fragment FIFO may retire.             *)

SendRequest(portFree) ==
  IF req # <<>> /\ portFree
  THEN req' = Tail(req) /\ memory' = memory \union {Head(req)}
  ELSE UNCHANGED <<req, memory>>

MayRetire ==
  /\ frag # <<>> /\ Len(res) < ResEntries
  /\ Head(frag).miss => rob[tail].ready

(* The data of a miss is written when it retires; a hit finds it written.  *)
RetireFragment ==
  /\ MayRetire
  /\ res' = Append(res, Head(frag).fetch)
  /\ frag' = Tail(frag)
  /\ IF Head(frag).miss
     THEN /\ cache' = [cache EXCEPT ![rob[tail].line] = rob[tail].block]
          /\ tail' = (tail + 1) % RobEntries
          /\ num' = num - 1
     ELSE UNCHANGED <<cache, tail, num>>

tex_cycle(portFree) ==
  /\ SendRequest(portFree)
  /\ \/ RetireFragment
     \/ ~MayRetire /\ UNCHANGED <<res, frag, cache, tail, num>>
  /\ UNCHANGED <<asked, tags, rob, slotOf>>

(* Faulty: an answer is taken for that of the oldest request. *)
tex_fill_Oldest(f) ==
  /\ f \in memory
  /\ memory' = memory \ {f}
  /\ rob' = [rob EXCEPT ![tail].ready = TRUE]
  /\ UNCHANGED <<asked, tags, frag, req, tail, num, slotOf, cache, res>>

(* tex_cache::fill: an answer of memory, in any order, goes to its slot.   *)
tex_fill(f) ==
  /\ f \in memory
  /\ memory' = memory \ {f}
  /\ rob' = [rob EXCEPT ![slotOf[f]].ready = TRUE]
  /\ UNCHANGED <<asked, tags, frag, req, tail, num, slotOf, cache, res>>

(* tex_cache::next_access, by the writeback stage of the load/store unit.  *)
tex_next_access ==
  /\ res # <<>>
  /\ res' = Tail(res)
  /\ UNCHANGED <<asked, tags, frag, req, rob, tail, num, slotOf, memory, cache>>

TexNext ==
  \/ tex_access
  \/ \E portFree \in BOOLEAN : tex_cycle(portFree)
  \/ \E f \in Fetch : tex_fill(f)
  \/ tex_next_access

(* The load/store unit runs cycle in every core cycle and drains the       *)
(* results round robin; memory accepts and answers in the end.             *)
TexFairness ==
  /\ WF_texVars(tex_cycle(TRUE))
  /\ \A f \in Fetch : WF_texVars(tex_fill(f))
  /\ WF_texVars(tex_next_access)

TexSpec == TexInit /\ [][TexNext]_texVars /\ TexFairness

-----------------------------------------------------------------------------
(* Every FIFO holds what it was built for and stays within its size.       *)
TexTypeOK ==
  /\ asked \in Seq(Texel) /\ Len(asked) <= MaxTex
  /\ tags \in [Line -> Texel \union {NoBlock}]
  /\ cache \in [Line -> Texel \union {NoBlock}]
  /\ frag \in Seq(FragEntry) /\ Len(frag) <= FragEntries
  /\ req \in Seq(Fetch) /\ Len(req) <= ReqEntries
  /\ res \in Seq(Fetch) /\ Len(res) <= ResEntries
  /\ rob \in [Slot -> RobEntry \union {Unused}]
  /\ tail \in Slot /\ num \in 0 .. RobEntries
  /\ slotOf \in [Fetch -> Slot \union {-1}]
  /\ memory \subseteq Fetch

(* The slots of the reorder buffer in use are the misses of the fragment   *)
(* FIFO in their order, so the head of one is the head of the other: the   *)
(* assertions of cycle on m_request, m_block_addr and m_index.             *)
MissesTo(n) == Cardinality({m \in 1 .. n : frag[m].miss})

RobInStep ==
  /\ num = MissesTo(Len(frag))
  /\ \A n \in 1 .. Len(frag) : frag[n].miss =>
       LET r == rob[(tail + MissesTo(n) - 1) % RobEntries]
       IN  /\ r.fetch = frag[n].fetch
           /\ r.line = frag[n].line
           /\ r.block = asked[frag[n].fetch]

(* The tags tell the future of the data: a line's tag is the block of the  *)
(* youngest miss on the line that has not retired, or the block of its     *)
(* data when there is none.  A hit is the same for the entries before it,  *)
(* so that its block is there when it retires: the assertions of cycle on  *)
(* m_cache.                                                                *)
Promised(line, n) ==
  LET before == {m \in 1 .. n : frag[m].miss /\ frag[m].line = line}
  IN  IF before = {} THEN cache[line]
      ELSE asked[frag[CHOOSE m \in before : \A l \in before : l <= m].fetch]

TagsPromiseData ==
  /\ \A i \in Line : tags[i] = Promised(i, Len(frag))
  /\ \A n \in 1 .. Len(frag) : Promised(frag[n].line, n) = asked[frag[n].fetch]

(* An answer finds its own slot, in use and not ready (the assertions of   *)
(* fill), however often the slots were used before.                        *)
AnswerFindsSlot ==
  \A f \in memory \union {req[n] : n \in 1 .. Len(req)} :
    /\ num > 0
    /\ slotOf[f] \in Slot
    /\ rob[slotOf[f]].fetch = f
    /\ ~rob[slotOf[f]].ready

(* Accesses come back in the order they were accepted, each of them once.  *)
Pending == res \o [n \in 1 .. Len(frag) |-> frag[n].fetch]
InOrder == \A n \in 1 .. Len(Pending) : Pending[n] = Len(asked) - Len(Pending) + n

(* What the tags promised is there, in order, whatever the order of the    *)
(* answers.                                                                *)
PromisesKept == TexTypeOK /\ RobInStep /\ TagsPromiseData /\ AnswerFindsSlot /\ InOrder

(* Every accepted access is delivered: no FIFO that is full while another  *)
(* waits for it stops them all.                                            *)
Delivered(f) == f <= Len(asked) - Len(Pending)
EveryAccessDelivered == \A f \in Fetch : f <= Len(asked) ~> Delivered(f)

=============================================================================
