------------------------------- MODULE DataCache -------------------------------
(***************************************************************************)
(* The caches with MSHRs: read_only_cache (constants, instructions) and    *)
(* data_cache (L1D, L2) under any policy that cache_config::init accepts.  *)
(*                                                                         *)
(* One set of ways, whose victim is any valid line when none is invalid:   *)
(* LRU and FIFO are cases.  The detour that a read of an L1D takes through *)
(* the HIST, and what the HIST hears of evictions, is in HistProtocol:     *)
(* here every fetch goes to the miss queue.  An access that is answered    *)
(* RESERVATION_FAIL changes nothing and is tried again.                    *)
(***************************************************************************)
EXTENDS Integers, Sequences, FiniteSets

CONSTANTS
  DataBlock, Local, (* the blocks, those of local memory                   *)
  Ways,           (* m_assoc                                               *)
  Entries,        (* m_mshr_entries                                        *)
  MaxMerged,      (* m_mshr_max_merge                                      *)
  QueueSize,      (* m_miss_queue_size                                     *)
  LineCycles,     (* m_line_sz / m_data_port_width                         *)
  Configs,        (* the configurations a behaviour may have               *)
  MaxData,        (* bound: the accesses that are made                     *)
  Nothing         (* no block, no way                                      *)

Way == 1 .. Ways

Config ==
  [write : {"READ_ONLY", "WRITE_BACK", "WRITE_THROUGH", "WRITE_EVICT", "LOCAL_WB_GLOBAL_WT"},
   alloc : {"ON_MISS", "ON_FILL"},
   allocate_on_write : BOOLEAN,
   atomics : BOOLEAN]  (* the L2 is given atomics, the L1D is not          *)

(* A cache that allocates on fill neither writes back (the assertion of    *)
(* cache_config::init) nor is given atomics (that of fill).                *)
ASSUME CacheAssumption ==
  /\ Local \subseteq DataBlock /\ Nothing \notin DataBlock
  /\ Ways \in Nat \ {0} /\ Entries \in Nat \ {0} /\ MaxMerged \in Nat \ {0}
  /\ QueueSize \in Nat /\ LineCycles \in Nat \ {0} /\ MaxData \in Nat
  /\ Configs \subseteq Config
  /\ \A c \in Configs :
       /\ c.alloc = "ON_FILL" => c.write # "WRITE_BACK"
       /\ c.atomics => c.alloc = "ON_MISS" /\ c.write # "READ_ONLY"

Request == [kind : {"read", "write", "writeback"}, block : DataBlock]

VARIABLES
  conf,    (* m_config                                                     *)
  ways,    (* m_lines: status and block of each way                        *)
  m_mshrs, (* accesses of each entry, 0: none, and m_has_atomic            *)
  response, (* m_current_response                                          *)
  queue,   (* m_miss_queue                                                 *)
  fills,   (* m_extra_mf_fields: the way that a fetch will fill            *)
  away,    (* the fetches that the next level has                          *)
  data_port, fill_port, (* m_bandwidth_management                          *)
  todo     (* accesses that may still be made                              *)

dataCacheVars == <<conf, ways, m_mshrs, response, queue, fills, away, data_port, fill_port, todo>>

CacheInit ==
  /\ conf \in Configs
  /\ ways = [w \in Way |-> [status |-> "INVALID", block |-> Nothing]]
  /\ m_mshrs = [b \in DataBlock |-> [n |-> 0, has_atomic |-> FALSE]]
  /\ response = <<>> /\ queue = <<>> /\ away = {}
  /\ fills = [b \in DataBlock |-> Nothing]
  /\ data_port = 0 /\ fill_port = 0
  /\ todo = MaxData

-----------------------------------------------------------------------------
(* tag_array::probe: the block is there, it is on its way, or a way can be *)
(* taken for it - the last invalid one, else one that is not reserved.     *)

Keeps(b, w)      == ways[w].block = b /\ ways[w].status # "INVALID"
HitIn(b, w)      == Keeps(b, w) /\ ways[w].status # "RESERVED"
ReservedIn(b, w) == Keeps(b, w) /\ ways[w].status = "RESERVED"
InvalidWays      == {w \in Way : ways[w].status = "INVALID"}

MissIn(b, w) ==
  /\ \A v \in Way : ~Keeps(b, v)
  /\ \/ w \in InvalidWays /\ \A v \in InvalidWays : v <= w
     \/ InvalidWays = {} /\ ways[w].status # "RESERVED"

NotHit(b, w) == MissIn(b, w) \/ ReservedIn(b, w)

(* tag_array::access *)
Allocates(b, w) == MissIn(b, w) /\ conf.alloc = "ON_MISS"
Accessed(b, w) ==
  IF Allocates(b, w) THEN [ways EXCEPT ![w] = [status |-> "RESERVED", block |-> b]]
  ELSE ways

(* The write-back of the line that an access of b evicts, if it needs one. *)
WriteBack(b, w) ==
  IF Allocates(b, w) /\ ways[w].status = "MODIFIED" /\ conf.write # "WRITE_THROUGH"
  THEN <<[kind |-> "writeback", block |-> ways[w].block]>>
  ELSE <<>>

Marked(w, s) == [ways EXCEPT ![w].status = s]

-----------------------------------------------------------------------------
(* The MSHRs and the miss queue. *)

HasEntry(b) == m_mshrs[b].n > 0
mshr_full(b) ==
  IF HasEntry(b) THEN m_mshrs[b].n >= MaxMerged
  ELSE Cardinality({c \in DataBlock : HasEntry(c)}) >= Entries

(* Faulty: the requests that an access may need are not counted.           *)
queue_full_Now(n) == Len(queue) >= QueueSize

(* There is no room for n + 1 requests. *)
queue_full(n) == Len(queue) + n >= QueueSize

ReadOf(b)  == [kind |-> "read", block |-> b]
WriteOf(b) == [kind |-> "write", block |-> b]

TakePort == todo > 0 /\ data_port = 0 /\ todo' = todo - 1

(* baseline_cache::send_read_request, with the write-back of the caller:   *)
(* the access joins the entry of its block, or opens one and is sent.      *)
SendRead(b, w, atomic, first, last) ==
  /\ ~mshr_full(b)
  /\ HasEntry(b) \/ Len(queue) + Len(first) < QueueSize
  /\ ways' = Accessed(b, w)
  /\ m_mshrs' = [m_mshrs EXCEPT ![b] = [n |-> @.n + 1, has_atomic |-> @.has_atomic \/ atomic]]
  /\ IF HasEntry(b) THEN queue' = queue \o first \o last /\ UNCHANGED fills
     ELSE /\ queue' = queue \o first \o <<ReadOf(b)>> \o last
          /\ fills' = [fills EXCEPT ![b] = IF conf.alloc = "ON_MISS" THEN w ELSE Nothing]

-----------------------------------------------------------------------------
(* read_only_cache::access, where a hit changes nothing that is kept, and  *)
(* data_cache::access.                                                     *)

ReadOnlyMiss(b, w) ==
  /\ conf.write = "READ_ONLY" /\ TakePort
  /\ NotHit(b, w)
  /\ ~queue_full(0)
  /\ SendRead(b, w, FALSE, <<>>, <<>>)
  /\ UNCHANGED <<conf, response, away, data_port, fill_port>>

IsData == conf.write # "READ_ONLY"

rd_hit_base(b, w, atomic) ==
  /\ IsData /\ TakePort
  /\ HitIn(b, w)
  /\ ways' = IF atomic THEN Marked(w, "MODIFIED") ELSE ways
  /\ \E n \in 1 .. LineCycles : data_port' = data_port + n
  /\ UNCHANGED <<conf, m_mshrs, response, queue, fills, away, fill_port>>

(* Faulty: an access that joins an entry evicts without a write-back.      *)
rd_miss_base_Lost(b, w, atomic) ==
  /\ IsData /\ TakePort
  /\ NotHit(b, w)
  /\ ~queue_full(1)
  /\ SendRead(b, w, atomic, <<>>, IF HasEntry(b) THEN <<>> ELSE WriteBack(b, w))
  /\ data_port' = data_port + LineCycles * Len(WriteBack(b, w))
  /\ UNCHANGED <<conf, response, away, fill_port>>

rd_miss_base(b, w, atomic) ==
  /\ IsData /\ TakePort
  /\ NotHit(b, w)
  /\ ~queue_full(1)
  /\ SendRead(b, w, atomic, <<>>, WriteBack(b, w))
  /\ data_port' = data_port + LineCycles * Len(WriteBack(b, w))
  /\ UNCHANGED <<conf, response, away, fill_port>>

(* The policy of a write that hits: the line is marked, or the write is    *)
(* sent, and the line with it or not kept at all.                          *)
Marks(b) ==
  \/ conf.write \in {"WRITE_BACK", "WRITE_THROUGH"}
  \/ conf.write = "LOCAL_WB_GLOBAL_WT" /\ b \in Local
Sends(b) ==
  \/ conf.write \in {"WRITE_THROUGH", "WRITE_EVICT"}
  \/ conf.write = "LOCAL_WB_GLOBAL_WT" /\ b \notin Local

(* wr_hit_wb, wr_hit_wt, wr_hit_we *)
WriteHit(b, w) ==
  /\ IsData /\ TakePort
  /\ HitIn(b, w)
  /\ Sends(b) => ~queue_full(0)
  /\ ways' = Marked(w, IF Marks(b) THEN "MODIFIED" ELSE "INVALID")
  /\ queue' = IF Sends(b) THEN Append(queue, WriteOf(b)) ELSE queue
  /\ \E n \in 1 .. LineCycles : data_port' = data_port + n
  /\ UNCHANGED <<conf, m_mshrs, response, fills, away, fill_port>>

(* Neither write miss occupies the port: the write-back of the first is    *)
(* not among its events.                                                   *)
wr_miss_wa(b, w) ==
  /\ IsData /\ conf.allocate_on_write /\ TakePort
  /\ NotHit(b, w)
  /\ ~queue_full(2)
  /\ SendRead(b, w, FALSE, <<WriteOf(b)>>, WriteBack(b, w))
  /\ UNCHANGED <<conf, response, away, data_port, fill_port>>

wr_miss_no_wa(b, w) ==
  /\ IsData /\ ~conf.allocate_on_write /\ TakePort
  /\ NotHit(b, w)
  /\ ~queue_full(0)
  /\ queue' = Append(queue, WriteOf(b))
  /\ UNCHANGED <<conf, ways, m_mshrs, response, fills, away, data_port, fill_port>>

-----------------------------------------------------------------------------
Less(n) == IF n > 0 THEN n - 1 ELSE n

(* baseline_cache::cycle: the next level takes a request or is full, and   *)
(* the ports get free (replenish_port_bandwidth).                          *)
cycle ==
  /\ queue # <<>> \/ data_port > 0 \/ fill_port > 0
  /\ \/ UNCHANGED <<queue, away>>
     \/ /\ queue # <<>>
        /\ queue' = Tail(queue)
        /\ away' = IF Head(queue).kind = "read" THEN away \union {Head(queue).block} ELSE away
  /\ data_port' = Less(data_port) /\ fill_port' = Less(fill_port)
  /\ UNCHANGED <<conf, ways, m_mshrs, response, fills, todo>>

(* baseline_cache::fill.  The callers of a data cache wait for the fill    *)
(* port, the one of the instruction cache does not.                        *)
fill(b) ==
  /\ b \in away /\ (IsData => fill_port = 0)
  /\ \/ /\ conf.alloc = "ON_MISS"
        /\ ways' = Marked(fills[b], IF m_mshrs[b].has_atomic THEN "MODIFIED" ELSE "VALID")
     \/ /\ conf.alloc = "ON_FILL"
        /\ \E w \in Way : MissIn(b, w) /\ ways' = [ways EXCEPT ![w] = [status |-> "VALID", block |-> b]]
  /\ response' = Append(response, b)
  /\ fills' = [fills EXCEPT ![b] = Nothing]
  /\ away' = away \ {b}
  /\ fill_port' = fill_port + LineCycles
  /\ UNCHANGED <<conf, m_mshrs, queue, data_port, todo>>

(* mshr_table::next_access *)
next_access ==
  /\ response # <<>>
  /\ LET b == Head(response)
     IN  IF m_mshrs[b].n > 1 THEN m_mshrs' = [m_mshrs EXCEPT ![b].n = @ - 1] /\ UNCHANGED response
         ELSE m_mshrs' = [m_mshrs EXCEPT ![b] = [n |-> 0, has_atomic |-> FALSE]] /\ response' = Tail(response)
  /\ UNCHANGED <<conf, ways, queue, fills, away, data_port, fill_port, todo>>

(* tag_array::flush, of an L1D whose kernel has ended.                     *)
flush ==
  /\ IsData /\ ~conf.atomics
  /\ \A b \in DataBlock : ~HasEntry(b)
  /\ queue = <<>>
  /\ InvalidWays # Way
  /\ ways' = [w \in Way |-> [ways[w] EXCEPT !.status = "INVALID"]]
  /\ UNCHANGED <<conf, m_mshrs, response, queue, fills, away, data_port, fill_port, todo>>

Access ==
  \E b \in DataBlock, w \in Way :
    \/ ReadOnlyMiss(b, w)
    \/ \E atomic \in {FALSE, conf.atomics} : rd_hit_base(b, w, atomic) \/ rd_miss_base(b, w, atomic)
    \/ WriteHit(b, w)
    \/ wr_miss_wa(b, w)
    \/ wr_miss_no_wa(b, w)

CacheNext == Access \/ cycle \/ (\E b \in DataBlock : fill(b)) \/ next_access \/ flush

CacheSpec == CacheInit /\ [][CacheNext]_dataCacheVars

-----------------------------------------------------------------------------
CacheTypeOK ==
  /\ conf \in Configs
  /\ ways \in [Way -> [status : {"INVALID", "RESERVED", "VALID", "MODIFIED"}, block : DataBlock \union {Nothing}]]
  /\ m_mshrs \in [DataBlock -> [n : 0 .. MaxMerged, has_atomic : BOOLEAN]]
  /\ queue \in Seq(Request) /\ response \in Seq(DataBlock)
  /\ fills \in [DataBlock -> Way \union {Nothing}]
  /\ away \in SUBSET DataBlock
  /\ data_port \in Nat /\ fill_port \in Nat
  /\ todo \in 0 .. MaxData

Queued(b) == {i \in DOMAIN queue : queue[i] = ReadOf(b)}
InResponse(b) == \E i \in DOMAIN response : response[i] = b

(* An entry waits for one fetch, which is in the queue or away, or its     *)
(* data have come: a block is not fetched twice, and nobody waits for a    *)
(* fetch that does not exist.                                              *)
EntryIsServed ==
  \A b \in DataBlock :
    LET fetches == Cardinality(Queued(b)) + (IF b \in away THEN 1 ELSE 0)
    IN  fetches = IF HasEntry(b) /\ ~InResponse(b) THEN 1 ELSE 0

(* A fetch finds its way as it has left it, or, in a cache that allocates  *)
(* on fill, its block nowhere (the assertion of tag_array::fill).          *)
FetchFindsWay ==
  \A b \in DataBlock :
    Queued(b) # {} \/ b \in away =>
      IF conf.alloc = "ON_MISS"
      THEN fills[b] \in Way /\ ReservedIn(b, fills[b])
      ELSE \A w \in Way : ~Keeps(b, w)

(* What an access may put in the queue has been reckoned with.             *)
QueueBounded == Len(queue) <= QueueSize

(* A block that was evicted is not read before it is written back.         *)
ReadBehindWriteBack ==
  \A i, j \in DOMAIN queue :
    queue[i].kind = "read" /\ queue[j] = [kind |-> "writeback", block |-> queue[i].block] => j < i

CacheHolds == CacheTypeOK /\ EntryIsServed /\ FetchFindsWay /\ QueueBounded /\ ReadBehindWriteBack

(* A line that holds the only copy of what was stored is given away only   *)
(* in a step that queues its write-back, whatever the access is that takes *)
(* it and whether or not that one is sent itself.  Only the flush at the   *)
(* end of a kernel drops it, and a cache that writes through has no need   *)
(* of it.                                                                  *)
DirtyKept ==
  [][\A w \in Way :
       /\ ways[w].status = "MODIFIED" /\ ways'[w] # ways[w]
       /\ conf.write # "WRITE_THROUGH" /\ \E v \in Way : ways'[v].status # "INVALID"
       => /\ Len(queue') > Len(queue)
          /\ queue'[Len(queue')] = [kind |-> "writeback", block |-> ways[w].block]]_dataCacheVars
==============================================================================
