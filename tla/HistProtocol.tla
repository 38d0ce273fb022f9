---------------------------- MODULE HistProtocol ----------------------------
(***************************************************************************)
(* L1 data caches, the HIST tables and the memory below them.              *)
(*                                                                         *)
(* A read miss of an SM leaves its L1D as a fetch on out_mf, travels to    *)
(* the home of its block, is probed there, and is either served by a       *)
(* sharer (a grant on the requester's recv_mf), parked until the block's   *)
(* first fill (filtered_mf), or sent to memory through the L1D miss queue. *)
(* A fill makes a waiting entry ready and releases the fetches parked on   *)
(* it; an eviction, a write hit or a flush removes the SM's sharer bit.    *)
(*                                                                         *)
(* One SM per cluster; one set of NLines ways per L1D; global loads and    *)
(* stores with the write-evict, no-write-allocate policy.  The simulator   *)
(* runs the handlers of all SMs in a fixed order every cycle; here they    *)
(* interleave freely, which includes that order.  A fetch is named by its  *)
(* SM and key: the MSHR lets an SM have one fetch per block.  Queues are   *)
(* sets, served in any order except for the priority recv_cycle gives to   *)
(* the smallest wait.                                                      *)
(***************************************************************************)
EXTENDS HistDirectoryMachine

CONSTANTS
  Delay,        (* m_hist_delay                                            *)
  NLines,       (* ways of an L1D                                          *)
  NMshr,        (* m_mshr_entries                                          *)
  MaxMerge,     (* m_mshr_max_merge                                        *)
  MissQueue,    (* m_miss_queue_size                                       *)
  MaxAccess,    (* bound: MaxAccess[s] accesses by SM s in a kernel        *)
  FreedReads    (* what "block_addr != 0" may read in the erased           *)
                (* m_extra_mf_fields node: {TRUE} when the freed memory    *)
                (* keeps its contents, BOOLEAN when it may be reused       *)

ASSUME ProtocolAssumption ==
  /\ Delay \in Nat
  /\ NLines \in Nat \ {0}
  /\ NMshr \in Nat \ {0}
  /\ MaxMerge \in Nat \ {0}
  /\ MissQueue \in Nat
  /\ MaxAccess \in [SM -> Nat]
  /\ FreedReads \in (SUBSET BOOLEAN) \ {{}}

VARIABLES
  line,    (* line[s][i]: state and block key of way i of the L1D of s     *)
  mshr,    (* mshr[s][k]: accesses merged in the MSHR entry of k, 0: none  *)
  drain,   (* drain[s]: m_current_response, keys whose data has arrived    *)
  extra,   (* extra[s][k]: way reserved for the fetch of k, 0: no fetch    *)
  out,     (* out[s]: out_mf, fetches on their way to the home             *)
  recv,    (* recv[h]: recv_mf, probes (wait 0) and grants (wait > 0)      *)
  missq,   (* missq[s]: read fetches in m_miss_queue                       *)
  wrq,     (* wrq[s]: number of writes in m_miss_queue                     *)
  mem,     (* mem[s]: fetches of s in the interconnect or memory           *)
  resp,    (* resp[s]: responses on their way to the L1D of s              *)
  left     (* left[s]: accesses s has still to make                        *)

core == <<line, mshr, drain, extra>>
vars == <<line, mshr, drain, extra, out, recv, table, missq, wrq, mem, resp, left>>

Lines   == 1 .. NLines
Block   == [st : {"INVALID", "RESERVED", "VALID"}, key : Key \union {0}]
Flit    == [key : Key, wait : Nat]
Message == [sid : SM, key : Key, wait : Nat]

Init ==
  /\ line  = [s \in SM |-> [i \in Lines |-> [st |-> "INVALID", key |-> 0]]]
  /\ mshr  = [s \in SM |-> [k \in Key |-> 0]]
  /\ drain = [s \in SM |-> {}]
  /\ extra = [s \in SM |-> [k \in Key |-> 0]]
  /\ out   = [s \in SM |-> {}]
  /\ recv  = [s \in SM |-> {}]
  /\ table = EmptyTable
  /\ missq = [s \in SM |-> {}]
  /\ wrq   = [s \in SM |-> 0]
  /\ mem   = [s \in SM |-> {}]
  /\ resp  = [s \in SM |-> {}]
  /\ left  = MaxAccess

-----------------------------------------------------------------------------
(* The L1D tag array. *)

Holds(s, k, i) == line[s][i].key = k /\ line[s][i].st # "INVALID"
Absent(s, k)   == \A i \in Lines : ~Holds(s, k, i)
Invalid(s)     == {i \in Lines : line[s][i].st = "INVALID"}

(* Faulty: a reserved way may be taken.                                    *)
Victim_EvenReserved(s, i) ==
  \/ i \in Invalid(s) /\ \A j \in Invalid(s) : j <= i
  \/ Invalid(s) = {}

(* The way tag_array::probe hands out for a miss: the last invalid one,    *)
(* else a valid one (the timestamps that pick it are abstracted).  With    *)
(* every way reserved there is none: RESERVATION_FAIL.                     *)
Victim(s, i) ==
  \/ i \in Invalid(s) /\ \A j \in Invalid(s) : j <= i
  \/ Invalid(s) = {} /\ line[s][i].st = "VALID"

(* Faulty: the victim's sharer bit is not deleted.                         *)
TagAccess_NoDel(s, k, i) ==
  /\ IF Absent(s, k)
     THEN Victim(s, i) /\ line' = [line EXCEPT ![s][i] = [st |-> "RESERVED", key |-> k]]
     ELSE Holds(s, k, i) /\ line[s][i].st = "RESERVED" /\ UNCHANGED line
  /\ UNCHANGED table

(* tag_array::access after a probe that missed or hit a reserved way: a    *)
(* miss deletes the victim's sharer bit, whatever state the victim is in,  *)
(* and reserves the way.                                                   *)
TagAccess(s, k, i) ==
  \/ /\ Holds(s, k, i)
     /\ line[s][i].st = "RESERVED"
     /\ UNCHANGED <<line, table>>
  \/ /\ Absent(s, k)
     /\ Victim(s, i)
     /\ line'  = [line EXCEPT ![s][i] = [st |-> "RESERVED", key |-> k]]
     /\ table' = del(table, s, line[s][i].key)

MshrEntries(s) == {k \in Key : mshr[s][k] > 0}

(* miss_queue_full(n) with both kinds of requests in the queue. *)
miss_queue_full(s, n) == Cardinality(missq[s]) + wrq[s] + n >= MissQueue

-----------------------------------------------------------------------------
(* Accesses of the SM: data_cache::access for a load that does not hit and *)
(* for a store.  A load that hits changes nothing the model keeps; one     *)
(* that finds the queue, the MSHRs or the set full is tried again.         *)

Use(s) == left[s] > 0 /\ left' = [left EXCEPT ![s] = @ - 1]

(* First miss on the block: a new MSHR entry and a fetch towards the home, *)
(* which is reached after NOC_distance + 1 cycles.                         *)
ReadMiss(s, k) ==
  /\ Use(s)
  /\ ~miss_queue_full(s, 1)
  /\ mshr[s][k] = 0
  /\ Cardinality(MshrEntries(s)) < NMshr
  /\ \E i \in Lines :
       /\ TagAccess(s, k, i)
       /\ extra' = [extra EXCEPT ![s][k] = i]
  /\ mshr' = [mshr EXCEPT ![s][k] = 1]
  /\ out'  = [out EXCEPT ![s] = @ \union
                {[key |-> k, wait |-> NOC_distance(s, get_home(k)) + 1]}]
  /\ UNCHANGED <<drain, recv, missq, wrq, mem, resp>>

(* A miss while the block has an MSHR entry is merged into it and sends    *)
(* nothing, also when the entry is already being drained.                  *)
ReadMerge(s, k) ==
  /\ Use(s)
  /\ ~miss_queue_full(s, 1)
  /\ mshr[s][k] \in 1 .. MaxMerge - 1
  /\ \E i \in Lines : TagAccess(s, k, i)
  /\ mshr' = [mshr EXCEPT ![s][k] = @ + 1]
  /\ UNCHANGED <<drain, extra, out, recv, missq, wrq, mem, resp>>

(* Faulty: a write is queued whether or not there is room.                 *)
Write_NoRoomCheck(s, k) ==
  /\ Use(s)
  /\ wrq' = [wrq EXCEPT ![s] = @ + 1]
  /\ \/ \E i \in Lines :
          /\ Holds(s, k, i)
          /\ line[s][i].st = "VALID"
          /\ line'  = [line EXCEPT ![s][i].st = "INVALID"]
          /\ table' = del(table, s, k)
     \/ /\ \A i \in Lines : ~(Holds(s, k, i) /\ line[s][i].st = "VALID")
        /\ UNCHANGED <<line, table>>
  /\ UNCHANGED <<mshr, drain, extra, out, recv, missq, mem, resp>>

(* A store: the write goes to the miss queue; a valid copy is invalidated  *)
(* and its sharer bit deleted.                                             *)
Write(s, k) ==
  /\ Use(s)
  /\ ~miss_queue_full(s, 0)
  /\ wrq' = [wrq EXCEPT ![s] = @ + 1]
  /\ \/ \E i \in Lines :
          /\ Holds(s, k, i)
          /\ line[s][i].st = "VALID"
          /\ line'  = [line EXCEPT ![s][i].st = "INVALID"]
          /\ table' = del(table, s, k)
     \/ /\ \A i \in Lines : ~(Holds(s, k, i) /\ line[s][i].st = "VALID")
        /\ UNCHANGED <<line, table>>
  /\ UNCHANGED <<mshr, drain, extra, out, recv, missq, mem, resp>>

(* The L1D is flushed when the threads of the SM have completed: a thread  *)
(* exits only when its loads have returned and its stores are acknowledged.*)
Flush(s) ==
  /\ MshrEntries(s) = {}
  /\ wrq[s] = 0
  /\ \E i \in Lines : line[s][i].st # "INVALID"
  /\ line'  = [line EXCEPT ![s] = [i \in Lines |-> [@[i] EXCEPT !.st = "INVALID"]]]
  /\ table' = delAll(table, s, {line[s][i].key : i \in Lines})
  /\ UNCHANGED <<mshr, drain, extra, out, recv, missq, wrq, mem, resp, left>>

-----------------------------------------------------------------------------
(* baseline_cache::hist_cycle: fetches whose trip has ended become probes  *)
(* at their home (probe_dest), the others come one cycle closer.           *)

Arrived(s) == {m \in out[s] : m.wait <= 1}

HistCycle(s) ==
  /\ out[s] # {}
  /\ out' = [out EXCEPT ![s] =
               {[m EXCEPT !.wait = @ - 1] : m \in out[s] \ Arrived(s)}]
  /\ recv' = [h \in SM |-> recv[h] \union
                {[sid |-> s, key |-> m.key, wait |-> 0] :
                   m \in {n \in Arrived(s) : get_home(n.key) = h}}]
  /\ UNCHANGED <<core, table, missq, wrq, mem, resp, left>>

-----------------------------------------------------------------------------
(* HIST_table::recv_cycle at SM h. *)

(* mem_fetch::hist_cycle *)
CountDown(m) == [m EXCEPT !.wait = IF @ > 1 THEN @ - 1 ELSE @]

(* Faulty: a grant one cycle away does not come closer.                    *)
Ticked_OffByOne(h) == {IF m.wait > Delay + 1 THEN CountDown(m) ELSE m : m \in recv[h]}

(* Messages still on the network come closer, every one of them.           *)
Ticked(h) == {IF m.wait > Delay THEN CountDown(m) ELSE m : m \in recv[h]}

(* The message served in this cycle: of those that have arrived, one with  *)
(* the smallest wait.                                                      *)
Due(h) == {m \in recv[h] : m.wait <= Delay}
Next_Due(h, m) == m \in Due(h) /\ \A n \in Due(h) : m.wait <= n.wait

GrantWait(s, k) == Delay + NOC_distance(s, get_home(k))

(* recv with m taken from the queue of h, and with a grant pushed too.     *)
Served(h, m) == [recv EXCEPT ![h] = Ticked(h) \ {m}]
Granted(h, m) ==
  [Served(h, m) EXCEPT ![m.sid] = @ \union
     {[sid |-> m.sid, key |-> m.key, wait |-> GrantWait(m.sid, m.key)]}]

ToMissQueue(m) == missq' = [missq EXCEPT ![m.sid] = @ \union {m.key}]

(* process_probe.  An SM in range that misses takes an entry and fetches   *)
(* the block from memory (HIST_MISS); one that finds the entry waiting is  *)
(* parked (HIST_HIT_WAIT); one that finds it ready is granted the block    *)
(* (HIST_HIT_READY); with no entry to take the fetch goes to memory        *)
(* unrecorded (HIST_FULL).                                                 *)
TakeEntry(h, m, i) ==
  /\ MissAt(table, m.key, i)
  /\ table' = add(allocate(table, m.key, i), m.sid, m.key, i)
  /\ recv'  = Served(h, m)
  /\ ToMissQueue(m)

(* Faulty: the sharer bit of a parked fetch is not set.                    *)
Park_NoSharer(h, m, i) ==
  /\ HitAt(table, m.key, i, "WAIT")
  /\ table' = add_mf(table, m.sid, m.key, i)
  /\ recv'  = Served(h, m)
  /\ UNCHANGED missq

Park(h, m, i) ==
  /\ HitAt(table, m.key, i, "WAIT")
  /\ table' = add_mf(add(table, m.sid, m.key, i), m.sid, m.key, i)
  /\ recv'  = Served(h, m)
  /\ UNCHANGED missq

Grant(h, m, i) ==
  /\ HitAt(table, m.key, i, "READY")
  /\ table' = add(table, m.sid, m.key, i)
  /\ recv'  = Granted(h, m)
  /\ UNCHANGED missq

Bypass(h, m) ==
  /\ MayBeFull(table, m.key)
  /\ recv' = Served(h, m)
  /\ ToMissQueue(m)
  /\ UNCHANGED table

ProbeInRange(h, m) ==
  /\ check_in_range(m.sid, get_home(m.key))
  /\ \/ \E i \in Idx : TakeEntry(h, m, i) \/ Park(h, m, i) \/ Grant(h, m, i)
     \/ Bypass(h, m)

(* An SM out of range is served when the entry is ready and otherwise goes *)
(* to memory; it is never recorded.                                        *)
ProbeOutOfRange(h, m) ==
  /\ ~check_in_range(m.sid, get_home(m.key))
  /\ \/ HitReady(table, m.key) /\ recv' = Granted(h, m) /\ UNCHANGED missq
     \/ ~HitReady(table, m.key) /\ recv' = Served(h, m) /\ ToMissQueue(m)
  /\ UNCHANGED table

ProcessProbe(h, m) ==
  /\ m.wait = 0
  /\ ProbeInRange(h, m) \/ ProbeOutOfRange(h, m)
  /\ UNCHANGED resp

(* Faulty: a grant whose block is gone asks its home again.                *)
DeliverGrant_AsksAgain(h, m) ==
  /\ m.wait = 1
  /\ \/ /\ HitReady(table, m.key)
        /\ recv' = Served(h, m)
        /\ resp' = [resp EXCEPT ![h] = @ \union {m.key}]
     \/ /\ ~HitReady(table, m.key)
        /\ recv' = [Served(h, m) EXCEPT ![get_home(m.key)] = @ \union {[m EXCEPT !.wait = 0]}]
        /\ UNCHANGED resp
  /\ UNCHANGED <<table, missq>>

(* A grant at the end of its wait is probed again: its block may have lost *)
(* its entry meanwhile, and then the fetch goes to memory after all.       *)
DeliverGrant(h, m) ==
  /\ m.wait = 1
  /\ recv' = Served(h, m)
  /\ \/ /\ HitReady(table, m.key)
        /\ resp' = [resp EXCEPT ![h] = @ \union {m.key}]
        /\ UNCHANGED missq
     \/ ~HitReady(table, m.key) /\ ToMissQueue(m) /\ UNCHANGED resp
  /\ UNCHANGED table

AdvanceGrant(h, m) ==
  /\ m.wait > 1
  /\ recv' = [recv EXCEPT ![h] = (Ticked(h) \ {m}) \union {CountDown(m)}]
  /\ UNCHANGED <<table, missq, resp>>

TickOnly(h) ==
  /\ Due(h) = {}
  /\ recv' = [recv EXCEPT ![h] = Ticked(h)]
  /\ UNCHANGED <<table, missq, resp>>

RecvCycle(h) ==
  /\ recv[h] # {}
  /\ \/ \E m \in recv[h] :
          /\ Next_Due(h, m)
          /\ ProcessProbe(h, m) \/ DeliverGrant(h, m) \/ AdvanceGrant(h, m)
     \/ TickOnly(h)
  /\ UNCHANGED <<core, out, wrq, mem, left>>

-----------------------------------------------------------------------------
(* The miss queue, the memory and the response path. *)

Send(s) ==
  /\ \/ \E k \in missq[s] :
          /\ missq' = [missq EXCEPT ![s] = @ \ {k}]
          /\ mem'   = [mem EXCEPT ![s] = @ \union {k}]
          /\ UNCHANGED wrq
     \/ /\ wrq[s] > 0
        /\ wrq' = [wrq EXCEPT ![s] = @ - 1]
        /\ UNCHANGED <<missq, mem>>
  /\ UNCHANGED <<core, out, recv, table, resp, left>>

Reply(s, k) ==
  /\ k \in mem[s]
  /\ mem'  = [mem EXCEPT ![s] = @ \ {k}]
  /\ resp' = [resp EXCEPT ![s] = @ \union {k}]
  /\ UNCHANGED <<core, out, recv, table, missq, wrq, left>>

(* Faulty: the grants go to the SM that fills.                             *)
Released_AtFiller(i, s, k) ==
  [recv EXCEPT ![s] = @ \union
     {[sid |-> f.sid, key |-> f.key, wait |-> GrantWait(s, k)] :
        f \in table[get_home(k)][i].filtered}]

(* ready followed by fill_wait: the parked fetches become grants of their  *)
(* SMs, all with the delay of the SM s that fills.                         *)
Released(i, s, k) ==
  [r \in SM |-> recv[r] \union
     {[sid |-> f.sid, key |-> f.key, wait |-> GrantWait(s, k)] :
        f \in {g \in table[get_home(k)][i].filtered : g.sid = r}}]

(* baseline_cache::fill: the way becomes valid, the MSHR entry is handed   *)
(* to the writeback stage, and an entry that waits for the block is        *)
(* readied.  The key test reads the node erased just before.               *)
Fill(s, k) ==
  /\ k \in resp[s]
  /\ resp'  = [resp EXCEPT ![s] = @ \ {k}]
  /\ line'  = [line EXCEPT ![s][extra[s][k]].st = "VALID"]
  /\ drain' = [drain EXCEPT ![s] = @ \union {k}]
  /\ extra' = [extra EXCEPT ![s][k] = 0]
  /\ \E nonzero \in FreedReads :
       \/ \E i \in Idx :
            /\ nonzero
            /\ check_in_range(s, get_home(k))
            /\ HitAt(table, k, i, "WAIT")
            /\ table' = Release(ready(table, k, i), k, i)
            /\ recv'  = Released(i, s, k)
       \/ /\ ~(nonzero /\ HitWait(table, k) /\ check_in_range(s, get_home(k)))
          /\ UNCHANGED <<table, recv>>
  /\ UNCHANGED <<mshr, out, missq, wrq, mem, left>>

(* Faulty: a drained key stays on the list of responses.                   *)
NextAccess_KeepsKey(s, k) ==
  /\ k \in drain[s]
  /\ mshr' = [mshr EXCEPT ![s][k] = @ - 1]
  /\ UNCHANGED <<line, drain, extra, out, recv, table, missq, wrq, mem, resp, left>>

(* mshr_table::next_access: the writeback stage takes one merged access;   *)
(* the last one releases the entry.                                        *)
NextAccess(s, k) ==
  /\ k \in drain[s]
  /\ mshr'  = [mshr EXCEPT ![s][k] = @ - 1]
  /\ drain' = [drain EXCEPT ![s] = IF mshr[s][k] = 1 THEN @ \ {k} ELSE @]
  /\ UNCHANGED <<line, extra, out, recv, table, missq, wrq, mem, resp, left>>

-----------------------------------------------------------------------------
Next ==
  \E s \in SM :
    \/ \E k \in Key : ReadMiss(s, k)
    \/ \E k \in Key : ReadMerge(s, k)
    \/ \E k \in Key : Write(s, k)
    \/ Flush(s)
    \/ HistCycle(s)
    \/ RecvCycle(s)
    \/ Send(s)
    \/ \E k \in Key : Reply(s, k)
    \/ \E k \in Key : Fill(s, k)
    \/ \E k \in Key : NextAccess(s, k)

(* hist_cycle, recv_cycle and the L1D run every core cycle; the            *)
(* interconnect and the memory accept and answer every request in the end. *)
(* Nothing makes an SM issue an access or flush its cache.                 *)
Fairness ==
  \A s \in SM :
    /\ WF_vars(HistCycle(s))
    /\ WF_vars(RecvCycle(s))
    /\ WF_vars(Send(s))
    /\ \A k \in Key : WF_vars(Reply(s, k)) /\ WF_vars(Fill(s, k)) /\ WF_vars(NextAccess(s, k))

Spec == Init /\ [][Next]_vars

FairSpec == Spec /\ Fairness

-----------------------------------------------------------------------------
(* Type invariant: the state the members of the caches, the HIST tables    *)
(* and the queues can hold.                                                *)
TypeOK ==
  /\ line  \in [SM -> [Lines -> Block]]
  /\ mshr  \in [SM -> [Key -> 0 .. MaxMerge]]
  /\ drain \in [SM -> SUBSET Key]
  /\ extra \in [SM -> [Key -> 0 .. NLines]]
  /\ out   \in [SM -> SUBSET Flit]
  /\ recv  \in [SM -> SUBSET Message]
  /\ table \in [SM -> [Idx -> Entry]]
  /\ missq \in [SM -> SUBSET Key]
  /\ wrq   \in [SM -> Nat]
  /\ mem   \in [SM -> SUBSET Key]
  /\ resp  \in [SM -> SUBSET Key]
  /\ left  \in [SM -> Nat]

Outstanding(s, k) == extra[s][k] # 0

(* Everywhere the fetch of k by s is. *)
Places(s, k) ==
  {<<"out", s, m.wait>> : m \in {n \in out[s] : n.key = k}}
  \union (UNION {{<<"recv", h, m.wait>> :
                    m \in {n \in recv[h] : n.sid = s /\ n.key = k}} : h \in SM})
  \union {<<"parked", p[1], p[2]>> :
            p \in {q \in SM \X Idx : [sid |-> s, key |-> k] \in table[q[1]][q[2]].filtered}}
  \union (IF k \in missq[s] THEN {<<"missq", s, 0>>} ELSE {})
  \union (IF k \in mem[s]   THEN {<<"mem", s, 0>>}   ELSE {})
  \union (IF k \in resp[s]  THEN {<<"resp", s, 0>>}  ELSE {})

(* No fetch is lost and none is answered twice: a fetch the L1D waits for  *)
(* is in exactly one queue, table or network, any other one in none.       *)
FetchInOnePlace ==
  \A s \in SM, k \in Key :
    IF Outstanding(s, k) THEN \E p \in Places(s, k) : Places(s, k) = {p}
                         ELSE Places(s, k) = {}

(* A WAIT entry, which nothing but a fill ever changes and nothing may     *)
(* evict, always has a fetch of an SM in range on the memory path whose    *)
(* fill will ready it: waiters do not wait for one another.                *)
OnMemoryPath(s, k) == k \in missq[s] \union mem[s] \union resp[s]

WaitHasFiller ==
  \A h \in SM, i \in Idx :
    table[h][i].status = "WAIT" =>
      \E s \in SM : /\ check_in_range(s, h)
                    /\ OnMemoryPath(s, table[h][i].key)

(* No phantom sharer: an SM with its bit set holds the block or has a      *)
(* fetch of it outstanding, although del ignores entries that WAIT and is  *)
(* called only by evictions, write hits and flushes.                       *)
NoPhantomSharer ==
  \A h \in SM, i \in Idx :
    table[h][i].status # "INVALID" =>
      \A s \in table[h][i].HI :
        \/ Outstanding(s, table[h][i].key)
        \/ \E j \in Lines : line[s][j] = [st |-> "VALID", key |-> table[h][i].key]

(* The assertion of cache_block_t::fill: the way a fetch will fill is      *)
(* still reserved for its block, whatever was evicted or flushed since.    *)
ReservedUntilFill ==
  \A s \in SM, k \in Key :
    Outstanding(s, k) => line[s][extra[s][k]] = [st |-> "RESERVED", key |-> k]

(* The home pushes fetches on the miss queue without asking whether there  *)
(* is room; the fetches the MSHRs and the ways allow to be outstanding     *)
(* bound by how much its configured size is exceeded.                      *)
MissQueueBound ==
  \A s \in SM : Cardinality(missq[s]) + wrq[s] <= MissQueue + MIN(NMshr, NLines)

(* A reserved way is waiting for a fetch: what the MSHR promises when a    *)
(* miss is merged into an entry instead of sending a request.              *)
ReservedHasFetch ==
  \A s \in SM, i \in Lines :
    line[s][i].st = "RESERVED" => Outstanding(s, line[s][i].key)

(* While an entry WAITs its block and its sharers stay; only becoming      *)
(* READY ends the wait, and the wait ends with every parked fetch turned   *)
(* into a grant at its own SM.                                             *)
WaitEndsInGrants ==
  [][\A h \in SM, i \in Idx :
       table[h][i].status = "WAIT" =>
         /\ table'[h][i].key = table[h][i].key
         /\ table[h][i].HI \subseteq table'[h][i].HI
         /\ table'[h][i].status # "INVALID"
         /\ table'[h][i].status = "READY" =>
              \A f \in table[h][i].filtered :
                \E m \in recv'[f.sid] : m.sid = f.sid /\ m.key = f.key]_vars

(* Everything the caches and the home do to the HIST tables is a step of   *)
(* the abstract machine, so its invariants hold here: a live entry is      *)
(* found by the probe of its key, fetches are parked only while it WAITs,  *)
(* and its sharers are in range.                                           *)
TablesSpec == DirectorySpec

(* Every miss that left the L1D is answered, whichever way it takes.       *)
MissAnswered ==
  \A s \in SM, k \in Key : Outstanding(s, k) ~> ~Outstanding(s, k)

-----------------------------------------------------------------------------
(* The course a fetch takes, for the abstract specification. *)
Stage(s, k) ==
  CASE \E m \in out[s] : m.key = k -> "asking"
    [] \E h \in SM : \E m \in recv[h] : m.sid = s /\ m.key = k /\ m.wait = 0 -> "asking"
    [] \E h \in SM : \E m \in recv[h] : m.sid = s /\ m.key = k /\ m.wait > 0 -> "granted"
    [] \E h \in SM, i \in Idx : [sid |-> s, key |-> k] \in table[h][i].filtered -> "parked"
    [] k \in missq[s] \union mem[s] -> "memory"
    [] k \in resp[s] -> "answered"
    [] OTHER -> "idle"

Course == INSTANCE FetchCourse
            WITH Cores <- SM, Blocks <- Key,
                 stage <- [s \in SM |-> [k \in Key |-> Stage(s, k)]]

(* The protocol takes every fetch through the course of FetchCourse.       *)
CourseSpec == Course!Spec

=============================================================================
