# GPGPU-Sim with HIST: verification project

The repository is the part of GPGPU-Sim that a set of changes called *HIST* touches: the
L1 caches (`gpu-cache.*`), the shader cores (`shader.*`), the GPU and its simulation loop
(`gpu-sim.*`), the memory request (`mem_fetch.h`) and the HIST itself
(`gpu-cache-hist.*`). HIST turns the L1 data caches of the GPU into one cooperating level:
a block has a *home* SM whose table records which nearby SMs hold the block, a read miss
asks the home before it goes to memory, and a home that knows a sharer has the miss served
by it.

This directory holds TLA+ modules translated from that code, TLC configurations that check
them on small instances, and TLAPS proofs for every size.

## 1. The system

### Components, their state and operations

| component | state | operations | module |
|---|---|---|---|
| HIST geometry | none (arithmetic) | `get_home`, `NOC_distance`, `check_in_range` | `HistGeometry`, `HistTorus` |
| HIST table | per home SM `m_hist_nset` x `m_hist_assoc` entries: status, key, sharer word `HI`, parked fetches `filtered_mf`, access time | `probe`, `allocate`, `add`, `add_mf`, `del`, `ready`, `fill_wait` | `HistDirectory`, `HistDirectoryMachine`, `HistTable` |
| HIST protocol | per SM a queue of outgoing fetches (`out_mf`) and one of messages received (`recv_mf`), each with a wait | `hist_cycle`, `probe_dest`, `recv_cycle`, `process_probe`, `fill_wait` | `HistProtocol` |
| L1 data cache | tag array, MSHRs, miss queue, `m_extra_mf_fields`, ports | `access`, `cycle`, `fill`, `next_access`, `flush` | `DataCache` (every policy), `HistProtocol` (with the HIST) |
| constant, instruction caches | tag array, MSHRs, miss queue | `read_only_cache::access` | `DataCache` |
| texture cache | tags, fragment FIFO, request FIFO, reorder buffer, result FIFO | `access`, `cycle`, `fill`, `next_access` | `TexCache` |
| L2, partitions, DRAM | the L2 is a `data_cache`; the rest is not in this repository | accept a request, answer it | the cache: `DataCache`; the rest: `Send`, `Reply` of `HistProtocol`, `cycle` of `DataCache` |
| load/store unit | dispatch register, response FIFO, pipeline and writeback registers, pending writes | `issue`, `memory_cycle`, `writeback`, `cycle`, `fill` | `LdstUnit` |
| CTA barriers | warps of each CTA, active warps, warps at each barrier | `allocate_barrier`, `warp_reaches_barrier`, `warp_exit`, `deallocate_barrier` | `BarrierSet` |
| warps | PC, instruction buffer, misses and instructions in flight, done or not | `fetch`, `decode`, `issue_warp`, `ibuffer_flush`, `init_warps` | `WarpFront`; their stores, atomics and registers in `LdstUnit` |
| warp schedulers | order of the warps, last one issued, two-level queues | `order_lrr`, `order_by_priority`, `order_warps`, `cycle` | `Scheduler` |
| operand collector | collector units, bank queues, allocation of the banks | `step`, `writeback`, `allocate_reads`, `arbiter_t` | `OperandCollector` |
| SIMD units | dispatch and pipeline registers, `occupied`, result buses | `execute`, `can_issue`, `issue`, `cycle` | `SimdPipelines` |
| SIMT cluster ports | response FIFOs of the cluster and of its cores | `icnt_cycle`, `fill_respond_queue` | `ClusterPorts` |
| CTA issue, kernel launch | running kernels, last one issued, CTAs and threads per core, kernel of each core | `launch`, `select_kernel`, `issue_block2core`, `register_cta_thread_exit`, `set_kernel_done` | `CtaIssue` |
| simulation loop | clocks, cycle counters | `cycle`, `next_clock_domain`, `deadlock_check` | the order in which it calls the handlers is one of those the modules allow |
| options; statistics, power, visualizer | - | parsing, counting, printing | not modelled: values are CONSTANTs, counters are read by nothing else |

### How they interact

There are no threads: everything is a handler called from `gpgpu_sim::cycle` in a fixed
order. What makes the system hard is that one miss lives through many cycles and many
queues while the caches and tables it relies on change:

```
 L1D of s --miss--> out_mf[s] --hops--> recv_mf[home], wait 0
                                           | recv_cycle: process_probe
       +-----------------+-----------------+------------------+
       | MISS / FULL     | HIT_WAIT        | HIT_READY        |
       v                 v                 v                  |
  miss queue of s    filtered_mf      recv_mf[s], wait > 0 <--+ (fill_wait of the filler)
       |                 ^                 | wait = 1
   interconnect,         |                 +-- entry still READY --> response of s
   memory                |                 +-- gone --------------> miss queue of s
       v                 | fill: ready + fill_wait
  response of s ---------+--> L1D of s
```

* `process_probe` runs at the home but pushes on the **miss queue of the requester**;
* `fill` of one SM moves the parked fetches of **other** SMs to their queues;
* an eviction, a write hit or a flush removes the SM's sharer bit at the home **in the
  same call**, while grants that relied on it are still travelling;
* the MSHR entry of a block outlives its fetch (it is drained by the writeback stage), so
  the block can be evicted and missed again before the entry is gone.

### What must be right

* geometry: the distance is a metric, the SMs in range are the nearest;
* tables: a live entry is found by the probe of its key; fetches are parked only while it
  waits; replacement never takes an entry that waits, nor a young shared one;
* protocol: no fetch is lost or answered twice; whoever waits has somebody who will end
  the wait; a sharer bit tells the truth; the way a fetch fills is still its own;
  every miss is answered;
* texture cache: what the tags promise is there when a fetch retires; answers come back in
  the order of the requests; no FIFO stops the others for ever;
* barriers: nobody is through a barrier before everybody is at it; nobody is left at one;
  CTAs that share a core do not touch each other;
* CTA issue: a kernel is reported once, when all its CTAs have run, and is not starved;
* single caches: an MSHR entry has its one fetch, which finds its way as it left it; a dirty
  line is never given away without its write-back;
* load/store unit: a register is released when its last access is back, whatever mixture
  of hits, misses and stalls its load met; a warp retires with nothing on its way;
* front: no instruction, fetch or count of a former path or of a former warp of the slot
  is met, and every warp that ends is reclaimed;
* schedulers: each policy gives the order it promises, and no policy leaves a warp behind;
* operand collector: no bank and no unit is used twice in a cycle, no operand is
  forgotten, no bank idles in vain, every instruction ends;
* SIMD units: no two instructions meet in a stage, on a bus or at the writeback;
* ports: no answer is lost, each buffer keeps its limit, a blocked front lets go.

`PROJECT.json` lists the hazards of the code line by line with the properties that cover
each one.

## 2. Modules

| module | models |
|---|---|
| `HistGeometry` | homes, torus distances and range as operators; `RangeWalk` is the loop of `check_in_range`, `check_in_range` its definition by the order the loop visits |
| `HistTorus` | the SMs three at a time, for properties of the geometry |
| `HistDirectory` | the tables as data: `probe` as predicates (`HitAt`, `MissAt`, `MayBeFull`), the updates as operators from table to table |
| `HistDirectoryMachine` | the **abstract specification** of the tables: any sequence of lookups, removals and fills, with any replacement that the status and the sharers allow |
| `HistTable` | the tables with the access times: LRU among light entries, ageing of shared ones. Implements `HistDirectoryMachine` |
| `HistProtocol` | L1Ds, queues, tables and memory together: one action per handler. Implements `HistDirectoryMachine` (`TablesSpec`) and `FetchCourse` (`CourseSpec`) |
| `FetchCourse` | the **abstract specification** of a fetch: asks, is granted, parked or sent to memory, is answered; never goes back |
| `TexCache` | the texture cache with its three FIFOs and its reorder buffer |
| `BarrierSet` | the barriers of a core under warps that launch, issue, exit and retire |
| `CtaIssue` | kernels, slots, clusters and cores: launch, issue of CTAs, end of a kernel |
| `DataCache` | a single cache with MSHRs: `read_only_cache`, or `data_cache` under any write policy, allocating on a miss or on a fill, with or without atomics |
| `LdstUnit` | the load/store unit with the scoreboard entries, stores, atomics and counts that its warps keep of it |
| `WarpFront` | fetch, decode, instruction buffers, control hazards, and the reuse of the slots of warps |
| `Scheduler` | one `scheduler_unit` under its four policies |
| `OperandCollector` | collector units, bank queues, the wavefront arbiter, writes |
| `SimdPipelines` | the function units that must not stall and the result buses |
| `ClusterPorts` | the way of the answers into the cores of a cluster |
| `MC*` | instances for TLC |
| `*_proofs` | theorems: `HistDirectory_proofs` (tables as data, `HistDirectoryMachine`, `HistTorus`), `HistTable_proofs`, `HistProtocol_proofs` (`HistProtocol`, `FetchCourse`), `Memory_proofs` (`DataCache`, `TexCache`, `LdstUnit`), `WarpFront_proofs`, `Warps_proofs` (`Scheduler`, `BarrierSet`), `Pipelines_proofs` (`SimdPipelines`, `OperandCollector`), `Cluster_proofs` (`CtaIssue`, `ClusterPorts`) |

Some of the MC modules hold several instances: `MCCaches` (`HistProtocol`, `DataCache`),
`MCMemory` (`LdstUnit`, `TexCache`), `MCWarps` (`Scheduler`, `BarrierSet`), `MCPipelines`
(`SimdPipelines`, `OperandCollector`) and `MCCluster` (`CtaIssue`, `ClusterPorts` and
`HistTorus`). They extend the modules, which share no variable (names that would meet carry
a prefix: `CollectorInit`, `BarNext`, `TexSpec`): a variable `part` chooses one of them at
the start, the behaviour runs that one and leaves the others as they were, and its fairness
is asked of the one that runs (`[]<>(part # x) \/ Fairness`). This checks each instance as
on its own. The components do interact in the code; where an answer of one matters to
another it is taken over in full generality: `LdstUnit` lets the caches answer hit, miss or
stall as they like, `OperandCollector` lets results come back at any time, `WarpFront` lets
the instruction cache hit, miss or refuse, `BarrierSet` lets any warp be issued.

`HistTable` and `HistProtocol` *extend* `HistDirectoryMachine` and share its variable
`table`; the refinement mapping of the tables is therefore the identity, and the
abstraction lies in what the abstract machine leaves open. `FetchCourse` is instantiated
with the mapping `Stage`, which computes the stage of a fetch from the queue it is in.

### State and actions of `HistProtocol`

| variable | code |
|---|---|
| `line` | `tag_array::m_lines` (status and block), one set of `NLines` ways |
| `mshr`, `drain` | number of accesses in the entry of `mshr_table::m_data`; `m_current_response` |
| `extra` | `m_extra_mf_fields`: the way the fetch will fill, 0 for no fetch |
| `out`, `recv` | `out_mf`, `recv_mf` |
| `table` | `HIST_table::m_lines` |
| `missq`, `wrq` | reads, and number of writes, in `m_miss_queue` |
| `mem`, `resp` | interconnect and memory; responses on the way to the L1D |
| `left` | bound: accesses the SM may still make |

| action | code |
|---|---|
| `ReadMiss`, `ReadMerge` | `data_cache::access` -> `rd_miss_base` -> `send_read_request` with `tag_array::access` (and the `del` of the victim) |
| `Write` | `wr_hit_we`, `wr_miss_no_wa` |
| `Flush` | `cache_t::flush` -> `tag_array::flush` at the end of the kernel |
| `HistCycle` | `baseline_cache::hist_cycle`, `probe_dest` |
| `RecvCycle` | `HIST_table::recv_cycle` with `process_probe` |
| `Send` | `baseline_cache::cycle` |
| `Reply` | external: the memory answers |
| `Fill` | `baseline_cache::fill` with `ready` and `fill_wait` |
| `NextAccess` | `mshr_table::next_access` |

Abstractions: queues are sets (`recv_cycle` scans its whole list for the smallest wait, and
the order among equals is left open); the handlers of all SMs interleave freely, of which
the fixed order of the loop is one case; LRU among the ways of an L1D is left open; a load
that hits changes nothing that is kept and is no action.

Definitions that follow a comment `Faulty: ...` are not part of the model: each is a
definition of the code with a plausible mistake, kept to show that the property named for
it in `PROJECT.json` would find it.

**Undefined behaviour.** `baseline_cache::fill` erases the `m_extra_mf_fields` node of the
fetch (line 761) and tests `e->second.m_block_addr != 0` through the dead iterator (line
765). What the test reads is the constant `FreedReads`. The allocator the simulator is
built with keeps the bytes of a freed node from the third word on, nothing is allocated
in between, and the key 0 never reaches the HIST, so the runs use `{TRUE}`; with `BOOLEAN`
a fill may skip `ready`, and `WaitHasFiller` fails. The theorem about it has
`FreedReads = {TRUE}` as an explicit hypothesis; every other theorem holds for any
`FreedReads`.

### State and actions of the other modules

`TexCache`: `tags`, `frag`, `req`, `rob` with `tail` and `num`, `slotOf`, `cache` and `res`
are `m_tags`, `m_fragment_fifo`, `m_request_fifo`, `m_rob` (a circular buffer), the index
kept in `m_extra_mf_fields`, `m_cache` and `m_result_fifo`; `asked` is the history of
accesses and `mem` the requests that are away. `access` (`Hit`, `Miss`), `cycle`, `fill`
and `next_access` are the handlers; `cycle` first sends a request and then retires, in one
step. One set of ways; the victim is any valid line when none is invalid, of which LRU and
FIFO are cases. The tag array is of the kind that allocates on fill, so nothing is ever
reserved in it.

`BarrierSet`: `cta`, `active`, `atBarrier`, `atBar` are the map and the three words of
`barrier_set_t`; `prog` and `pc` are what a warp does with barriers, `running` the warps
whose threads are still in `m_cta_status`. `Launch` is `issue_block2core` with
`allocate_barrier`, `Issue` a barrier instruction of a warp that does not wait
(`warp_reaches_barrier`), `Exit` the exit of all its threads (`warp_exit`), `Retire` the
moment `fetch` finds the warp done, with `deallocate_barrier` after the last one. A warp
acts as a whole, counts are in warps.

`CtaIssue`: `running`, `lastKernel`, `lastCluster`, `nextCore`, `kernel`, `finished` carry
the code's names; `status` is `m_cta_status` counted in warps, from which `m_n_active_cta`
and `m_not_completed` follow; `issued` and `users` are what the external `kernel_info_t`
counts. `IssueBlock2Core` is the whole loop over the clusters, with the inner loop over
the cores and `select_kernel`; an idle core that is given a kernel always gets a CTA of it
at once, since `max_cta` is at least 1. `RegisterExit` lets a warp of a CTA end; the core
that is empty lets its kernel go, and the last such core of a kernel with no CTA left
reports it (`EndsWith`). `Launch` requires a free slot, which the runtime asks for with
`can_start_kernel`.

`DataCache`: `line`, `mshr`, `response`, `missq`, `extra` are `m_lines`, `m_mshrs`,
`m_current_response`, `m_miss_queue` and the way in `m_extra_mf_fields`; `away` are the
fetches the next level has, `data_port` and `fill_port` the busy cycles of
`m_bandwidth_management`. One action per function of the policies (`ReadOnlyMiss`,
`rd_hit_base`, `rd_miss_base`, `WriteHit` for `wr_hit_wb`, `wr_hit_wt` and `wr_hit_we`,
`wr_miss_wa`, `wr_miss_no_wa`) and one each for `cycle`, `fill`, `next_access`, `flush`. An
access that is answered RESERVATION_FAIL changes nothing and is tried again, so it is no
action; `tag_array::access` reserves a way (`Accessed`) in the same step, and the
write-back of the evicted line is queued last, as in the code.

`LdstUnit`: a program is made of what the code generator lets through (`MayRun`: global
atomics bypass the L1D, a load has a destination, a store or membar none, a membar no
accesses). `dispatch`, `pipe`, `fifo`, `nextGlobal`, `nextWb`, `arb`, `pending` carry the
registers of the unit; `ready` is what the three caches hold for `next_access`, `mem` the
requests that are out; `reserved`, `stores`, `atomics`, `inPipe`, `membar` are the counts
of the scoreboard and of `shd_warp_t`. `cycle()` is taken in the pieces of its body, in
order: the writeback of `m_next_wb` (`WriteOut`), the round robin over the five clients
(`Arbitrate`), the pipeline registers (`Shift`), the front of the response FIFO
(`Respond`), the instruction in the dispatch register (`DispatchReg`: `Access`, `Stall`,
`SharedAccess`, `NoAccess`). Between two cycles the warps issue, exit and are reclaimed, the
operand collector delivers (`Enter`) and the memory answers in any order.

`WarpFront`: the pieces of a cycle are `Issue`, `Decode`, `FetchStage` and `next_access`;
`gen`, the launch that an item belongs to, is history and tells stale items from those of
the present warp. A warp takes one way through its code (`Target`).

`Scheduler`: `cycle` is one `scheduler_unit::cycle` with its ordering, the flushes on the
way and the dual issue; `Decode`, `Result` and `Take` stand for the instruction buffer, the
scoreboard and the register sets. `over[v]` is history: who was issued since warp v could
have been, and was in the order; a cycle in which v cannot issue starts it anew, and so does
one in which nobody is issued. Branches make what is buffered stale, the barrier is one of
all warps.

`HistTorus`: `triple` holds three SMs and `NextTriple` puts any others in their place; no
code runs in it, it is the state that `GeometryHolds` is about.

`OperandCollector`: `idOc`, `ocEx`, `cu`, `queue`, `alloc`, `lastCu`, `lastReady` carry the
state of `opndcoll_rfu_t`; `step()` is taken in the pieces it calls, `writeback` between
two steps. `Granted` states what `arbiter_t::allocate_reads` grants, and `ReadsHold`
compares it with the loops (`Wavefront`) wherever they run.

`SimdPipelines`: `execute()` one unit at a time, preceded by `writeback()` and the shift of
the result buses. `occupied` and `resultBus` are the sets of bits that are set; the bus of
an instruction is history, since the code forgets it.

`ClusterPorts`: `icnt_cycle` as a whole, `fill_respond_queue` of the HIST, the push of the
perfect memory, and what a load/store unit takes.

## 3. Runs

| run | module, instance | shows |
|---|---|---|
| `tables` | `MCHistTable`: 3 SMs, 2 in range, 3 blocks, one set of 2 ways, times 0..1, age 1 | `EntryFoundByProbe`, `ParkedOnlyOnWait`, `SharersInRange` for any sequence of operations; `ImplementsDirectory`; `SharedEntryKept`: a block with two sharers keeps its entry while it is young |
| `safety` | `MCCaches`: 3 SMs, one of them out of range, 2 blocks, 1 entry, 1 way, 5 accesses, delay 1; one cache of 2 ways, 2 MSHRs of 2 accesses, a queue of 3, 3 blocks, 4 accesses, under six configurations | `FetchInOnePlace`, `WaitHasFiller`, `NoPhantomSharer`, `WaitEndsInGrants`, `TypeOK` of the protocol; `CacheHolds`, `DirtyKept` of the single cache |
| `reuse` | `MCHistProtocol`: 2 SMs, SM 0 with 4 accesses, 2 MSHRs, merging, delay 2 | `ReservedUntilFill`, `MissQueueBound`, `TablesSpec`, and under fairness `MissAnswered`, `CourseSpec` |
| `memory` | `MCMemory`: 2 warps with one of 3 programs, 2 registers, a response FIFO of 2; a texture cache of 2 lines for 3 blocks, FIFOs of 3, 1, 2 and 1 entries, 4 accesses | `AccessesCounted`, `EveryWarpIsRetired`; `PromisesKept` (the assertions of `cycle` and `fill` of the texture cache, and the order of the answers), `EveryAccessDelivered` |
| `warps` | `MCWarps`: 3 warps with one of 2 programs under each of 4 policies; CTA slots of 3 and 2 warps, 2 barriers, 4 programs, 3 launches | `LevelsHold`, `RoundRobin`, `GreedyThenOldest`, `EveryWarpExits`; `BarriersHold` (with the assertions of `deallocate_barrier`), `EveryCtaEnds` |
| `front` | `MCWarpFront`: 2 warps, 3 instructions, 2 launches of each slot, 1 instruction in flight | `FrontHolds`, `EveryWarpIsReclaimed` |
| `pipelines` | `MCPipelines`: 3 units of 3 stages with latencies 1 to 3, 2 buses; 3 collector units, 2 banks, 3 instructions | `ExWbFits`, `SlotsKept`; `ReadsHold`, `OnePortEach`, `NoIdleBank`, `EveryInstEnds` |
| `cluster` | `MCCluster`: 3 kernels of 3, 2 and 1 CTAs, 2 slots, 2 clusters of 2 cores; 6 answers for 2 cores, buffers of 2 and 1; a torus of 7 SMs on 3 x 3 with an incomplete last row, 3 of them in range | `KernelsCounted`, `EveryKernelReported`; `PortsHold`, `EveryCoreIsAnswered`; `GeometryHolds`: the distance is a metric, the SMs a home tracks are the nearest and as many as configured, the loop computes the definition, for every triple of SMs |
| `orphan` (violation) | `MCHistProtocol` as `reuse` | see findings |
| `delay_zero` (violation) | `MCHistProtocol` with delay 0 | see findings |
| `handshake` (violation) | `MCBarrierSet`: 1 CTA of 2 warps, a producer and a consumer | see findings |
| `vector_load` (violation) | `MCOperandCollector`: 1 load of 2 registers in one bank | see findings |

Why the bounds are enough for the cases that matter: two blocks with one home, one entry
and one way make every eviction, re-allocation and FULL answer happen while a fetch of the
other block is in any of its places; one SM out of range exercises the unrecorded path; a
delay of 2 leaves a grant travelling long enough for its entry to be evicted and
re-allocated before it is delivered; four accesses of one SM are the fewest that merge,
evict and miss again while an MSHR entry is drained. The bound on accesses (`MaxAccess`)
is the only one on the behaviour; it makes the system stop, which is why the protocol runs
do not check deadlock - `MissAnswered` says that it never stops with a miss unanswered.
Access times are bounded by `MaxTime`: with two values every order of two times occurs.
The single cache has fewer ways and MSHRs than blocks and a queue of just the three
requests that one access may need, so that every refusal occurs; four accesses dirty a
line, evict it, and read it again behind its write-back.

The texture cache uses each of the two slots of its reorder buffer more than once and gives
a line to a second block while hits on the first still queue; each of the four FIFOs is met
full. The programs of `LdstUnit` mix accesses of every space, with and without the L1D, and
keep several of the five writeback clients busy at once. In `BarrierSet` the third launch
uses a slot again while the other CTA still runs; the programs have full and counted
barriers, early exits and an ARRIVE. The scheduler has a warp that waits for a load while
another branches and the third ends; the two-level policy has one warp too many for its
active level, the limiting one two. In `WarpFront` warp 0 branches back past instructions
that are buffered already and fetches behind the end of its code, and warp 1 never ends;
each slot is launched twice, which is enough to meet an item of an earlier launch. The
latencies of `SimdPipelines` are such that a late short instruction would catch up with an
early long one. In `OperandCollector` operands share a bank and do not, and the unit that
takes both pipes is contended. In `ClusterPorts` three answers are enough to overrun each
buffer. In `CtaIssue` one kernel comes to have two CTAs on a core while another fits a core
only once, and the third waits for a slot. These systems stop at the end (all programs run,
all kernels reported); the liveness properties exclude that they stop early. `front`,
`tables` and `cluster` go on for ever and check for deadlock.

**Fairness.** `Fairness` of `HistProtocol` is weak fairness of the handlers that the loop
calls every core cycle (`hist_cycle`, `recv_cycle`, `baseline_cache::cycle`, the fill and
the writeback stage), and of the memory, which is assumed to accept and answer every
request in the end. `recv_cycle` serves probes before grants; with finitely many accesses
the stream of probes ends. Nothing makes an SM issue an access or flush its cache. The loop
runs a cluster as long as it has threads that are not completed (`gpu-sim.cc:1274`), and an
SM with an outstanding access has a warp that is not. `TexCache`: `cycle` runs every cycle
and finds the interconnect free in the end, the memory answers, the results are drained
round robin. `BarrierSet`: programs are finite, so a scheduler comes to every warp that can
issue; `fetch` looks at every warp in each cycle. `CtaIssue`: the loop issues every cycle,
the warps of a CTA end (which `EveryCtaEnds` says of their barriers), and the runtime polls
`finished_kernel`; no kernel is assumed to be launched.

`LdstUnit`, `OperandCollector` and `WarpFront` take a cycle in pieces, between which nobody
else has a turn, so what happens between two cycles needs strong fairness; it is strong
too for what is tried again until it succeeds - an access that was refused, a writeback
whose banks were taken, a fill whose port was busy. Each retry is a new decision of another
component, which is not assumed to refuse for ever; `vector_load` is the case where it
does, and there the refusal is the model's own. `Scheduler`: `cycle`, `decode` and the
results are weakly fair; that each warp gets its turn is then a result (`EveryWarpExits`)
and the reason why `WarpFront` may assume it. `ClusterPorts`: `icnt_cycle` runs every cycle,
and the interconnect has a packet for the cluster that asks often enough.

### Findings

* `orphan` - `mshr_table::probe` is documented as checking "if there is a pending request
  to the lower memory level already", and `send_read_request` relies on it: a miss whose
  block has an MSHR entry reserves a way and sends nothing. The entry also exists while it
  is drained, when no request is pending. If the block was evicted or write-evicted in
  between, the way stays RESERVED with nothing to fill it until the block misses again or
  the cache is flushed. (`ReservedUntilFill`, the converse, holds.)
* `delay_zero` - with the documented default `-gpgpu_hist_delay 0` no granted fetch is
  delivered: a delivery needs a wait of exactly 1, and `recv_cycle` then serves waits of 0
  only.

* `handshake` - `warp_reaches_barrier` says "required number of warps have reached barrier,
  so release waiting warps". Releasing one barrier clears `m_warp_at_barrier`, which all
  barriers share, for every warp that has reached it - also for one that only ARRIVEd there
  and waits at another barrier by now, which goes on although nobody has come. Without
  such programs `BarrierHolds` holds (run `warps`).

* `vector_load` - the comment at the writeback stage expects a stall "when an instruction
  tries to modify two registers", and a stall is meant to end. `opndcoll_rfu_t::writeback`
  takes the banks of the destination registers one after the other and fails at the first
  that is taken; of two registers in one bank the second always finds it taken by the first.
  The banks are freed in the next step, and the load/store unit tries the whole load again,
  for ever. The pipelines ignore the failure, so an SP or SFU instruction loses nothing but
  the second write's turn. Where the registers lie in different banks the load ends
  (run `pipelines`).

Observations that no run states, because no comment or test of the code promises the
contrary:

* `swl_scheduler` orders the greedy warp and *then* those of the first
  `m_num_warps_to_limit` that are not the greedy one (`shader.cc:785`): when it is not among
  them, one more warp than the limit runs.
* `two_level_active_scheduler::do_on_warp_issued` rotates once per instruction by the
  position of the warp in the list before the first rotation (`shader.cc:971`); with two
  issues of a warp in a cycle the list is rotated past others. The instance of the policy
  therefore issues one.
* `fill_respond_queue` (`gpu-sim.h:445`) may push the response FIFO of a cluster past
  `n_simt_ejection_buffer_size`; `PortsHold` bounds what the *other* sources add.
* `cache_config::init` (`gpu-cache.h:198`) refuses allocate-on-fill for WRITE_BACK only. With
  LOCAL_WB_GLOBAL_WT a line may be dirty as well, and `tag_array::fill` (`gpu-cache.cc:266`)
  takes it without a write-back. `DirtyKept` is checked for such a cache allocating on a
  miss.

## 4. Proofs

The theorems hold for every value of the constants that the ASSUMEs of the modules admit:
any number of cores, warps, banks, blocks or kernels, any sizes of tables and buffers, any
programs, and up to 31 SMs (`1 << id` in the sharer word is an `int`). The ASSUMEs say that
sizes are at least 1, that keys are not 0, that sets of warps and units are finite, what the
configuration parsers check, and which code is never generated. Hypotheses of single
theorems are named with them. Every safety invariant and every action property that a
passing run checks is stated by a theorem.

**Numbers.** The installed provers cannot instantiate the library's induction theorems, but
what those rest on can be used in first-order form: the intervals 0..n are finite sets,
among which inclusion is well founded, so every set of numbers has a least element
(`LeastNat`), and a set that contains 0 and with n also n + 1 contains them all (`NatInd`).
Loops are followed that way: a function with the values that its recursive definition states
exists (`WalkExists`, `MatchingExists`), and a description of its n-th value is carried from
n to n + 1.

### The HIST

`HistDirectory_proofs`:

* The side of the square of SMs exists and a distance is a natural number; one lemma per
  table operation says what it does to the entry it names and that it keeps `WellFormed`,
  the conjunction of the table's type, `FoundByProbe`, `ParkedOnWait` and `LiveInRange`.
  None of the four is inductive alone: that an allocated entry is found by its probe needs
  that every live entry of the set is where *its* probe stops, that `allocate` - which keeps
  `filtered_mf` - takes over no parked fetches needs `ParkedOnWait` together with the fact
  that a MISS never names a waiting way, and that `del` leaves sharers in a live entry needs
  the range. `WellFormed` is inductive (`TablesWellFormed`), and the three invariants of the
  tables follow (`AlwaysFoundByProbe`, `AlwaysParkedOnlyOnWait`, `AlwaysSharersInRange`).
* `GeometryAlwaysHolds`, for any number of SMs up to 31 and any range: on a ring the distance of two
  places is the shorter of the two ways round (`RingDistance`), and a sum of two such
  distances is a metric on the torus, although the last row may be incomplete (`Metric`).
  The numbers by which `check_in_range` orders the SMs around a home are a bijection
  (`Ranks`), so the first `HistRange` of them are that many and none outside is nearer
  (`Nearest`). The loop visits the SMs in that order: induction over its iterations
  (`VisitKnows`, `WalkIsRange`).

`HistTable_proofs`: the table with access times implements the abstract one
(`TableImplementsDirectory`), so its invariants hold for it; and a step that changes the key
of an entry with two sharers found a way of its set that was `Age` or more younger
(`SharedEntriesKept`), for times that may run backwards.

`HistProtocol_proofs`:

* `Inv1 == Shape /\ WellFormed(table)` is inductive. `Shape` types the queues and needs
  nothing of the protocol; every step maps to a step of the directory or leaves the tables
  alone (`ProtocolImplementsDirectory`). On top of `Inv1`, `WaitHasFiller` is inductive:
  only `TakeEntry` makes an entry wait and it sends a fetch to memory in the same step
  (`NewWait`); such a fetch stays on the memory path until its `Fill` (`MemoryPathStep`);
  and that `Fill` readies the entry (`FillReadies`) (`WaitersHaveFiller`).
* **No fetch is lost and none is answered twice** (`NoFetchLost`). A fetch is a token: each
  step leaves it where it is, moves it to one other place, or ends it. `FetchInOnePlace` is
  not inductive, since a queue is a set of messages that carry a wait: `OnePlace` counts the
  messages of a fetch in `out` and `recv`, `GrantsAtSM` says that a message which is no
  probe waits at the SM it answers (so that serving it cannot answer somebody else), and
  `Merged` says that the MSHR entry of a block outlives its fetch and is drained only
  afterwards - without it a second first miss could start a second fetch. Together they are
  inductive (`EveryFetchCounted`); the type invariant with the bound on merged accesses
  follows (`TypesCorrect`).
* `ReservationsKept` (a victim is never a RESERVED way, and a second fetch of the block,
  which could share the way, does not exist); `WaitsEndInGrants` (nothing but `fill_wait`
  ends a wait: `del` ignores such entries and a MISS never names one); `SharersHold`, whose
  strengthening `Sharers` adds that a sharer of an entry that WAITs has its fetch
  outstanding - which is why it is right that `del` ignores such entries;
  `MissQueueBounded`, since each read in the queue has an MSHR entry and a RESERVED way to
  itself, and the writes alone look at the size.
* `FetchesTakeTheirCourse`: the protocol implements the safety part of `FetchCourse`
  (`Course!Steps`, its initial states and steps). By `EveryFetchCounted` a fetch has one
  place, which determines its stage (`Stage`), and each handler moves it to a stage that may
  follow. The hypothesis is `Delay # 0`: with a delay of 0 a grant to the home itself waits
  0 and is taken for a probe, so the fetch asks again (finding `delay_zero`).

`WaitersHaveFiller` and `SharersHold` have `FreedReads = {TRUE}` as a hypothesis (see the
undefined behaviour above).

### Caches and the load/store unit (`Memory_proofs`)

* `DataCache`: for every policy `cache_config::init` accepts and any number of blocks, ways,
  MSHRs, merged accesses and places in the miss queue, `CacheHolds` (`CacheAlwaysHolds`). Its
  parts lean on each other. A block's fetch is in the queue, away or answered, and in one of
  the three (`Served`) - an access that opens an entry may send a fetch because no entry
  means no fetch. The way of a fetch stays reserved (`Finds`) because `probe` never takes a
  RESERVED way and no two ways hold a block (`OneWay`). And a block whose write-back is
  queued is not being read, because a block that is read has a RESERVED way, which by
  `OneWay` is not the MODIFIED one that is evicted: so the write-back, which the code queues
  *behind* the read of the block that takes the way, comes before any read of its own block.
  `Grows` says what `send_read_request` and its callers add to the queue, once for the three
  misses. `DirtyAlwaysKept` needs besides that only what the policy allows is MODIFIED
  (`DirtyInv`), and two hypotheses on the configurations (`KeptConfigs`): atomics go to
  caches that keep what they write, and a cache under LOCAL_WB_GLOBAL_WT allocates on a
  miss. The code checks neither; without the second the observation above on
  `tag_array::fill` applies.
* `TexCache` (`PromisesAlwaysKept`): `TexInv` says that what waits is in the order of the
  requests (`InTurn`), that the misses among it are the occupied slots of the reorder buffer,
  in turn from its tail (`InSlots`), and that each of them has its request under way until
  its slot is ready (`Awaited`), each request once. The heart is `KeepsPromise`: going
  through the fragment FIFO, the lines as they will be when a fragment retires are those the
  tags had when it was accepted. The tags run ahead of the cache by the misses that queue,
  and a hit is right although its line may have been promised to another block since.
* `LdstUnit` (`AccessesAlwaysCounted`): an instruction is in one place at a time on its way
  through the unit, the caches and the memory. A register that is reserved is written by one
  instruction that is out (`OneWriter`), so `pending` of the register is what is out of that
  one instruction (`PendingIs`). Every step of `cycle()` moves one instruction at most, and
  the counts of the registers and of the warp follow it (`Counted`). That a warp
  which is reclaimed has nothing on its way (`RetiredIsClean`) then follows from the counts
  `fetch` tests and from the registers: a warp that has exited issues nothing
  (`ExitedQuiet`).

### Warps (`WarpFront_proofs`, `Warps_proofs`)

* `FrontAlwaysHolds`: whatever is met in the fetch buffer, the cache, the instruction buffer
  and the pipelines belongs to the launch that runs in its slot (`AllCurrent`). That needs
  that a warp has one fetch at a time (`Alone`), that one which waits for the cache has a
  fetch there and an empty buffer (`MissHasFetch`), and that one that has ended has nothing
  to issue (`Ended`): only then may the slot be used again.
* `LevelsAlwaysHold`: demotion and promotion keep the two levels a partition of the warps;
  as many are promoted as are demoted. `GreedyThenOldestHolds` is a fact about the order
  that a step computes, and the first of it that can issue. `RoundRobinHolds`: whoever was
  issued while another warp could have been comes after it in the list (`OverInv`) - the
  turned list keeps the order of those who were passed over. Its hypothesis `OnePerTurn`
  says that the two-level policy issues one instruction per cycle, since
  `do_on_warp_issued` rotates once per instruction (see the observation above).
* `BarriersAlwaysHold`: the warps counted at a barrier are those that wait at it
  (`CountedWait`), and no warp of a CTA is through a barrier more often than one that has not
  exited (`EqualAtAll`). A release is due when as many wait as have not exited, or as many as
  were asked for. Its hypothesis is `NoArrive`: with ARRIVE the first part is false, and
  the run `handshake` shows the property itself violated. The run `warps` has a program
  with an ARRIVE that keeps it, of which the theorem says nothing.

### Function units and registers (`Pipelines_proofs`)

* `SimdPipelines`: for any number of units and buses, and any latencies and intervals that
  fit the pipelines, EX_WB always has room for what leaves the units (`ExWbAlwaysFits`) and
  no two instructions meet in a stage or on a bus (`SlotsAlwaysKept`). An instruction has a
  *place*: the cycles until it leaves its unit, counted through the dispatch register and the
  stages. Neither property is inductive: a collision is prevented when an instruction is
  issued, several cycles before it would happen. `PipeInv` says that every place is marked
  in `occupied` (`PlacesMarked`), so that the test of `can_issue` finds every instruction the
  new one could meet; that each slot of a bus belongs to exactly one place (`Reserved`,
  `Kept`, `Single`), although the buses of a cycle have moved on and some of the units have
  not (`Slot`); and that what has left by a bus is alone on it (`Leaving`) - so the map from
  EX_WB to the buses is an injection, and there are as many registers as buses.
* `OperandCollector`: for any program, banks, collector units, dispatch units and ports (one
  of each at least). `CollectorInv` says that the requests in the queues of the banks and the
  registers that units wait for are the same, each request once and at the bank of its
  register (`Queued`), and that an instruction on its way to a unit is in one place
  (`Placed`): so a unit that is dispatched, with nothing outstanding, leaves no request
  behind, and no two units ever hold one instruction. `ReadsAlwaysHold` adds the wavefront
  allocator. A bank and a unit meet on one diagonal (`DiagonalMeets`), so of the banks that
  ask for a unit exactly one is granted it (`GrantedOne`); the loops have matched,
  when they come to a bank on a diagonal, just those granted banks that they have come by
  (`MatchKeeps`), by induction over their iterations (`WavefrontGrants`). `OnePortAlways` and
  `NoBankIdles` follow for the step in which the banks are read.

### CTAs and ports (`Cluster_proofs`)

* `KernelsAlwaysCounted`: `IssueOK` says that a kernel is counted by the cores that have it,
  that a core with CTAs on it has their kernel and one without has none, and that a kernel
  which has ended has no CTA to issue, no core and no slot; `Reports` that each kernel that
  has ended is on the list or has been reported, once. The loop of `issue_block2core` over
  clusters and cores keeps `IssueOK` at every iteration, by induction over the iterations.
* `PortsAlwaysHold`: each answer is in one place, once (`Placed`), and the buffers keep their
  limits (`Limits`), which leave out what the HIST pushes unchecked.

### Only model-checked

Liveness under fairness (`MissAnswered`, `EveryAccessDelivered`, `EveryWarpIsRetired`,
`EveryCtaEnds`, `EveryWarpExits`, `EveryWarpIsReclaimed`, `EveryInstEnds`,
`EveryKernelReported`, `EveryCoreIsAnswered`), which is out of the prover's reach; of
`CourseSpec`, the fairness of `FetchCourse`, which makes it a liveness property too (its
steps are proved); and `BarriersHold` for programs with an ARRIVE.

## 5. Not modelled, and what is left

* Options, statistics, power and the visualizer keep no state that the rest reads.
* `next_clock_domain` decides by floating point times which of the core, interconnect, L2
  and DRAM clocks comes next. The modules let their handlers interleave freely, of which
  every ratio of the clocks is a case; that no clock is starved is the fairness they assume.
  `deadlock_check` counts cycles without progress and prints.
* Memory partitions, DRAM, the interconnect, the functional simulator (`ptx_*`) and the
  scoreboard are not in this repository. They are modelled by what the code asks of them:
  any order of answers, one answer for each request.
* Flushing the L2. `Flush` and `flush` model the L1D, which is flushed only while its cluster
  has no thread left (`gpu-sim.cc:1311`), so both ask for a cache with no miss under way. The
  L2 is flushed when the threads have ended (`gpu-sim.cc:1333`), with nothing said of reads
  its write-allocates still wait for; a fill of a way the flush has made INVALID would break
  the assertion of `cache_block_t::fill`. `flushL2` and the partition it belongs to are not
  in this repository, so the hazard is listed and no property covers it.
* The contents of memory: which value a load returns is decided by the functional
  simulator at issue; the caches carry no data.
* Thread contexts (`reinit`, `init_warps`) but for what `WarpFront` and `BarrierSet` keep of
  them, `gpu_max_cta_opt`, and divergence within a warp: a warp acts as a whole.

Worth adding: an abstract memory for the caches (which version of a block a load sees); two
schedulers that share a register set; warps that diverge.

## 6. Running

    tlc -workers 2 -config HistSafety.cfg MCCaches
    tlapm HistProtocol_proofs.tla

The configuration and the module of each run are in `PROJECT.json`. With two workers `warps`
takes about two minutes, `safety`, `reuse`, `pipelines` and `cluster` about one each, the
others less. `Memory_proofs` takes about ten minutes, `Pipelines_proofs` three, the other
proofs up to five.
