------------------------- MODULE HistProtocol_proofs -------------------------
(***************************************************************************)
(* Safety of HistProtocol for any number of SMs, any range, any table and  *)
(* cache geometry, any delay and any number of accesses.  First the        *)
(* tables and who fills a block that is waited for, then the fetches, then *)
(* the copies that they bring; last, that a fetch takes the course of      *)
(* FetchCourse.                                                            *)
(***************************************************************************)
EXTENDS HistProtocol, HistDirectory_proofs, FiniteSetTheorems

(* What the queues and the ways can hold; unlike TypeOK it is inductive on *)
(* its own, because it says nothing of how far mshr can count.             *)
Shape ==
  /\ line  \in [SM -> [Lines -> Block]]
  /\ mshr  \in [SM -> [Key -> Int]]
  /\ drain \in [SM -> SUBSET Key]
  /\ extra \in [SM -> [Key -> 0 .. NLines]]
  /\ out   \in [SM -> SUBSET Flit]
  /\ recv  \in [SM -> SUBSET Message]
  /\ missq \in [SM -> SUBSET Key]
  /\ wrq   \in [SM -> Nat]
  /\ mem   \in [SM -> SUBSET Key]
  /\ resp  \in [SM -> SUBSET Key]
  /\ left  \in [SM -> Nat]

Inv1 == Shape /\ WellFormed(table)

(* A grant waits a number of cycles.                                       *)
LEMMA GrantWaitIsNat == \A s \in SM, k \in Key : GrantWait(s, k) \in Nat
  BY DistanceIsNat, HomeIsSM, ProtocolAssumption DEF GrantWait

-----------------------------------------------------------------------------
(* The messages at a home after a cycle are messages.                      *)
LEMMA TickedAreMessages ==
  ASSUME Shape, NEW h \in SM
  PROVE  /\ Ticked(h) \subseteq Message
         /\ \A m \in recv[h] : m \in Message /\ CountDown(m) \in Message
         /\ \A m \in recv[h], r \in SM : Served(h, m)[r] \subseteq Message
<1>1. \A m \in recv[h] : m \in Message
  BY DEF Shape
<1>2. \A m \in Message : CountDown(m) \in Message
  BY DEF CountDown, Message
<1>3. Ticked(h) \subseteq Message
  BY <1>1, <1>2 DEF Ticked
<1>4. \A m \in recv[h], r \in SM : Served(h, m)[r] \subseteq Message
  BY <1>3 DEF Served, Shape
<1>. QED
  BY <1>1, <1>2, <1>3, <1>4

(* A grant pushed next to the messages left is a message.                  *)
LEMMA QueuesTyped ==
  ASSUME Shape, NEW h \in SM, NEW m \in recv[h]
  PROVE  /\ Served(h, m) \in [SM -> SUBSET Message]
         /\ Granted(h, m) \in [SM -> SUBSET Message]
         /\ [recv EXCEPT ![h] = (Ticked(h) \ {m}) \union {CountDown(m)}] \in [SM -> SUBSET Message]
         /\ [recv EXCEPT ![h] = Ticked(h)] \in [SM -> SUBSET Message]
<1>1. Served(h, m) \in [SM -> SUBSET Message]
  BY TickedAreMessages DEF Served, Shape
<1>2. m.sid \in SM /\ m.key \in Key
  BY TickedAreMessages DEF Message
<1>3. [sid |-> m.sid, key |-> m.key, wait |-> GrantWait(m.sid, m.key)] \in Message
  BY <1>2, GrantWaitIsNat DEF Message
<1>4. Granted(h, m) \in [SM -> SUBSET Message]
  BY <1>1, <1>3 DEF Granted
<1>. QED
  BY <1>1, <1>4, TickedAreMessages DEF Shape

(* Moving a key in or out of a queue of keys.                              *)
LEMMA KeyQueues ==
  ASSUME NEW q \in [SM -> SUBSET Key], NEW s \in SM, NEW k \in Key
  PROVE  /\ [q EXCEPT ![s] = @ \union {k}] \in [SM -> SUBSET Key]
         /\ [q EXCEPT ![s] = @ \ {k}] \in [SM -> SUBSET Key]
  OBVIOUS

(* Changing a way of a cache.                                              *)
LEMMA WayUpdate ==
  ASSUME NEW l \in [SM -> [Lines -> Block]], NEW s \in SM
  PROVE  /\ \A b \in Block : \A i : [l EXCEPT ![s][i] = b] \in [SM -> [Lines -> Block]]
         /\ \A i : [l EXCEPT ![s][i].st = "INVALID"] \in [SM -> [Lines -> Block]]
         /\ \A i : [l EXCEPT ![s][i].st = "VALID"] \in [SM -> [Lines -> Block]]
<1>1. \A b \in Block : \A i : [l[s] EXCEPT ![i] = b] \in [Lines -> Block]
  OBVIOUS
<1>2. \A b \in Block : [b EXCEPT !.st = "INVALID"] \in Block /\ [b EXCEPT !.st = "VALID"] \in Block
  BY DEF Block
<1>3. \A i : [l[s] EXCEPT ![i].st = "INVALID"] \in [Lines -> Block]
  BY <1>2
<1>4. \A i : [l[s] EXCEPT ![i].st = "VALID"] \in [Lines -> Block]
  BY <1>2
<1>. QED
  BY <1>1, <1>3, <1>4

(* Every step of the protocol keeps the shape of its state.                *)
LEMMA ShapeStep ==
  ASSUME Shape, WellFormed(table), Next
  PROVE  Shape'
<1>1. ASSUME NEW s \in SM, NEW k \in Key, NEW i \in Lines, TagAccess(s, k, i)
      PROVE  line' \in [SM -> [Lines -> Block]]
  <2>1. [st |-> "RESERVED", key |-> k] \in Block /\ line \in [SM -> [Lines -> Block]]
    BY DEF Block, Shape
  <2>2. line' = line \/ line' = [line EXCEPT ![s][i] = [st |-> "RESERVED", key |-> k]]
    BY <1>1 DEF TagAccess
  <2>3. [line EXCEPT ![s][i] = [st |-> "RESERVED", key |-> k]] \in [SM -> [Lines -> Block]]
    BY <2>1, WayUpdate
  <2>. QED
    BY <2>1, <2>2, <2>3
<1>2. ASSUME NEW s \in SM, NEW k \in Key, ReadMiss(s, k)
      PROVE  Shape'
  <2>1. PICK i \in Lines : TagAccess(s, k, i) /\ extra' = [extra EXCEPT ![s][k] = i]
    BY <1>2 DEF ReadMiss
  <2>2. line' \in [SM -> [Lines -> Block]]
    BY <1>1, <2>1
  <2>3. extra' \in [SM -> [Key -> 0 .. NLines]]
    BY <2>1, ProtocolAssumption DEF Shape, Lines
  <2>4. [key |-> k, wait |-> NOC_distance(s, get_home(k)) + 1] \in Flit
    BY DistanceIsNat, HomeIsSM DEF Flit
  <2>5. mshr' \in [SM -> [Key -> Int]] /\ left' \in [SM -> Nat]
    BY <1>2 DEF ReadMiss, Use, Shape
  <2>6. out' \in [SM -> SUBSET Flit]
    BY <1>2, <2>4 DEF ReadMiss, Shape
  <2>. QED
    BY <1>2, <2>2, <2>3, <2>5, <2>6 DEF ReadMiss, Shape
<1>3. ASSUME NEW s \in SM, NEW k \in Key, ReadMerge(s, k)
      PROVE  Shape'
  <2>1. PICK i \in Lines : TagAccess(s, k, i)
    BY <1>3 DEF ReadMerge
  <2>2. line' \in [SM -> [Lines -> Block]]
    BY <1>1, <2>1
  <2>3. mshr' \in [SM -> [Key -> Int]] /\ left' \in [SM -> Nat]
    BY <1>3 DEF ReadMerge, Use, Shape
  <2>. QED
    BY <1>3, <2>2, <2>3 DEF ReadMerge, Shape
<1>4. ASSUME NEW s \in SM, NEW k \in Key, Write(s, k)
      PROVE  Shape'
  <2>1. line' \in [SM -> [Lines -> Block]]
    <3>1. line \in [SM -> [Lines -> Block]]
      BY DEF Shape
    <3>2. line' = line \/ \E i \in Lines : line' = [line EXCEPT ![s][i].st = "INVALID"]
      BY <1>4 DEF Write
    <3>3. \A i : [line EXCEPT ![s][i].st = "INVALID"] \in [SM -> [Lines -> Block]]
      BY <3>1, WayUpdate
    <3>. QED
      BY <3>1, <3>2, <3>3
  <2>2. wrq' \in [SM -> Nat] /\ left' \in [SM -> Nat]
    BY <1>4 DEF Write, Use, Shape
  <2>. QED
    BY <1>4, <2>1, <2>2 DEF Write, Shape
<1>5. ASSUME NEW s \in SM, Flush(s)
      PROVE  Shape'
  <2>1. \A b \in Block : [b EXCEPT !.st = "INVALID"] \in Block
    BY DEF Block
  <2>2. line' \in [SM -> [Lines -> Block]]
    BY <1>5, <2>1 DEF Flush, Shape
  <2>. QED
    BY <1>5, <2>2 DEF Flush, Shape
<1>6. ASSUME NEW s \in SM, HistCycle(s)
      PROVE  Shape'
  <2>1. \A m \in out[s] : m \in Flit
    BY DEF Shape
  <2>2. \A m \in out[s] \ Arrived(s) : [m EXCEPT !.wait = @ - 1] \in Flit
    BY <2>1 DEF Flit, Arrived
  <2>3. out' \in [SM -> SUBSET Flit]
    BY <1>6, <2>2 DEF HistCycle, Shape
  <2>4. \A m \in out[s] : [sid |-> s, key |-> m.key, wait |-> 0] \in Message
    BY <2>1 DEF Flit, Message
  <2>5. recv' \in [SM -> SUBSET Message]
    BY <1>6, <2>4 DEF HistCycle, Shape, Arrived
  <2>. QED
    BY <1>6, <2>3, <2>5 DEF HistCycle, Shape, core
<1>7. ASSUME NEW h \in SM, RecvCycle(h)
      PROVE  Shape'
  <2>1. CASE TickOnly(h)
    <3>1. recv' \in [SM -> SUBSET Message]
      BY <2>1, TickedAreMessages DEF TickOnly, Shape
    <3>. QED
      BY <1>7, <2>1, <3>1 DEF RecvCycle, TickOnly, Shape, core
  <2>2. ASSUME NEW m \in recv[h],
               ProcessProbe(h, m) \/ DeliverGrant(h, m) \/ AdvanceGrant(h, m)
        PROVE  Shape'
    <3>1. m.sid \in SM /\ m.key \in Key
      BY TickedAreMessages DEF Message
    <3>2. recv' \in [SM -> SUBSET Message]
      BY <2>2, QueuesTyped
      DEF ProcessProbe, ProbeInRange, ProbeOutOfRange, TakeEntry, Park, Grant, Bypass,
          DeliverGrant, AdvanceGrant
    <3>3. missq' = missq \/ ToMissQueue(m)
      BY <2>2
      DEF ProcessProbe, ProbeInRange, ProbeOutOfRange, TakeEntry, Park, Grant, Bypass,
          DeliverGrant, AdvanceGrant
    <3>4. missq' \in [SM -> SUBSET Key]
      <4>1. missq \in [SM -> SUBSET Key]
        BY DEF Shape
      <4>2. [missq EXCEPT ![m.sid] = @ \union {m.key}] \in [SM -> SUBSET Key]
        BY <3>1, <4>1
      <4>. QED
        BY <3>3, <4>1, <4>2 DEF ToMissQueue
    <3>5. resp' = resp \/ resp' = [resp EXCEPT ![h] = @ \union {m.key}]
      BY <2>2 DEF ProcessProbe, DeliverGrant, AdvanceGrant
    <3>6. resp' \in [SM -> SUBSET Key]
      <4>1. resp \in [SM -> SUBSET Key]
        BY DEF Shape
      <4>2. [resp EXCEPT ![h] = @ \union {m.key}] \in [SM -> SUBSET Key]
        BY <3>1, <4>1
      <4>. QED
        BY <3>5, <4>1, <4>2
    <3>. QED
      BY <1>7, <3>2, <3>4, <3>6 DEF RecvCycle, Shape, core
  <2>. QED
    BY <1>7, <2>1, <2>2 DEF RecvCycle
<1>8. ASSUME NEW s \in SM, Send(s)
      PROVE  Shape'
  <2>1. missq \in [SM -> SUBSET Key] /\ mem \in [SM -> SUBSET Key] /\ wrq \in [SM -> Nat]
    BY DEF Shape
  <2>2. missq' \in [SM -> SUBSET Key] /\ mem' \in [SM -> SUBSET Key] /\ wrq' \in [SM -> Nat]
    <3>1. ASSUME NEW k \in missq[s], missq' = [missq EXCEPT ![s] = @ \ {k}],
                 mem' = [mem EXCEPT ![s] = @ \union {k}], UNCHANGED wrq
          PROVE  missq' \in [SM -> SUBSET Key] /\ mem' \in [SM -> SUBSET Key] /\ wrq' \in [SM -> Nat]
      BY <2>1, <3>1
    <3>2. CASE wrq[s] > 0 /\ wrq' = [wrq EXCEPT ![s] = @ - 1] /\ UNCHANGED <<missq, mem>>
      BY <2>1, <3>2
    <3>. QED
      BY <1>8, <3>1, <3>2 DEF Send
  <2>. QED
    BY <1>8, <2>2 DEF Send, Shape, core
<1>9. ASSUME NEW s \in SM, NEW k \in Key, Reply(s, k)
      PROVE  Shape'
  <2>1. mem' \in [SM -> SUBSET Key] /\ resp' \in [SM -> SUBSET Key]
    BY <1>9 DEF Reply, Shape
  <2>. QED
    BY <1>9, <2>1 DEF Reply, Shape, core
<1>10. ASSUME NEW s \in SM, NEW k \in Key, Fill(s, k)
       PROVE  Shape'
  <2>1. line' \in [SM -> [Lines -> Block]]
    BY <1>10, WayUpdate DEF Fill, Shape
  <2>2. /\ resp' \in [SM -> SUBSET Key] /\ drain' \in [SM -> SUBSET Key]
        /\ extra' \in [SM -> [Key -> 0 .. NLines]]
    BY <1>10, ProtocolAssumption DEF Fill, Shape
  <2>3. \A i \in Idx : Released(i, s, k) \in [SM -> SUBSET Message]
    <3>1. ASSUME NEW i \in Idx
          PROVE  \A f \in table[get_home(k)][i].filtered :
                   [sid |-> f.sid, key |-> f.key, wait |-> GrantWait(s, k)] \in Message
      BY HomeIsSM, GrantWaitIsNat DEF WellFormed, Tables, Entry, Fetch, Message
    <3>. QED
      BY <3>1 DEF Released, Shape
  <2>4. recv' \in [SM -> SUBSET Message]
    BY <1>10, <2>3 DEF Fill, Shape
  <2>. QED
    BY <1>10, <2>1, <2>2, <2>4 DEF Fill, Shape
<1>11. ASSUME NEW s \in SM, NEW k \in Key, NextAccess(s, k)
       PROVE  Shape'
  <2>1. mshr' \in [SM -> [Key -> Int]] /\ drain' \in [SM -> SUBSET Key]
    BY <1>11 DEF NextAccess, Shape
  <2>. QED
    BY <1>11, <2>1 DEF NextAccess, Shape
<1>. QED
  BY <1>2, <1>3, <1>4, <1>5, <1>6, <1>7, <1>8, <1>9, <1>10, <1>11 DEF Next

-----------------------------------------------------------------------------
(* What a step does to the tables is a step of the abstract machine.       *)
LEMMA TableStep ==
  ASSUME Shape, Next
  PROVE  DirNext \/ UNCHANGED table
<1>1. ASSUME NEW s \in SM, NEW keys \in SUBSET (Key \union {0}), table' = delAll(table, s, keys)
      PROVE  DirNext
  BY <1>1 DEF DirNext, DirRemove
<1>2. ASSUME NEW s \in SM, NEW k \in Key, NEW i \in Lines, TagAccess(s, k, i)
      PROVE  DirNext \/ UNCHANGED table
  <2>1. {line[s][i].key} \in SUBSET (Key \union {0})
    BY DEF Shape, Block
  <2>. QED
    BY <1>1, <1>2, <2>1 DEF TagAccess, del
<1>3. ASSUME NEW s \in SM, NEW k \in Key, ReadMiss(s, k) \/ ReadMerge(s, k)
      PROVE  DirNext \/ UNCHANGED table
  BY <1>2, <1>3 DEF ReadMiss, ReadMerge
<1>4. ASSUME NEW s \in SM, NEW k \in Key, Write(s, k)
      PROVE  DirNext \/ UNCHANGED table
  <2>1. table' = delAll(table, s, {k}) \/ UNCHANGED table
    BY <1>4 DEF Write, del
  <2>. QED
    BY <1>1, <2>1
<1>5. ASSUME NEW s \in SM, Flush(s)
      PROVE  DirNext
  <2>1. {line[s][i].key : i \in Lines} \in SUBSET (Key \union {0})
    BY DEF Shape, Block
  <2>. QED
    BY <1>1, <1>5, <2>1 DEF Flush
<1>6. ASSUME NEW h \in SM, RecvCycle(h)
      PROVE  DirNext \/ UNCHANGED table
  <2>1. ASSUME NEW m \in recv[h], ProbeInRange(h, m)
        PROVE  DirNext \/ UNCHANGED table
    <3>1. m.sid \in SM /\ m.key \in Key
      BY TickedAreMessages DEF Message
    <3>2. DirLookup(m.sid, m.key) \/ UNCHANGED table
      BY <2>1 DEF ProbeInRange, TakeEntry, Park, Grant, Bypass, DirLookup
    <3>. QED
      BY <3>1, <3>2 DEF DirNext
  <2>2. ASSUME NEW m \in recv[h],
               ProbeOutOfRange(h, m) \/ DeliverGrant(h, m) \/ AdvanceGrant(h, m)
        PROVE  UNCHANGED table
    BY <2>2 DEF ProbeOutOfRange, DeliverGrant, AdvanceGrant
  <2>. QED
    BY <1>6, <2>1, <2>2 DEF RecvCycle, ProcessProbe, TickOnly
<1>7. ASSUME NEW s \in SM, NEW k \in Key, Fill(s, k)
      PROVE  DirNext \/ UNCHANGED table
  <2>1. DirFill(s, k) \/ UNCHANGED table
    BY <1>7 DEF Fill, DirFill
  <2>. QED
    BY <2>1 DEF DirNext
<1>8. ASSUME NEW s \in SM, NEW k \in Key,
             HistCycle(s) \/ Send(s) \/ Reply(s, k) \/ NextAccess(s, k)
      PROVE  UNCHANGED table
  BY <1>8 DEF HistCycle, Send, Reply, NextAccess
<1>9. ASSUME NEW s \in SM, HistCycle(s) \/ Send(s)
      PROVE  UNCHANGED table
  BY <1>9 DEF HistCycle, Send
<1>. QED
  BY <1>3, <1>4, <1>5, <1>6, <1>7, <1>8, <1>9 DEF Next

(* The shape of the state and the well-formedness of the tables together   *)
(* are inductive.                                                          *)
LEMMA InitInv1 == Init => Inv1
<1>1. \A s \in SM : {} \subseteq Flit /\ {} \subseteq Message
  OBVIOUS
<1>2. Init => Shape
  BY ProtocolAssumption DEF Init, Shape, Block
<1>3. Init => WellFormed(table)
  BY EmptyWellFormed DEF Init
<1>. QED
  BY <1>2, <1>3 DEF Inv1

(* The types of the queues and the form of the tables are inductive.       *)
LEMMA StepInv1 == Inv1 /\ [Next]_vars => Inv1'
<1>1. ASSUME Inv1, Next
      PROVE  Inv1'
  <2>1. Shape'
    BY <1>1, ShapeStep DEF Inv1
  <2>2. WellFormed(table')
    BY <1>1, TableStep, StepKeeps DEF Inv1
  <2>. QED
    BY <2>1, <2>2 DEF Inv1
<1>2. ASSUME Inv1, UNCHANGED vars
      PROVE  Inv1'
  BY <1>2 DEF Inv1, Shape, vars
<1>. QED
  BY <1>1, <1>2

(* In every reachable state the queues are typed and the tables well       *)
(* formed.                                                                 *)
THEOREM ShapeAndTables == Spec => []Inv1
  BY InitInv1, StepInv1, PTL DEF Spec

(* The protocol implements the abstract directory: all the caches and the  *)
(* home do to the tables is a lookup, a removal or a fill.                 *)
THEOREM ProtocolImplementsDirectory == Spec => TablesSpec
<1>1. Init => DirInit
  BY DEF Init, DirInit
<1>2. Inv1 /\ [Next]_vars => [DirNext]_table
  BY TableStep DEF Inv1, vars
<1>. QED
  BY <1>1, <1>2, ShapeAndTables, PTL DEF Spec, TablesSpec, DirectorySpec

-----------------------------------------------------------------------------
(* A fetch that is on the memory path stays there, except that Fill takes  *)
(* it off.                                                                 *)
LEMMA MemoryPathStep ==
  ASSUME Shape, Next, NEW s \in SM, NEW k \in Key, OnMemoryPath(s, k)
  PROVE  OnMemoryPath(s, k)' \/ Fill(s, k)
<1>1. ASSUME NEW r \in SM, NEW a \in Key,
             ReadMiss(r, a) \/ ReadMerge(r, a) \/ Write(r, a) \/ NextAccess(r, a)
      PROVE  OnMemoryPath(s, k)'
  BY <1>1 DEF ReadMiss, ReadMerge, Write, NextAccess, OnMemoryPath
<1>2. ASSUME NEW r \in SM, Flush(r) \/ HistCycle(r)
      PROVE  OnMemoryPath(s, k)'
  BY <1>2 DEF Flush, HistCycle, OnMemoryPath
<1>3. ASSUME NEW h \in SM, RecvCycle(h)
      PROVE  OnMemoryPath(s, k)'
  <2>1. mem' = mem
    BY <1>3 DEF RecvCycle
  <2>2. ASSUME NEW m \in recv[h],
               ProcessProbe(h, m) \/ DeliverGrant(h, m) \/ AdvanceGrant(h, m)
        PROVE  missq[s] \subseteq missq'[s] /\ resp[s] \subseteq resp'[s]
    <3>1. missq' = missq \/ missq' = [missq EXCEPT ![m.sid] = @ \union {m.key}]
      BY <2>2
      DEF ProcessProbe, ProbeInRange, ProbeOutOfRange, TakeEntry, Park, Grant, Bypass,
          DeliverGrant, AdvanceGrant, ToMissQueue
    <3>2. resp' = resp \/ resp' = [resp EXCEPT ![h] = @ \union {m.key}]
      BY <2>2 DEF ProcessProbe, DeliverGrant, AdvanceGrant
    <3>3. missq \in [SM -> SUBSET Key] /\ resp \in [SM -> SUBSET Key]
      BY DEF Shape
    <3>. QED
      BY <3>1, <3>2, <3>3
  <2>3. missq[s] \subseteq missq'[s] /\ resp[s] \subseteq resp'[s]
    BY <1>3, <2>2 DEF RecvCycle, TickOnly
  <2>. QED
    BY <2>1, <2>3 DEF OnMemoryPath
<1>4. ASSUME NEW r \in SM, Send(r)
      PROVE  OnMemoryPath(s, k)'
  <2>1. missq \in [SM -> SUBSET Key] /\ mem \in [SM -> SUBSET Key]
    BY DEF Shape
  <2>. QED
    BY <1>4, <2>1 DEF Send, OnMemoryPath
<1>5. ASSUME NEW r \in SM, NEW a \in Key, Reply(r, a)
      PROVE  OnMemoryPath(s, k)'
  <2>1. resp \in [SM -> SUBSET Key] /\ mem \in [SM -> SUBSET Key]
    BY DEF Shape
  <2>. QED
    BY <1>5, <2>1 DEF Reply, OnMemoryPath
<1>6. ASSUME NEW r \in SM, NEW a \in Key, Fill(r, a), ~Fill(s, k)
      PROVE  OnMemoryPath(s, k)'
  <2>1. resp \in [SM -> SUBSET Key]
    BY DEF Shape
  <2>2. r # s \/ a # k
    BY <1>6
  <2>3. /\ resp' = [resp EXCEPT ![r] = @ \ {a}]
        /\ missq' = missq /\ mem' = mem
    BY <1>6 DEF Fill
  <2>. QED
    BY <2>1, <2>2, <2>3 DEF OnMemoryPath
<1>. QED
  BY <1>1, <1>2, <1>3, <1>4, <1>5, <1>6 DEF Next

(* Only TakeEntry makes an entry WAIT that did not, or for another block,  *)
(* and it sends the fetch of an SM in range to memory.                     *)
LEMMA NewWait ==
  ASSUME Inv1, Next, NEW h \in SM, NEW i \in Idx,
         table'[h][i].status = "WAIT",
         table[h][i].status # "WAIT" \/ table'[h][i].key # table[h][i].key
  PROVE  \E s \in SM : /\ check_in_range(s, h)
                      /\ table'[h][i].key \in missq'[s]
<1>1. WellFormed(table) /\ Shape
  BY DEF Inv1
<1>2. ASSUME NEW s \in SM, NEW keys, table' = delAll(table, s, keys)
      PROVE  FALSE
  BY <1>1, <1>2, DelKeeps
<1>3. ASSUME NEW s \in SM, NEW k \in Key, NEW j \in Lines, TagAccess(s, k, j)
      PROVE  FALSE
  BY <1>2, <1>3 DEF TagAccess, del
<1>4. ASSUME NEW s \in SM, NEW k \in Key,
             ReadMiss(s, k) \/ ReadMerge(s, k) \/ Write(s, k) \/ NextAccess(s, k) \/ Reply(s, k)
      PROVE  FALSE
  BY <1>2, <1>3, <1>4 DEF ReadMiss, ReadMerge, Write, NextAccess, Reply, del
<1>5. ASSUME NEW s \in SM, Flush(s) \/ HistCycle(s) \/ Send(s)
      PROVE  FALSE
  BY <1>2, <1>5 DEF Flush, HistCycle, Send
<1>6. ASSUME NEW s \in SM, NEW k \in Key, Fill(s, k)
      PROVE  FALSE
  <2>1. UNCHANGED table \/ \E j \in Idx : /\ HitAt(table, k, j, "WAIT")
                                         /\ table' = Release(ready(table, k, j), k, j)
    BY <1>6 DEF Fill
  <2>2. ASSUME NEW j \in Idx, HitAt(table, k, j, "WAIT"),
               table' = Release(ready(table, k, j), k, j)
        PROVE  FALSE
    <3>1. OneEntry(table, table', k, j) /\ table'[get_home(k)][j].status = "READY"
      BY <1>1, <2>2, FillKeeps
    <3>. QED
      BY <3>1 DEF OneEntry
  <2>. QED
    BY <2>1, <2>2
<1>7. ASSUME NEW r \in SM, RecvCycle(r)
      PROVE  \E s \in SM : check_in_range(s, h) /\ table'[h][i].key \in missq'[s]
  <2>1. PICK m \in recv[r] : ProcessProbe(r, m) \/ UNCHANGED table
    BY <1>7 DEF RecvCycle, DeliverGrant, AdvanceGrant, TickOnly
  <2>2. m.sid \in SM /\ m.key \in Key
    BY <1>1, TickedAreMessages DEF Message
  <2>3. check_in_range(m.sid, get_home(m.key))
        /\ \E j \in Idx : TakeEntry(r, m, j) \/ Park(r, m, j) \/ Grant(r, m, j)
    BY <2>1 DEF ProcessProbe, ProbeInRange, ProbeOutOfRange, Bypass
  <2>4. PICK j \in Idx : TakeEntry(r, m, j) \/ Park(r, m, j) \/ Grant(r, m, j)
    BY <2>3
  <2>5. CASE TakeEntry(r, m, j)
    <3>1. OneEntry(table, table', m.key, j) /\ table'[get_home(m.key)][j].key = m.key
      BY <1>1, <2>2, <2>3, <2>5, MissKeeps DEF TakeEntry
    <3>2. h = get_home(m.key) /\ i = j
      BY <3>1 DEF OneEntry
    <3>3. m.key \in missq'[m.sid]
      <4>1. missq \in [SM -> SUBSET Key]
        BY <1>1 DEF Shape
      <4>. QED
        BY <2>2, <2>5, <4>1 DEF TakeEntry, ToMissQueue
    <3>. QED
      BY <2>2, <2>3, <3>1, <3>2, <3>3
  <2>6. CASE Park(r, m, j)
    <3>1. /\ OneEntry(table, table', m.key, j)
          /\ table'[get_home(m.key)][j].key = m.key
          /\ table[get_home(m.key)][j].key = m.key
          /\ table[get_home(m.key)][j].status = "WAIT"
      BY <1>1, <2>2, <2>3, <2>6, ParkKeeps DEF Park, HitAt, ProbeStopsAt
    <3>. QED
      BY <3>1 DEF OneEntry
  <2>7. CASE Grant(r, m, j)
    <3>1. /\ OneEntry(table, table', m.key, j)
          /\ table'[get_home(m.key)][j].status = "READY"
      BY <1>1, <2>2, <2>3, <2>7, GrantKeeps DEF Grant
    <3>. QED
      BY <3>1 DEF OneEntry
  <2>. QED
    BY <2>4, <2>5, <2>6, <2>7
<1>. QED
  BY <1>4, <1>5, <1>6, <1>7 DEF Next

(* A fill by an SM in range readies the entry that waits for its block.    *)
LEMMA FillReadies ==
  ASSUME Inv1, FreedReads = {TRUE}, NEW s \in SM, NEW k \in Key, Fill(s, k),
         NEW i \in Idx, table[get_home(k)][i].status = "WAIT", table[get_home(k)][i].key = k,
         check_in_range(s, get_home(k))
  PROVE  table'[get_home(k)][i].status = "READY"
<1>1. WellFormed(table)
  BY DEF Inv1
<1>2. HitAt(table, k, i, "WAIT")
  BY <1>1, HomeIsSM DEF WellFormed, FoundByProbe, HitAt
<1>3. PICK j \in Idx : HitAt(table, k, j, "WAIT") /\ table' = Release(ready(table, k, j), k, j)
  BY <1>2 DEF Fill, HitWait
<1>4. i = j
  BY <1>2, <1>3, OneStop DEF HitAt
<1>. QED
  BY <1>1, <1>3, <1>4, FillKeeps

(* Waiters always have a filler.                                           *)
LEMMA FillerStep ==
  ASSUME Inv1, WaitHasFiller, FreedReads = {TRUE}, Next
  PROVE  WaitHasFiller'
<1> SUFFICES ASSUME NEW h \in SM, NEW i \in Idx, table'[h][i].status = "WAIT"
             PROVE  \E s \in SM : /\ check_in_range(s, h)
                                 /\ OnMemoryPath(s, table[h][i].key)'
  BY DEF WaitHasFiller
<1>1. CASE table[h][i].status # "WAIT" \/ table'[h][i].key # table[h][i].key
  BY <1>1, NewWait DEF OnMemoryPath
<1>2. CASE table[h][i].status = "WAIT" /\ table'[h][i].key = table[h][i].key
  <2>1. PICK k \in Key : k = table[h][i].key /\ get_home(k) = h
    BY <1>2 DEF Inv1, WellFormed, FoundByProbe
  <2>2. PICK s \in SM : check_in_range(s, h) /\ OnMemoryPath(s, k)
    BY <1>2, <2>1 DEF WaitHasFiller
  <2>3. ~Fill(s, k)
    BY <1>2, <2>1, <2>2, FillReadies
  <2>4. OnMemoryPath(s, k)'
    BY <2>2, <2>3, MemoryPathStep DEF Inv1
  <2>. QED
    BY <1>2, <2>1, <2>2, <2>4 DEF OnMemoryPath
<1>. QED
  BY <1>1, <1>2

(* An entry that WAITs always has a fetch on its way to memory whose fill  *)
(* will ready it, as long as the freed node keeps its contents.            *)
THEOREM WaitersHaveFiller == (FreedReads = {TRUE}) => (Spec => []WaitHasFiller)
<1> SUFFICES ASSUME FreedReads = {TRUE} PROVE Spec => []WaitHasFiller
  OBVIOUS
<1>1. Init => WaitHasFiller
  BY DEF Init, WaitHasFiller, EmptyTable, EmptyEntry
<1>2. Inv1 /\ WaitHasFiller /\ [Next]_vars => WaitHasFiller'
  <2>1. CASE UNCHANGED vars
    BY <2>1 DEF vars, WaitHasFiller, OnMemoryPath
  <2>. QED
    BY <2>1, FillerStep
<1>. QED
  BY <1>1, <1>2, ShapeAndTables, PTL DEF Spec

-----------------------------------------------------------------------------
(***************************************************************************)
(* No fetch is lost and none is answered twice.  A fetch is treated as a   *)
(* token: every step leaves it where it is, moves it to one other place,   *)
(* or ends it at the L1D that waits for it.                                *)
(***************************************************************************)

Mine(m, s, k) == m.sid = s /\ m.key = k

NoneOut(s, k) == \A m \in out[s] : m.key # k
OneOut(s, k)  == \E m \in out[s] : m.key = k /\ \A n \in out[s] : n.key = k => n = m

NoneRecv(s, k) == \A h \in SM : \A m \in recv[h] : ~Mine(m, s, k)
OneRecv(s, k)  ==
  \E h \in SM : \E m \in recv[h] :
    /\ Mine(m, s, k)
    /\ \A g \in SM : \A n \in recv[g] : Mine(n, s, k) => g = h /\ n = m

ParkedAt(s, k, h, i) == [sid |-> s, key |-> k] \in table[h][i].filtered
Parked(s, k) == \E h \in SM, i \in Idx : ParkedAt(s, k, h, i)

(* The places of FetchInOnePlace, with the tokens counted: at most one in  *)
(* the out queue and one in the queues of the homes.  On an entry there is *)
(* one by ParkedOnWait, in the queues of keys there is one by definition.  *)
OnePlace(s, k) ==
  \/ /\ Outstanding(s, k)
     /\ \/ OneOut(s, k)  /\ NoneRecv(s, k) /\ ~Parked(s, k)
           /\ k \notin missq[s] /\ k \notin mem[s] /\ k \notin resp[s]
        \/ NoneOut(s, k) /\ OneRecv(s, k)  /\ ~Parked(s, k)
           /\ k \notin missq[s] /\ k \notin mem[s] /\ k \notin resp[s]
        \/ NoneOut(s, k) /\ NoneRecv(s, k) /\ Parked(s, k)
           /\ k \notin missq[s] /\ k \notin mem[s] /\ k \notin resp[s]
        \/ NoneOut(s, k) /\ NoneRecv(s, k) /\ ~Parked(s, k)
           /\ k \in missq[s] /\ k \notin mem[s] /\ k \notin resp[s]
        \/ NoneOut(s, k) /\ NoneRecv(s, k) /\ ~Parked(s, k)
           /\ k \notin missq[s] /\ k \in mem[s] /\ k \notin resp[s]
        \/ NoneOut(s, k) /\ NoneRecv(s, k) /\ ~Parked(s, k)
           /\ k \notin missq[s] /\ k \notin mem[s] /\ k \in resp[s]
  \/ /\ ~Outstanding(s, k)
     /\ NoneOut(s, k) /\ NoneRecv(s, k) /\ ~Parked(s, k)
     /\ k \notin missq[s] /\ k \notin mem[s] /\ k \notin resp[s]

(* The MSHR entry of a block lives at least as long as its fetch, and is   *)
(* drained only when the fetch is over.                                    *)
Merged(s, k) ==
  /\ mshr[s][k] \in 0 .. MaxMerge
  /\ Outstanding(s, k) => mshr[s][k] > 0
  /\ k \in drain[s] => mshr[s][k] > 0 /\ ~Outstanding(s, k)

(* A message that is no probe waits at the SM it answers.                  *)
GrantsAtSM == \A h \in SM : \A m \in recv[h] : m.wait # 0 => m.sid = h

Fetches == GrantsAtSM /\ \A s \in SM, k \in Key : OnePlace(s, k) /\ Merged(s, k)

-----------------------------------------------------------------------------
(* Steps that leave the token of a fetch alone.                            *)

OutKept(s, k) == (NoneOut(s, k) => NoneOut(s, k)') /\ (OneOut(s, k) => OneOut(s, k)')
RecvKept(s, k) == (NoneRecv(s, k) => NoneRecv(s, k)') /\ (OneRecv(s, k) => OneRecv(s, k)')
ParkedKept(s, k) == Parked(s, k) <=> Parked(s, k)'
RestKept(s, k) ==
  /\ k \in missq[s] <=> k \in missq'[s]
  /\ k \in mem[s] <=> k \in mem'[s]
  /\ k \in resp[s] <=> k \in resp'[s]

(* A step that leaves every place of a fetch as it is leaves it in its     *)
(* one place.                                                              *)
LEMMA Undisturbed ==
  ASSUME NEW s \in SM, NEW k \in Key, OnePlace(s, k),
         OutKept(s, k), RecvKept(s, k), ParkedKept(s, k), RestKept(s, k),
         extra'[s][k] = extra[s][k]
  PROVE  OnePlace(s, k)'
  BY DEF OnePlace, OutKept, RecvKept, ParkedKept, RestKept, Outstanding

(* An out queue with the same messages of a block keeps its token.         *)
LEMMA SameOut ==
  ASSUME NEW s \in SM, NEW k \in Key, \A m : m.key = k => (m \in out[s] <=> m \in out'[s])
  PROVE  OutKept(s, k)
  BY DEF OutKept, NoneOut, OneOut

(* Home queues with the same messages of a fetch keep its token.           *)
LEMMA SameRecv ==
  ASSUME NEW s \in SM, NEW k \in Key,
         \A h \in SM : \A m : Mine(m, s, k) => (m \in recv[h] <=> m \in recv'[h])
  PROVE  RecvKept(s, k)
<1>1. NoneRecv(s, k) => NoneRecv(s, k)'
  BY DEF NoneRecv, Mine
<1>2. OneRecv(s, k) => OneRecv(s, k)'
  BY DEF OneRecv, Mine
<1>. QED
  BY <1>1, <1>2 DEF RecvKept

(* Entries with the same parked fetches keep its token.                    *)
LEMMA SameParked ==
  ASSUME NEW s \in SM, NEW k \in Key,
         \A h \in SM, i \in Idx : table'[h][i].filtered = table[h][i].filtered
  PROVE  ParkedKept(s, k)
  BY DEF ParkedKept, Parked, ParkedAt

(* Removing sharers moves no parked fetch (del, flush).                    *)
LEMMA DelParks ==
  ASSUME Inv1, NEW r \in SM, NEW keys, table' = delAll(table, r, keys)
  PROVE  \A s \in SM, k \in Key : ParkedKept(s, k)
<1>1. \A h \in SM, i \in Idx : table'[h][i].filtered = table[h][i].filtered
  BY DelKeeps DEF Inv1
<1>. QED
  BY <1>1, SameParked

(* The del of a victim (tag_array::access) moves no parked fetch.          *)
LEMMA TagAccessParks ==
  ASSUME Inv1, NEW r \in SM, NEW a \in Key, NEW i \in Lines, TagAccess(r, a, i)
  PROVE  \A s \in SM, k \in Key : ParkedKept(s, k)
<1>1. CASE table' = del(table, r, line[r][i].key)
  BY <1>1, DelParks DEF del
<1>2. CASE UNCHANGED table
  BY <1>2, SameParked
<1>. QED
  BY <1>1, <1>2 DEF TagAccess

-----------------------------------------------------------------------------
(* The accesses of the SM.                                                 *)

(* A first miss starts the one token of its fetch.                         *)
LEMMA ReadMissPlaces ==
  ASSUME Inv1, Fetches, NEW r \in SM, NEW a \in Key, ReadMiss(r, a),
         NEW s \in SM, NEW k \in Key
  PROVE  OnePlace(s, k)'
<1>1. PICK i \in Lines : TagAccess(r, a, i) /\ extra' = [extra EXCEPT ![r][a] = i]
  BY DEF ReadMiss
<1>2. ParkedKept(s, k)
  BY <1>1, TagAccessParks
<1>3. OnePlace(s, k) /\ OnePlace(r, a) /\ Merged(r, a)
  BY DEF Fetches
<1>4. /\ recv' = recv /\ missq' = missq /\ mem' = mem /\ resp' = resp
      /\ mshr[r][a] = 0
      /\ out \in [SM -> SUBSET Flit] /\ extra \in [SM -> [Key -> 0 .. NLines]]
  BY DEF ReadMiss, Inv1, Shape
<1>5. PICK m : /\ m = [key |-> a, wait |-> NOC_distance(r, get_home(a)) + 1]
               /\ out' = [out EXCEPT ![r] = @ \union {m}]
  BY DEF ReadMiss
<1>6. RecvKept(s, k) /\ RestKept(s, k)
  BY <1>4, SameRecv DEF RestKept
<1>7. CASE s = r /\ k = a
  <2>1. ~Outstanding(s, k)
    BY <1>3, <1>4, <1>7 DEF Merged
  <2>2. NoneOut(s, k) /\ NoneRecv(s, k) /\ ~Parked(s, k)
        /\ k \notin missq[s] /\ k \notin mem[s] /\ k \notin resp[s]
    BY <1>3, <1>7, <2>1 DEF OnePlace
  <2>3. OneOut(s, k)'
    BY <1>4, <1>5, <1>7, <2>2 DEF NoneOut, OneOut
  <2>4. Outstanding(s, k)'
    BY <1>1, <1>4, <1>7 DEF Outstanding, Lines
  <2>. QED
    BY <1>2, <1>6, <2>2, <2>3, <2>4 DEF OnePlace, ParkedKept, RecvKept, RestKept
<1>8. CASE s # r \/ k # a
  <2>1. OutKept(s, k)
    BY <1>4, <1>5, <1>8, SameOut
  <2>2. extra'[s][k] = extra[s][k]
    BY <1>1, <1>4, <1>8
  <2>. QED
    BY <1>2, <1>3, <1>6, <2>1, <2>2, Undisturbed
<1>. QED
  BY <1>7, <1>8

(* The other accesses, a flush and the writeback stage move no fetch.      *)
LEMMA QuietPlaces ==
  ASSUME Inv1, Fetches, NEW r \in SM, NEW a \in Key,
         ReadMerge(r, a) \/ Write(r, a) \/ NextAccess(r, a) \/ Flush(r),
         NEW s \in SM, NEW k \in Key
  PROVE  OnePlace(s, k)'
<1>1. /\ out' = out /\ recv' = recv /\ missq' = missq /\ mem' = mem /\ resp' = resp
      /\ extra' = extra
  BY DEF ReadMerge, Write, NextAccess, Flush
<1>2. \/ UNCHANGED table
      \/ \E i \in Lines : TagAccess(r, a, i)
      \/ \E keys : table' = delAll(table, r, keys)
  BY DEF ReadMerge, Write, NextAccess, Flush, del
<1>3. ParkedKept(s, k)
  BY <1>2, SameParked, TagAccessParks, DelParks
<1>4. OutKept(s, k) /\ RecvKept(s, k) /\ RestKept(s, k)
  BY <1>1, SameOut, SameRecv DEF RestKept
<1>. QED
  BY <1>1, <1>3, <1>4, Undisturbed DEF Fetches

-----------------------------------------------------------------------------
(* The way to the home.                                                    *)

(* A fetch comes closer on its out queue or becomes a probe at its home.   *)
LEMMA HistCyclePlaces ==
  ASSUME Inv1, Fetches, NEW r \in SM, HistCycle(r), NEW s \in SM, NEW k \in Key
  PROVE  OnePlace(s, k)'
<1> DEFINE probe(m) == [sid |-> r, key |-> m.key, wait |-> 0]
           closer(m) == [m EXCEPT !.wait = @ - 1]
<1>1. /\ OnePlace(s, k)
      /\ out \in [SM -> SUBSET Flit] /\ recv \in [SM -> SUBSET Message]
  BY DEF Fetches, Inv1, Shape
<1>2. /\ out' = [out EXCEPT ![r] = {closer(m) : m \in out[r] \ Arrived(r)}]
      /\ \A h \in SM : recv'[h] = recv[h] \union
           {probe(m) : m \in {n \in Arrived(r) : get_home(n.key) = h}}
  BY DEF HistCycle
<1>3. ParkedKept(s, k) /\ RestKept(s, k) /\ extra'[s][k] = extra[s][k]
  BY SameParked DEF HistCycle, core, RestKept
<1>4. CASE s # r
  <2>1. OutKept(s, k)
    BY <1>1, <1>2, <1>4, SameOut
  <2>2. RecvKept(s, k)
    BY <1>2, <1>4, SameRecv DEF Mine
  <2>. QED
    BY <1>1, <1>3, <2>1, <2>2, Undisturbed
<1>5. CASE s = r
  <2>1. \A m \in out[r] : closer(m).key = m.key /\ probe(m).key = m.key /\ probe(m).sid = r
    BY <1>1 DEF Flit
  <2>2. out'[r] = {closer(m) : m \in out[r] \ Arrived(r)} /\ Arrived(r) \subseteq out[r]
    BY <1>1, <1>2 DEF Arrived
  <2> HIDE DEF probe, closer
  <2>3. CASE NoneOut(s, k)
    <3>1. NoneOut(s, k)'
      BY <1>5, <2>1, <2>2, <2>3 DEF NoneOut
    <3>2. RecvKept(s, k)
      BY <1>2, <1>5, <2>1, <2>2, <2>3, SameRecv DEF NoneOut, Mine
    <3>3. OutKept(s, k)
      BY <2>3, <3>1 DEF OutKept, NoneOut, OneOut
    <3>. QED
      BY <1>1, <1>3, <3>2, <3>3, Undisturbed
  <2>4. CASE ~NoneOut(s, k)
    <3>1. OneOut(s, k) /\ NoneRecv(s, k) /\ Outstanding(s, k) /\ ~Parked(s, k)
          /\ k \notin missq[s] /\ k \notin mem[s] /\ k \notin resp[s]
      BY <1>1, <2>4 DEF OnePlace
    <3>2. PICK m \in out[r] : m.key = k /\ \A n \in out[r] : n.key = k => n = m
      BY <1>5, <3>1 DEF OneOut
    <3>3. CASE m \in Arrived(r)
      <4>1. NoneOut(s, k)'
        BY <1>5, <2>1, <2>2, <3>2, <3>3 DEF NoneOut
      <4>2. get_home(k) \in SM /\ probe(m) \in recv'[get_home(k)] /\ Mine(probe(m), s, k)
        BY <1>2, <1>5, <2>1, <3>2, <3>3, HomeIsSM DEF Mine
      <4>3. \A g \in SM : \A n \in recv'[g] :
              Mine(n, s, k) => g = get_home(k) /\ n = probe(m)
        BY <1>2, <2>1, <2>2, <3>1, <3>2 DEF NoneRecv, Mine
      <4>4. OneRecv(s, k)'
        BY <4>2, <4>3 DEF OneRecv, Mine
      <4>. QED
        BY <1>3, <3>1, <4>1, <4>4 DEF OnePlace, ParkedKept, RestKept, Outstanding
    <3>4. CASE m \notin Arrived(r)
      <4>1. closer(m) \in out'[s] /\ closer(m).key = k
        BY <1>5, <2>1, <2>2, <3>2, <3>4
      <4>2. \A n \in out'[s] : n.key = k => n = closer(m)
        BY <1>5, <2>1, <2>2, <3>2
      <4>3. OneOut(s, k)'
        BY <4>1, <4>2 DEF OneOut
      <4>4. NoneRecv(s, k)'
        BY <1>2, <2>1, <2>2, <3>1, <3>2, <3>4 DEF NoneRecv, Mine
      <4>. QED
        BY <1>3, <3>1, <4>3, <4>4 DEF OnePlace, ParkedKept, RestKept, Outstanding
    <3>. QED
      BY <3>3, <3>4
  <2>. QED
    BY <2>3, <2>4
<1>. QED
  BY <1>4, <1>5

-----------------------------------------------------------------------------
(* At the home.                                                            *)

Tick(h, g, o) == IF g = h /\ o.wait > Delay THEN CountDown(o) ELSE o

(* Counting a message down changes neither its SM nor its block.           *)
LEMMA TickMine ==
  ASSUME Shape, NEW h \in SM, NEW g \in SM, NEW o \in recv[g]
  PROVE  /\ o \in Message
         /\ Tick(h, g, o).sid = o.sid /\ Tick(h, g, o).key = o.key
         /\ CountDown(o).sid = o.sid /\ CountDown(o).key = o.key
<1>1. o \in Message
  BY DEF Shape
<1>. QED
  BY <1>1 DEF Tick, CountDown, Message

(* Ticked counts every message of the queue down.                          *)
LEMMA TickedIs ==
  ASSUME NEW h \in SM
  PROVE  Ticked(h) = {Tick(h, h, o) : o \in recv[h]}
  BY DEF Ticked, Tick

(* Messages of the other fetches stay, one cycle closer at h.              *)
LEMMA TickKeeps ==
  ASSUME NEW h \in SM, NEW s \in SM, NEW k \in Key, Shape,
         \A g \in SM : \A n \in recv'[g] : Mine(n, s, k) =>
           \E o \in recv[g] : Mine(o, s, k) /\ n = Tick(h, g, o),
         \A g \in SM : \A o \in recv[g] : Mine(o, s, k) => Tick(h, g, o) \in recv'[g]
  PROVE  RecvKept(s, k)
<1>1. NoneRecv(s, k) => NoneRecv(s, k)'
  BY DEF NoneRecv, Mine
<1>2. OneRecv(s, k) => OneRecv(s, k)'
  <2> SUFFICES ASSUME OneRecv(s, k) PROVE OneRecv(s, k)'
    OBVIOUS
  <2>1. PICK g \in SM : \E o \in recv[g] :
          /\ Mine(o, s, k)
          /\ \A f \in SM : \A n \in recv[f] : Mine(n, s, k) => f = g /\ n = o
    BY DEF OneRecv
  <2>2. PICK o \in recv[g] :
          /\ Mine(o, s, k)
          /\ \A f \in SM : \A n \in recv[f] : Mine(n, s, k) => f = g /\ n = o
    BY <2>1
  <2>3. Tick(h, g, o) \in recv'[g] /\ Mine(Tick(h, g, o), s, k)
    BY <2>2, TickMine DEF Mine
  <2>4. \A f \in SM : \A n \in recv'[f] : Mine(n, s, k) => f = g /\ n = Tick(h, g, o)
    BY <2>2
  <2>. QED
    BY <2>3, <2>4 DEF OneRecv, Mine
<1>. QED
  BY <1>1, <1>2 DEF RecvKept

(* What serving m leaves in the queues.                                    *)
LEMMA ServedIs ==
  ASSUME Shape, NEW h \in SM, NEW m \in recv[h], m.wait <= Delay
  PROVE  /\ Tick(h, h, m) = m
         /\ \A g \in SM : \A n :
              n \in Served(h, m)[g] <=>
                /\ \E o \in recv[g] : n = Tick(h, g, o)
                /\ g = h => n # m
<1>1. m.wait \in Nat /\ recv \in [SM -> SUBSET Message]
  BY TickMine DEF Message, Shape
<1>2. Tick(h, h, m) = m
  BY <1>1, ProtocolAssumption DEF Tick
<1>3. Served(h, m)[h] = Ticked(h) \ {m}
  BY <1>1 DEF Served
<1>4. \A g \in SM \ {h} : Served(h, m)[g] = recv[g]
  BY <1>1 DEF Served
<1>5. \A g \in SM \ {h} : \A o \in recv[g] : Tick(h, g, o) = o
  BY DEF Tick
<1>. QED
  BY <1>2, <1>3, <1>4, <1>5, TickedIs

(* The messages of another fetch stay, one cycle closer at h.              *)
LEMMA OthersTick ==
  ASSUME Shape, NEW h \in SM, NEW m \in recv[h], m.wait <= Delay,
         \/ recv' = Served(h, m)
         \/ recv' = Granted(h, m)
         \/ recv' = [recv EXCEPT ![h] = (Ticked(h) \ {m}) \union {CountDown(m)}],
         NEW s \in SM, NEW k \in Key, ~Mine(m, s, k)
  PROVE  /\ \A g \in SM : \A n \in recv'[g] : Mine(n, s, k) =>
              \E o \in recv[g] : Mine(o, s, k) /\ n = Tick(h, g, o)
         /\ \A g \in SM : \A o \in recv[g] : Mine(o, s, k) => Tick(h, g, o) \in recv'[g]
<1>1. m.sid \in SM /\ recv \in [SM -> SUBSET Message] /\ Served(h, m) \in [SM -> SUBSET Message]
  BY TickMine, QueuesTyped DEF Shape, Message
<1>2. \A g \in SM : \A n : Mine(n, s, k) => (n \in recv'[g] <=> n \in Served(h, m)[g])
  <2>1. CASE recv' = Served(h, m)
    BY <2>1
  <2>2. CASE recv' = Granted(h, m)
    BY <1>1, <2>2 DEF Granted, Mine
  <2>3. CASE recv' = [recv EXCEPT ![h] = (Ticked(h) \ {m}) \union {CountDown(m)}]
    <3>1. ~Mine(CountDown(m), s, k)
      BY TickMine DEF Mine
    <3>. QED
      BY <1>1, <2>3, <3>1 DEF Served
  <2>. QED
    BY <2>1, <2>2, <2>3
<1>3. \A g \in SM : \A n \in recv'[g] : Mine(n, s, k) =>
        \E o \in recv[g] : Mine(o, s, k) /\ n = Tick(h, g, o)
  BY <1>2, ServedIs, TickMine DEF Mine
<1>4. \A g \in SM : \A o \in recv[g] : Mine(o, s, k) => Tick(h, g, o) \in recv'[g]
  <2>1. ASSUME NEW g \in SM, NEW o \in recv[g], Mine(o, s, k)
        PROVE  Tick(h, g, o) \in recv'[g]
    <3>1. Mine(Tick(h, g, o), s, k) /\ Tick(h, g, o) # m
      BY <2>1, TickMine DEF Mine
    <3>. QED
      BY <1>2, <3>1, ServedIs
  <2>. QED
    BY <2>1
<1>. QED
  BY <1>3, <1>4

(* Serving a message moves no message of another fetch (recv_cycle).       *)
LEMMA OtherRecv ==
  ASSUME Shape, NEW h \in SM, NEW m \in recv[h], m.wait <= Delay,
         \/ recv' = Served(h, m)
         \/ recv' = Granted(h, m)
         \/ recv' = [recv EXCEPT ![h] = (Ticked(h) \ {m}) \union {CountDown(m)}],
         NEW s \in SM, NEW k \in Key, ~Mine(m, s, k)
  PROVE  RecvKept(s, k)
<1>1. \A g \in SM : \A n \in recv'[g] : Mine(n, s, k) =>
        \E o \in recv[g] : Mine(o, s, k) /\ n = Tick(h, g, o)
  BY OthersTick
<1>2. \A g \in SM : \A o \in recv[g] : Mine(o, s, k) => Tick(h, g, o) \in recv'[g]
  BY OthersTick
<1>. QED
  BY <1>1, <1>2, TickKeeps

(* Serving the sole message of a fetch leaves none.                        *)
LEMMA NoneLeft ==
  ASSUME Shape, NEW h \in SM, NEW m \in recv[h], m.wait <= Delay,
         OneRecv(m.sid, m.key)
  PROVE  \A g \in SM : \A n \in Served(h, m)[g] : ~Mine(n, m.sid, m.key)
<1>1. \A g \in SM : \A n \in recv[g] : Mine(n, m.sid, m.key) => g = h /\ n = m
  BY DEF OneRecv, Mine
<1>2. ASSUME NEW g \in SM, NEW n \in Served(h, m)[g], Mine(n, m.sid, m.key)
      PROVE  FALSE
  <2>1. PICK o \in recv[g] : n = Tick(h, g, o)
    BY ServedIs
  <2>2. g = h /\ o = m
    BY <1>1, <1>2, <2>1, TickMine DEF Mine
  <2>. QED
    BY <2>1, <2>2, ServedIs
<1>. QED
  BY <1>2

(* A served message that goes to the miss queue leaves no message behind.  *)
LEMMA TakenRecv ==
  ASSUME Shape, NEW h \in SM, NEW m \in recv[h], m.wait <= Delay,
         OneRecv(m.sid, m.key), recv' = Served(h, m),
         NEW s \in SM, NEW k \in Key, Mine(m, s, k)
  PROVE  NoneRecv(s, k)'
  BY NoneLeft DEF NoneRecv, Mine

(* A granted message waits at its SM, once.                                *)
LEMMA GrantedRecv ==
  ASSUME Shape, NEW h \in SM, NEW m \in recv[h], m.wait <= Delay,
         OneRecv(m.sid, m.key), recv' = Granted(h, m),
         NEW s \in SM, NEW k \in Key, Mine(m, s, k)
  PROVE  OneRecv(s, k)'
<1> DEFINE grant == [sid |-> m.sid, key |-> m.key, wait |-> GrantWait(m.sid, m.key)]
<1>1. m.sid = s /\ m.key = k
  BY DEF Mine
<1>2. recv' = [Served(h, m) EXCEPT ![s] = @ \union {grant}]
  BY <1>1 DEF Granted
<1>3. Served(h, m) \in [SM -> SUBSET Message]
  BY QueuesTyped
<1>4. grant.sid = s /\ grant.key = k
  BY <1>1
<1> HIDE DEF grant
<1>5. grant \in recv'[s]
  BY <1>2, <1>3
<1>6. \A g \in SM : \A n \in recv'[g] : Mine(n, s, k) => g = s /\ n = grant
  BY <1>1, <1>2, <1>3, NoneLeft
<1>. QED
  BY <1>4, <1>5, <1>6 DEF OneRecv, Mine

(* A grant that comes closer stays one message.                            *)
LEMMA AdvancedRecv ==
  ASSUME Shape, NEW h \in SM, NEW m \in recv[h], m.wait <= Delay,
         OneRecv(m.sid, m.key),
         recv' = [recv EXCEPT ![h] = (Ticked(h) \ {m}) \union {CountDown(m)}],
         NEW s \in SM, NEW k \in Key, Mine(m, s, k)
  PROVE  OneRecv(s, k)'
<1>1. m.sid = s /\ m.key = k /\ Mine(CountDown(m), s, k)
  BY TickMine DEF Mine
<1>2. recv \in [SM -> SUBSET Message]
  BY DEF Shape
<1>3. recv' = [Served(h, m) EXCEPT ![h] = @ \union {CountDown(m)}]
  BY <1>2 DEF Served
<1>4. Served(h, m) \in [SM -> SUBSET Message]
  BY QueuesTyped
<1>5. CountDown(m) \in recv'[h]
  BY <1>3, <1>4
<1>6. \A g \in SM : \A n \in recv'[g] : Mine(n, s, k) => g = h /\ n = CountDown(m)
  BY <1>1, <1>3, <1>4, NoneLeft
<1>. QED
  BY <1>1, <1>5, <1>6 DEF OneRecv, Mine

(* The sole place of a fetch with a message at some home is there.         *)
LEMMA AtHome ==
  ASSUME Inv1, Fetches, NEW h \in SM, NEW m \in recv[h]
  PROVE  /\ m.sid \in SM /\ m.key \in Key
         /\ Outstanding(m.sid, m.key)
         /\ NoneOut(m.sid, m.key) /\ OneRecv(m.sid, m.key) /\ ~Parked(m.sid, m.key)
         /\ m.key \notin missq[m.sid] /\ m.key \notin mem[m.sid] /\ m.key \notin resp[m.sid]
<1>1. m.sid \in SM /\ m.key \in Key
  BY TickMine DEF Inv1, Message
<1>2. ~NoneRecv(m.sid, m.key)
  BY DEF NoneRecv, Mine
<1>. QED
  BY <1>1, <1>2 DEF Fetches, OnePlace

(* Entries that are not parked on keep an empty list; Park adds the fetch  *)
(* of the message to its entry.                                            *)
LEMMA TakeParks ==
  ASSUME Inv1, NEW h \in SM, NEW m \in recv[h], NEW i \in Idx,
         check_in_range(m.sid, get_home(m.key)),
         TakeEntry(h, m, i) \/ Grant(h, m, i)
  PROVE  \A s \in SM, k \in Key : ParkedKept(s, k)
<1>1. m.sid \in SM /\ m.key \in Key /\ get_home(m.key) \in SM
  BY TickMine, HomeIsSM DEF Inv1, Message
<1>2. WellFormed(table)
  BY DEF Inv1
<1>3. /\ OneEntry(table, table', m.key, i)
      /\ table[get_home(m.key)][i].status # "WAIT"
      /\ table'[get_home(m.key)][i].filtered = {}
  BY <1>1, <1>2, MissKeeps, GrantKeeps DEF TakeEntry, Grant
<1>4. table[get_home(m.key)][i].filtered = {}
  BY <1>1, <1>2, <1>3 DEF WellFormed, ParkedOnWait
<1>5. \A g \in SM, j \in Idx : table'[g][j].filtered = table[g][j].filtered
  BY <1>3, <1>4 DEF OneEntry
<1>. QED
  BY <1>5, SameParked

(* Parking a fetch moves its token to the entry (HIST_table::add_mf).      *)
LEMMA ParkParks ==
  ASSUME Inv1, NEW h \in SM, NEW m \in recv[h], NEW i \in Idx,
         check_in_range(m.sid, get_home(m.key)), Park(h, m, i),
         NEW s \in SM, NEW k \in Key
  PROVE  /\ Mine(m, s, k) => Parked(s, k)'
         /\ ~Mine(m, s, k) => ParkedKept(s, k)
<1>1. m.sid \in SM /\ m.key \in Key /\ get_home(m.key) \in SM
  BY TickMine, HomeIsSM DEF Inv1, Message
<1>2. /\ OneEntry(table, table', m.key, i)
      /\ table'[get_home(m.key)][i].filtered =
           table[get_home(m.key)][i].filtered \union {[sid |-> m.sid, key |-> m.key]}
  BY <1>1, ParkKeeps DEF Park, Inv1
<1>3. \A g \in SM, j \in Idx :
        (g # get_home(m.key) \/ j # i) => table'[g][j].filtered = table[g][j].filtered
  BY <1>2 DEF OneEntry
<1>4. Mine(m, s, k) => Parked(s, k)'
  BY <1>1, <1>2 DEF Mine, Parked, ParkedAt
<1>5. ASSUME ~Mine(m, s, k)
      PROVE  ParkedKept(s, k)
  <2>1. [sid |-> m.sid, key |-> m.key] # [sid |-> s, key |-> k]
    BY <1>5 DEF Mine
  <2>2. \A g \in SM, j \in Idx : ParkedAt(s, k, g, j) <=> ParkedAt(s, k, g, j)'
    BY <1>2, <1>3, <2>1 DEF ParkedAt
  <2>. QED
    BY <2>2 DEF ParkedKept, Parked
<1>. QED
  BY <1>4, <1>5

(* A key pushed on the queue of one SM is new for that SM only.            *)
LEMMA Pushed ==
  ASSUME NEW q \in [SM -> SUBSET Key], NEW r \in SM, NEW a \in Key,
         NEW s \in SM, NEW k \in Key
  PROVE  k \in [q EXCEPT ![r] = @ \union {a}][s] <=> (k \in q[s] \/ (r = s /\ a = k))
  OBVIOUS

(* A message served at its home sends its fetch to one of: its entry, the  *)
(* requester's queues, the miss queue, the L1D.                            *)
LEMMA ServePlaces ==
  ASSUME Inv1, Fetches, NEW h \in SM, RecvCycle(h),
         NEW m \in recv[h], Next_Due(h, m),
         ProcessProbe(h, m) \/ DeliverGrant(h, m) \/ AdvanceGrant(h, m),
         NEW s \in SM, NEW k \in Key
  PROVE  OnePlace(s, k)'
<1>1. /\ m.sid \in SM /\ m.key \in Key
      /\ Outstanding(m.sid, m.key)
      /\ NoneOut(m.sid, m.key) /\ OneRecv(m.sid, m.key) /\ ~Parked(m.sid, m.key)
      /\ m.key \notin missq[m.sid] /\ m.key \notin mem[m.sid] /\ m.key \notin resp[m.sid]
  BY AtHome
<1>2. m.wait <= Delay
  BY DEF Next_Due, Due
<1>3. /\ Shape /\ OnePlace(s, k) /\ missq \in [SM -> SUBSET Key] /\ resp \in [SM -> SUBSET Key]
  BY DEF Inv1, Shape, Fetches
<1>4. /\ out' = out /\ mem' = mem /\ extra' = extra
  BY DEF RecvCycle, core
<1>5. OutKept(s, k) /\ (k \in mem[s] <=> k \in mem'[s]) /\ extra'[s][k] = extra[s][k]
  BY <1>4, SameOut
<1> DEFINE Rest == missq' = missq /\ resp' = resp
           ToMem == missq' = [missq EXCEPT ![m.sid] = @ \union {m.key}] /\ resp' = resp
           Answer == missq' = missq /\ resp' = [resp EXCEPT ![m.sid] = @ \union {m.key}]
           Advanced == recv' = [recv EXCEPT ![h] = (Ticked(h) \ {m}) \union {CountDown(m)}]
           Still == \A r \in SM, a \in Key : ParkedKept(r, a)
           Parks == \A r \in SM, a \in Key : /\ Mine(m, r, a) => Parked(r, a)'
                                             /\ ~Mine(m, r, a) => ParkedKept(r, a)
<1>6. \/ recv' = Served(h, m) /\ ToMem /\ Still
      \/ recv' = Served(h, m) /\ Rest /\ Parks
      \/ recv' = Granted(h, m) /\ Rest /\ Still
      \/ Advanced /\ Rest /\ Still
      \/ recv' = Served(h, m) /\ Answer /\ Still
  <2>1. CASE UNCHANGED table
    <3>1. Still
      BY <2>1, SameParked
    <3>2. CASE ProcessProbe(h, m) /\ ProbeOutOfRange(h, m)
      BY <3>1, <3>2 DEF ProcessProbe, ProbeOutOfRange, ToMissQueue
    <3>3. CASE ProcessProbe(h, m) /\ Bypass(h, m)
      BY <3>1, <3>3 DEF ProcessProbe, Bypass, ToMissQueue
    <3>4. ASSUME NEW i \in Idx, ProcessProbe(h, m), check_in_range(m.sid, get_home(m.key)),
                 TakeEntry(h, m, i) \/ Park(h, m, i) \/ Grant(h, m, i)
          PROVE  \/ recv' = Served(h, m) /\ ToMem /\ Still
                 \/ recv' = Served(h, m) /\ Rest /\ Parks
                 \/ recv' = Granted(h, m) /\ Rest /\ Still
      BY <3>1, <3>4, ParkParks DEF ProcessProbe, TakeEntry, Park, Grant, ToMissQueue
    <3>5. CASE DeliverGrant(h, m)
      <4>1. m.sid = h
        BY <3>5 DEF Fetches, GrantsAtSM, DeliverGrant
      <4>. QED
        BY <3>1, <3>5, <4>1 DEF DeliverGrant, ToMissQueue
    <3>6. CASE AdvanceGrant(h, m)
      BY <3>1, <3>6 DEF AdvanceGrant
    <3>. QED
      BY <3>2, <3>3, <3>4, <3>5, <3>6 DEF ProcessProbe, ProbeInRange
  <2>2. ASSUME NEW i \in Idx, ProcessProbe(h, m), check_in_range(m.sid, get_home(m.key)),
               TakeEntry(h, m, i) \/ Park(h, m, i) \/ Grant(h, m, i)
        PROVE  \/ recv' = Served(h, m) /\ ToMem /\ Still
               \/ recv' = Served(h, m) /\ Rest /\ Parks
               \/ recv' = Granted(h, m) /\ Rest /\ Still
    <3>1. CASE TakeEntry(h, m, i)
      BY <2>2, <3>1, TakeParks DEF ProcessProbe, TakeEntry, ToMissQueue
    <3>2. CASE Park(h, m, i)
      BY <2>2, <3>2, ParkParks DEF ProcessProbe, Park
    <3>3. CASE Grant(h, m, i)
      BY <2>2, <3>3, TakeParks DEF ProcessProbe, Grant
    <3>. QED
      BY <2>2, <3>1, <3>2, <3>3
  <2>3. UNCHANGED table \/ (/\ ProcessProbe(h, m) /\ check_in_range(m.sid, get_home(m.key))
                           /\ \E i \in Idx : TakeEntry(h, m, i) \/ Park(h, m, i) \/ Grant(h, m, i))
    BY DEF ProcessProbe, ProbeInRange, ProbeOutOfRange, Bypass, DeliverGrant, AdvanceGrant
  <2>. QED
    BY <2>1, <2>2, <2>3
<1>7. k \in missq'[s] <=> (k \in missq[s] \/ (ToMem /\ Mine(m, s, k)))
  BY <1>1, <1>3, <1>6, Pushed DEF Mine
<1>8. k \in resp'[s] <=> (k \in resp[s] \/ (Answer /\ Mine(m, s, k)))
  BY <1>1, <1>3, <1>6, Pushed DEF Mine
<1>9. CASE ~Mine(m, s, k)
  <2>1. RecvKept(s, k)
    BY <1>2, <1>3, <1>6, <1>9, OtherRecv
  <2>2. ParkedKept(s, k)
    BY <1>6, <1>9
  <2>3. RestKept(s, k)
    BY <1>5, <1>7, <1>8, <1>9 DEF RestKept
  <2>. QED
    BY <1>3, <1>5, <2>1, <2>2, <2>3, Undisturbed
<1>10. CASE Mine(m, s, k)
  <2>1. s = m.sid /\ k = m.key
    BY <1>10 DEF Mine
  <2>2. /\ Outstanding(s, k)' /\ NoneOut(s, k)' /\ k \notin mem'[s]
    BY <1>1, <1>4, <2>1 DEF Outstanding, NoneOut
  <2>3. recv' = Served(h, m) => NoneRecv(s, k)'
    BY <1>1, <1>2, <1>3, <1>10, TakenRecv
  <2>4. recv' = Granted(h, m) \/ Advanced => OneRecv(s, k)'
    BY <1>1, <1>2, <1>3, <1>10, GrantedRecv, AdvancedRecv
  <2>5. Still => ~Parked(s, k)'
    BY <1>1, <2>1 DEF ParkedKept
  <2>6. Parks => Parked(s, k)'
    BY <1>10
  <2>7. missq' = missq => k \notin missq'[s]
    BY <1>1, <2>1
  <2>8. resp' = resp => k \notin resp'[s]
    BY <1>1, <2>1
  <2>9. ToMem => k \in missq'[s]
    BY <1>7, <1>10
  <2>10. Answer => k \in resp'[s]
    BY <1>8, <1>10
  <2> HIDE DEF Still, Parks, Advanced
  <2>. QED
    BY <1>6, <2>2, <2>3, <2>4, <2>5, <2>6, <2>7, <2>8, <2>9, <2>10 DEF OnePlace
<1>. QED
  BY <1>9, <1>10

(* A cycle of a home that has nothing to serve.                            *)
LEMMA TickPlaces ==
  ASSUME Inv1, Fetches, NEW h \in SM, RecvCycle(h), TickOnly(h),
         NEW s \in SM, NEW k \in Key
  PROVE  OnePlace(s, k)'
<1>1. /\ recv' = [recv EXCEPT ![h] = Ticked(h)]
      /\ out' = out /\ mem' = mem /\ extra' = extra
      /\ table' = table /\ missq' = missq /\ resp' = resp
  BY DEF RecvCycle, TickOnly, core
<1>2. recv \in [SM -> SUBSET Message] /\ Shape /\ OnePlace(s, k)
  BY DEF Inv1, Shape, Fetches
<1>3. \A g \in SM : recv'[g] = {Tick(h, g, o) : o \in recv[g]}
  <2>1. \A g \in SM \ {h} : recv'[g] = {Tick(h, g, o) : o \in recv[g]}
    BY <1>1, <1>2 DEF Tick
  <2>. QED
    BY <1>1, <1>2, <2>1, TickedIs
<1>4. RecvKept(s, k)
  BY <1>2, <1>3, TickKeeps, TickMine DEF Mine
<1>. QED
  BY <1>1, <1>2, <1>4, SameOut, SameParked, Undisturbed DEF RestKept

(* recv_cycle moves the fetch it serves to one other place and no other    *)
(* fetch.                                                                  *)
LEMMA RecvPlaces ==
  ASSUME Inv1, Fetches, NEW h \in SM, RecvCycle(h), NEW s \in SM, NEW k \in Key
  PROVE  OnePlace(s, k)'
  BY ServePlaces, TickPlaces DEF RecvCycle

-----------------------------------------------------------------------------
(* Memory and the fill.                                                    *)

(* Taking a block from the queue of one SM takes no other fetch from it.   *)
LEMMA Pulled ==
  ASSUME NEW q \in [SM -> SUBSET Key], NEW r \in SM, NEW a \in Key,
         NEW s \in SM, NEW k \in Key
  PROVE  k \in [q EXCEPT ![r] = @ \ {a}][s] <=> (k \in q[s] /\ ~(r = s /\ a = k))
  OBVIOUS

(* Send and the memory move a fetch along the memory path.                 *)
LEMMA MemoryPlaces ==
  ASSUME Inv1, Fetches, NEW r \in SM, Send(r) \/ (\E a \in Key : Reply(r, a)),
         NEW s \in SM, NEW k \in Key
  PROVE  OnePlace(s, k)'
<1>1. /\ out' = out /\ recv' = recv /\ table' = table /\ extra' = extra
  BY DEF Send, Reply, core
<1>2. /\ missq \in [SM -> SUBSET Key] /\ mem \in [SM -> SUBSET Key] /\ resp \in [SM -> SUBSET Key]
      /\ OnePlace(s, k)
  BY DEF Inv1, Shape, Fetches
<1>3. OutKept(s, k) /\ RecvKept(s, k) /\ ParkedKept(s, k)
  BY <1>1, SameOut, SameRecv, SameParked
<1>4. ASSUME UNCHANGED <<missq, mem, resp>>
      PROVE  OnePlace(s, k)'
  BY <1>1, <1>2, <1>3, <1>4, Undisturbed DEF RestKept
<1>5. ASSUME NEW a \in Key, a \in missq[r], missq' = [missq EXCEPT ![r] = @ \ {a}],
             mem' = [mem EXCEPT ![r] = @ \union {a}], resp' = resp
      PROVE  OnePlace(s, k)'
  <2>1. /\ k \in missq'[s] <=> (k \in missq[s] /\ ~(r = s /\ a = k))
        /\ k \in mem'[s] <=> (k \in mem[s] \/ (r = s /\ a = k))
        /\ k \in resp'[s] <=> k \in resp[s]
    BY <1>2, <1>5, Pushed, Pulled
  <2>2. OutKept(s, k) /\ RecvKept(s, k) /\ ParkedKept(s, k) /\ Outstanding(s, k)' = Outstanding(s, k)
    BY <1>1, <1>3 DEF Outstanding
  <2>. QED
    BY <1>2, <1>5, <2>1, <2>2 DEF OnePlace, OutKept, RecvKept, ParkedKept
<1>6. ASSUME NEW a \in Key, a \in mem[r], mem' = [mem EXCEPT ![r] = @ \ {a}],
             resp' = [resp EXCEPT ![r] = @ \union {a}], missq' = missq
      PROVE  OnePlace(s, k)'
  <2>1. /\ k \in mem'[s] <=> (k \in mem[s] /\ ~(r = s /\ a = k))
        /\ k \in resp'[s] <=> (k \in resp[s] \/ (r = s /\ a = k))
        /\ k \in missq'[s] <=> k \in missq[s]
    BY <1>2, <1>6, Pushed, Pulled
  <2>2. OutKept(s, k) /\ RecvKept(s, k) /\ ParkedKept(s, k) /\ Outstanding(s, k)' = Outstanding(s, k)
    BY <1>1, <1>3 DEF Outstanding
  <2>. QED
    BY <1>2, <1>6, <2>1, <2>2 DEF OnePlace, OutKept, RecvKept, ParkedKept
<1>7. ASSUME NEW a \in missq[r], missq' = [missq EXCEPT ![r] = @ \ {a}],
             mem' = [mem EXCEPT ![r] = @ \union {a}], resp' = resp
      PROVE  OnePlace(s, k)'
  BY <1>2, <1>5, <1>7
<1>. QED
  BY <1>4, <1>6, <1>7 DEF Send, Reply

(* A fetch is parked on one entry, the one that waits for its block.       *)
LEMMA ParkedOnce ==
  ASSUME WellFormed(table), NEW s \in SM, NEW k \in Key,
         NEW h \in SM, NEW i \in Idx, ParkedAt(s, k, h, i),
         NEW g \in SM, NEW j \in Idx, ParkedAt(s, k, g, j)
  PROVE  g = h /\ j = i
<1>1. /\ table[g][j].status = "WAIT" /\ table[g][j].key = k
      /\ table[h][i].status = "WAIT" /\ table[h][i].key = k
  BY DEF ParkedAt, WellFormed, ParkedOnWait
<1>2. /\ get_home(k) = g /\ ProbeStopsAt(table, k, j)
      /\ get_home(k) = h /\ ProbeStopsAt(table, k, i)
  BY <1>1 DEF WellFormed, FoundByProbe
<1>. QED
  BY <1>2, OneStop

(* The fill of an entry moves the fetches parked on it, and no others, to  *)
(* the queues of their SMs.                                                *)
LEMMA FillMoves ==
  ASSUME Inv1, NEW r \in SM, NEW a \in Key, Fill(r, a), NEW s \in SM, NEW k \in Key
  PROVE  \/ RecvKept(s, k) /\ ParkedKept(s, k)
         \/ /\ Parked(s, k) /\ ~Parked(s, k)'
            /\ NoneRecv(s, k) => OneRecv(s, k)'
<1>1. CASE UNCHANGED <<table, recv>>
  BY <1>1, SameRecv, SameParked
<1>2. ASSUME NEW i \in Idx, HitAt(table, a, i, "WAIT"),
             table' = Release(ready(table, a, i), a, i), recv' = Released(i, r, a)
      PROVE  \/ RecvKept(s, k) /\ ParkedKept(s, k)
             \/ /\ Parked(s, k) /\ ~Parked(s, k)'
                /\ NoneRecv(s, k) => OneRecv(s, k)'
  <2> DEFINE h == get_home(a)
             grant == [sid |-> s, key |-> k, wait |-> GrantWait(r, a)]
  <2>1. h \in SM /\ WellFormed(table) /\ recv \in [SM -> SUBSET Message]
    BY HomeIsSM DEF Inv1, Shape
  <2>2. OneEntry(table, table', a, i) /\ table'[h][i].filtered = {}
    BY <1>2, <2>1, FillKeeps
  <2>3. \A f \in table[h][i].filtered : f \in Fetch
    BY <2>1 DEF WellFormed, Tables, Entry
  <2>4. \A n : n \in recv'[s] <=>
          \/ n \in recv[s]
          \/ \E f \in table[h][i].filtered :
               f.sid = s /\ n = [sid |-> f.sid, key |-> f.key, wait |-> GrantWait(r, a)]
    BY <1>2 DEF Released
  <2>5. \A g \in SM : \A n \in recv'[g] :
          n \in recv[g] \/ \E f \in table[h][i].filtered :
               f.sid = g /\ n = [sid |-> f.sid, key |-> f.key, wait |-> GrantWait(r, a)]
    BY <1>2 DEF Released
  <2>6. \A g \in SM : recv[g] \subseteq recv'[g]
    BY <1>2 DEF Released
  <2>7. \A f \in Fetch : f.sid = s /\ f.key = k => f = [sid |-> s, key |-> k]
    BY DEF Fetch
  <2>8. CASE ParkedAt(s, k, h, i)
    <3>1. Parked(s, k)
      BY <2>1, <2>8 DEF Parked
    <3>2. ~Parked(s, k)'
      <4>1. \A g \in SM, j \in Idx : ParkedAt(s, k, g, j) => g = h /\ j = i
        BY <2>1, <2>8, ParkedOnce
      <4>. QED
        BY <2>2, <4>1 DEF Parked, ParkedAt, OneEntry
    <3>3. ASSUME NoneRecv(s, k)
          PROVE  OneRecv(s, k)'
      <4>1. [sid |-> s, key |-> k] \in table[h][i].filtered
        BY <2>8 DEF ParkedAt
      <4>2. grant \in recv'[s] /\ Mine(grant, s, k)
        BY <2>4, <4>1 DEF Mine
      <4>3. \A g \in SM : \A n \in recv'[g] : Mine(n, s, k) => g = s /\ n = grant
        BY <2>5, <3>3 DEF NoneRecv, Mine
      <4> HIDE DEF grant
      <4>. QED
        BY <4>2, <4>3 DEF OneRecv, Mine
    <3>. QED
      BY <3>1, <3>2, <3>3
  <2>9. CASE ~ParkedAt(s, k, h, i)
    <3>1. \A g \in SM : \A n : Mine(n, s, k) => (n \in recv[g] <=> n \in recv'[g])
      BY <2>3, <2>5, <2>6, <2>7, <2>9 DEF ParkedAt, Mine
    <3>2. \A g \in SM, j \in Idx : ParkedAt(s, k, g, j) <=> ParkedAt(s, k, g, j)'
      BY <2>2, <2>9 DEF ParkedAt, OneEntry
    <3>. QED
      BY <3>1, <3>2, SameRecv DEF ParkedKept, Parked
  <2>. QED
    BY <2>8, <2>9
<1>. QED
  BY <1>1, <1>2 DEF Fill

(* A fill ends the fetch it answers and moves the parked ones to their     *)
(* SMs.                                                                    *)
LEMMA FillPlaces ==
  ASSUME Inv1, Fetches, NEW r \in SM, NEW a \in Key, Fill(r, a), NEW s \in SM, NEW k \in Key
  PROVE  OnePlace(s, k)'
<1>1. /\ out' = out /\ missq' = missq /\ mem' = mem
      /\ a \in resp[r] /\ resp' = [resp EXCEPT ![r] = @ \ {a}]
      /\ extra' = [extra EXCEPT ![r][a] = 0]
  BY DEF Fill
<1>2. /\ resp \in [SM -> SUBSET Key] /\ extra \in [SM -> [Key -> 0 .. NLines]]
      /\ OnePlace(s, k)
  BY DEF Inv1, Shape, Fetches
<1>3. k \in resp'[s] <=> (k \in resp[s] /\ ~(r = s /\ a = k))
  BY <1>1, <1>2, Pulled
<1>4. OutKept(s, k) /\ (k \in missq[s] <=> k \in missq'[s]) /\ (k \in mem[s] <=> k \in mem'[s])
  BY <1>1, SameOut
<1>5. CASE r = s /\ a = k
  <2>1. /\ NoneOut(s, k) /\ NoneRecv(s, k) /\ ~Parked(s, k)
        /\ k \notin missq[s] /\ k \notin mem[s]
    BY <1>1, <1>2, <1>5 DEF OnePlace
  <2>2. RecvKept(s, k) /\ ParkedKept(s, k)
    BY <2>1, FillMoves
  <2>3. ~Outstanding(s, k)'
    BY <1>1, <1>2, <1>5 DEF Outstanding
  <2>. QED
    BY <1>3, <1>4, <1>5, <2>1, <2>2, <2>3 DEF OnePlace, OutKept, RecvKept, ParkedKept
<1>6. CASE ~(r = s /\ a = k)
  <2>1. extra'[s][k] = extra[s][k] /\ RestKept(s, k)
    BY <1>1, <1>2, <1>3, <1>4, <1>6 DEF RestKept
  <2>2. CASE RecvKept(s, k) /\ ParkedKept(s, k)
    BY <1>2, <1>4, <2>1, <2>2, Undisturbed
  <2>3. CASE Parked(s, k) /\ ~Parked(s, k)' /\ (NoneRecv(s, k) => OneRecv(s, k)')
    BY <1>2, <1>4, <2>1, <2>3 DEF OnePlace, OutKept, RestKept, Outstanding
  <2>. QED
    BY <2>2, <2>3, FillMoves
<1>. QED
  BY <1>5, <1>6

(* Every step keeps each fetch in one place.                               *)
LEMMA PlacesStep ==
  ASSUME Inv1, Fetches, Next, NEW s \in SM, NEW k \in Key
  PROVE  OnePlace(s, k)'
  BY ReadMissPlaces, QuietPlaces, HistCyclePlaces, RecvPlaces, MemoryPlaces, FillPlaces DEF Next

-----------------------------------------------------------------------------
(* The MSHRs.                                                              *)

(* Every step keeps the MSHR entry of a block at least as long as its      *)
(* fetch.                                                                  *)
LEMMA MergedStep ==
  ASSUME Inv1, Fetches, Next, NEW s \in SM, NEW k \in Key
  PROVE  Merged(s, k)'
<1>1. /\ Merged(s, k)
      /\ mshr \in [SM -> [Key -> Int]] /\ drain \in [SM -> SUBSET Key]
      /\ extra \in [SM -> [Key -> 0 .. NLines]]
  BY DEF Inv1, Shape, Fetches
<1>2. ASSUME mshr'[s][k] = mshr[s][k], k \in drain'[s] => k \in drain[s],
             extra'[s][k] = extra[s][k]
      PROVE  Merged(s, k)'
  BY <1>1, <1>2 DEF Merged, Outstanding
<1>3. ASSUME NEW r \in SM, NEW a \in Key, ReadMiss(r, a)
      PROVE  Merged(s, k)'
  <2>1. PICK i \in Lines : extra' = [extra EXCEPT ![r][a] = i]
    BY <1>3 DEF ReadMiss
  <2>2. mshr' = [mshr EXCEPT ![r][a] = 1] /\ mshr[r][a] = 0 /\ drain' = drain
    BY <1>3 DEF ReadMiss
  <2>3. CASE r = s /\ a = k
    <3>1. mshr'[s][k] = 1 /\ k \notin drain'[s]
      BY <1>1, <2>2, <2>3 DEF Merged
    <3>. QED
      BY <3>1, ProtocolAssumption DEF Merged
  <2>4. CASE ~(r = s /\ a = k)
    BY <1>1, <1>2, <2>1, <2>2, <2>4
  <2>. QED
    BY <2>3, <2>4
<1>4. ASSUME NEW r \in SM, NEW a \in Key, ReadMerge(r, a)
      PROVE  Merged(s, k)'
  <2>1. /\ mshr' = [mshr EXCEPT ![r][a] = @ + 1] /\ mshr[r][a] \in 1 .. MaxMerge - 1
        /\ drain' = drain /\ extra' = extra
    BY <1>4 DEF ReadMerge
  <2>2. CASE r = s /\ a = k
    BY <1>1, <2>1, <2>2, ProtocolAssumption DEF Merged, Outstanding
  <2>3. CASE ~(r = s /\ a = k)
    BY <1>1, <1>2, <2>1, <2>3
  <2>. QED
    BY <2>2, <2>3
<1>5. ASSUME NEW r \in SM, NEW a \in Key, NextAccess(r, a)
      PROVE  Merged(s, k)'
  <2>1. /\ a \in drain[r] /\ mshr' = [mshr EXCEPT ![r][a] = @ - 1] /\ extra' = extra
        /\ drain' = [drain EXCEPT ![r] = IF mshr[r][a] = 1 THEN @ \ {a} ELSE @]
    BY <1>5 DEF NextAccess
  <2>2. CASE r = s /\ a = k
    <3>1. mshr[s][k] \in 1 .. MaxMerge /\ ~Outstanding(s, k)
      BY <1>1, <2>1, <2>2, ProtocolAssumption DEF Merged
    <3>2. mshr'[s][k] = mshr[s][k] - 1 /\ ~Outstanding(s, k)'
      BY <1>1, <2>1, <2>2, <3>1 DEF Outstanding
    <3>3. mshr[s][k] = 1 => k \notin drain'[s]
      BY <1>1, <2>1, <2>2
    <3>. QED
      BY <3>1, <3>2, <3>3, ProtocolAssumption DEF Merged
  <2>3. CASE ~(r = s /\ a = k)
    BY <1>1, <1>2, <2>1, <2>3
  <2>. QED
    BY <2>2, <2>3
<1>6. ASSUME NEW r \in SM, NEW a \in Key, Fill(r, a)
      PROVE  Merged(s, k)'
  <2>1. /\ a \in resp[r] /\ mshr' = mshr /\ extra' = [extra EXCEPT ![r][a] = 0]
        /\ drain' = [drain EXCEPT ![r] = @ \union {a}]
    BY <1>6 DEF Fill
  <2>2. CASE r = s /\ a = k
    <3>1. Outstanding(s, k) /\ extra'[s][k] = 0
      BY <1>1, <2>1, <2>2 DEF Fetches, OnePlace
    <3>. QED
      BY <1>1, <2>1, <3>1 DEF Merged, Outstanding
  <2>3. CASE ~(r = s /\ a = k)
    BY <1>1, <1>2, <2>1, <2>3
  <2>. QED
    BY <2>2, <2>3
<1>7. ASSUME NEW r \in SM, NEW a \in Key,
             Write(r, a) \/ Flush(r) \/ HistCycle(r) \/ RecvCycle(r) \/ Send(r) \/ Reply(r, a)
      PROVE  Merged(s, k)'
  <2>1. mshr' = mshr /\ drain' = drain /\ extra' = extra
    BY <1>7 DEF Write, Flush, HistCycle, RecvCycle, Send, Reply, core
  <2>. QED
    BY <1>2, <2>1
<1>. QED
  BY <1>3, <1>4, <1>5, <1>6, <1>7 DEF Next

-----------------------------------------------------------------------------
(* Every step leaves grants at the SM they answer.                         *)
LEMMA GrantsStep ==
  ASSUME Inv1, Fetches, Next
  PROVE  GrantsAtSM'
<1>1. GrantsAtSM /\ Shape /\ recv \in [SM -> SUBSET Message]
  BY DEF Fetches, Inv1, Shape
<1>2. CASE UNCHANGED recv
  BY <1>1, <1>2 DEF GrantsAtSM
<1>3. ASSUME NEW r \in SM, HistCycle(r)
      PROVE  GrantsAtSM'
  <2>1. \A h \in SM : \A n \in recv'[h] : n \in recv[h] \/ n.wait = 0
    BY <1>3 DEF HistCycle
  <2>. QED
    BY <1>1, <2>1 DEF GrantsAtSM
<1>4. ASSUME NEW h \in SM, NEW o \in recv[h]
      PROVE  CountDown(o).wait # 0 => CountDown(o).sid = h
  BY <1>1, <1>4, TickMine DEF GrantsAtSM, CountDown, Message
<1>5. ASSUME NEW h \in SM
      PROVE  \A n \in Ticked(h) : n.wait # 0 => n.sid = h
  BY <1>1, <1>4 DEF Ticked, GrantsAtSM
<1>6. ASSUME NEW h \in SM, RecvCycle(h)
      PROVE  GrantsAtSM'
  <2>1. \A m \in recv[h], g \in SM : \A n \in Served(h, m)[g] : n.wait # 0 => n.sid = g
    BY <1>1, <1>5 DEF Served, GrantsAtSM
  <2>2. CASE recv' = [recv EXCEPT ![h] = Ticked(h)]
    BY <1>1, <1>5, <2>2 DEF GrantsAtSM
  <2>3. ASSUME NEW m \in recv[h],
               \/ recv' = Served(h, m) \/ recv' = Granted(h, m)
               \/ recv' = [recv EXCEPT ![h] = (Ticked(h) \ {m}) \union {CountDown(m)}]
        PROVE  GrantsAtSM'
    <3>1. CASE recv' = Served(h, m)
      BY <2>1, <3>1 DEF GrantsAtSM
    <3>2. CASE recv' = Granted(h, m)
      <4>1. Served(h, m) \in [SM -> SUBSET Message]
        BY <1>1, QueuesTyped
      <4>. QED
        BY <2>1, <3>2, <4>1 DEF GrantsAtSM, Granted
    <3>3. CASE recv' = [recv EXCEPT ![h] = (Ticked(h) \ {m}) \union {CountDown(m)}]
      BY <1>1, <1>4, <1>5, <3>3 DEF GrantsAtSM
    <3>. QED
      BY <2>3, <3>1, <3>2, <3>3
  <2>. QED
    BY <1>6, <2>2, <2>3
    DEF RecvCycle, TickOnly, ProcessProbe, ProbeInRange, ProbeOutOfRange, TakeEntry, Park,
        Grant, Bypass, DeliverGrant, AdvanceGrant
<1>7. ASSUME NEW r \in SM, NEW a \in Key, Fill(r, a)
      PROVE  GrantsAtSM'
  <2>1. \A i \in Idx, h \in SM : \A n \in Released(i, r, a)[h] : n \in recv[h] \/ n.sid = h
    BY DEF Released
  <2>. QED
    BY <1>1, <1>2, <1>7, <2>1 DEF Fill, GrantsAtSM
<1>8. ASSUME NEW r \in SM, NEW a \in Key,
             ReadMiss(r, a) \/ ReadMerge(r, a) \/ Write(r, a) \/ Reply(r, a) \/ NextAccess(r, a)
      PROVE  UNCHANGED recv
  BY <1>8 DEF ReadMiss, ReadMerge, Write, Reply, NextAccess
<1>9. ASSUME NEW r \in SM, Flush(r) \/ Send(r)
      PROVE  UNCHANGED recv
  BY <1>9 DEF Flush, Send
<1>. QED
  BY <1>2, <1>3, <1>6, <1>7, <1>8, <1>9 DEF Next

-----------------------------------------------------------------------------
Inv2 == Inv1 /\ Fetches

(* No fetch is under way at the start.                                     *)
LEMMA InitFetches == Init => Fetches
<1> SUFFICES ASSUME Init PROVE Fetches
  OBVIOUS
<1>1. GrantsAtSM
  BY DEF Init, GrantsAtSM
<1>2. ASSUME NEW s \in SM, NEW k \in Key
      PROVE  OnePlace(s, k)
  <2>1. NoneOut(s, k) /\ NoneRecv(s, k)
    BY DEF Init, NoneOut, NoneRecv
  <2>2. ~Parked(s, k)
    BY DEF Init, Parked, ParkedAt, EmptyTable, EmptyEntry
  <2>. QED
    BY <2>1, <2>2 DEF Init, OnePlace, Outstanding
<1>3. ASSUME NEW s \in SM, NEW k \in Key
      PROVE  Merged(s, k)
  BY ProtocolAssumption DEF Init, Merged, Outstanding
<1>. QED
  BY <1>1, <1>2, <1>3 DEF Fetches

(* The count of the fetches is inductive, given the types and the tables.  *)
LEMMA StepFetches == Inv1 /\ Fetches /\ [Next]_vars => Fetches'
<1>1. ASSUME Inv1, Fetches, Next
      PROVE  Fetches'
  BY <1>1, PlacesStep, MergedStep, GrantsStep DEF Fetches
<1>2. ASSUME Fetches, UNCHANGED vars
      PROVE  Fetches'
  <2>1. GrantsAtSM'
    BY <1>2 DEF vars, Fetches, GrantsAtSM
  <2>2. ASSUME NEW s \in SM, NEW k \in Key
        PROVE  OnePlace(s, k)'
    <3>1. OutKept(s, k) /\ RecvKept(s, k) /\ ParkedKept(s, k)
      BY <1>2, SameOut, SameRecv, SameParked DEF vars
    <3>2. RestKept(s, k) /\ extra'[s][k] = extra[s][k]
      BY <1>2 DEF vars, RestKept
    <3>. QED
      BY <1>2, <3>1, <3>2, Undisturbed DEF Fetches
  <2>3. \A s \in SM, k \in Key : Merged(s, k)'
    BY <1>2 DEF vars, Fetches, Merged, Outstanding
  <2>. QED
    BY <2>1, <2>2, <2>3 DEF Fetches
<1>. QED
  BY <1>1, <1>2

(* In every reachable state each fetch is counted once, and its MSHR       *)
(* entry is alive.                                                         *)
THEOREM EveryFetchCounted == Spec => []Inv2
  BY InitFetches, StepFetches, ShapeAndTables, PTL DEF Spec, Inv2

(* The counted places are the places of the property.                      *)
LEMMA PlacesCounted ==
  ASSUME Inv2
  PROVE  FetchInOnePlace
<1> SUFFICES ASSUME NEW s \in SM, NEW k \in Key
             PROVE  IF Outstanding(s, k) THEN \E p \in Places(s, k) : Places(s, k) = {p}
                                         ELSE Places(s, k) = {}
  BY DEF FetchInOnePlace
<1> DEFINE PO == {<<"out", s, m.wait>> : m \in {n \in out[s] : n.key = k}}
           PR == UNION {{<<"recv", h, m.wait>> :
                   m \in {n \in recv[h] : n.sid = s /\ n.key = k}} : h \in SM}
           PP == {<<"parked", p[1], p[2]>> :
                   p \in {q \in SM \X Idx : [sid |-> s, key |-> k] \in table[q[1]][q[2]].filtered}}
           PQ == IF k \in missq[s] THEN {<<"missq", s, 0>>} ELSE {}
           PM == IF k \in mem[s]   THEN {<<"mem", s, 0>>}   ELSE {}
           PA == IF k \in resp[s]  THEN {<<"resp", s, 0>>}  ELSE {}
<1>1. Places(s, k) = PO \union PR \union PP \union PQ \union PM \union PA
  BY DEF Places
<1>2. NoneOut(s, k) => PO = {}
  BY DEF NoneOut
<1>3. NoneRecv(s, k) => PR = {}
  BY DEF NoneRecv, Mine
<1>4. ~Parked(s, k) => PP = {}
  BY DEF Parked, ParkedAt
<1>5. OneOut(s, k) => \E p : PO = {p}
  <2> SUFFICES ASSUME OneOut(s, k) PROVE \E p : PO = {p}
    OBVIOUS
  <2>1. PICK m \in out[s] : m.key = k /\ \A n \in out[s] : n.key = k => n = m
    BY DEF OneOut
  <2>2. PO = {<<"out", s, m.wait>>}
    BY <2>1
  <2>. QED
    BY <2>2
<1>6. OneRecv(s, k) => \E p : PR = {p}
  <2> SUFFICES ASSUME OneRecv(s, k) PROVE \E p : PR = {p}
    OBVIOUS
  <2>1. PICK h \in SM : \E m \in recv[h] :
          Mine(m, s, k) /\ \A g \in SM : \A n \in recv[g] : Mine(n, s, k) => g = h /\ n = m
    BY DEF OneRecv
  <2>2. PICK m \in recv[h] :
          Mine(m, s, k) /\ \A g \in SM : \A n \in recv[g] : Mine(n, s, k) => g = h /\ n = m
    BY <2>1
  <2>3. PR = {<<"recv", h, m.wait>>}
    BY <2>2 DEF Mine
  <2>. QED
    BY <2>3
<1>7. Parked(s, k) => \E p : PP = {p}
  <2> SUFFICES ASSUME Parked(s, k) PROVE \E p : PP = {p}
    OBVIOUS
  <2>1. PICK h \in SM, i \in Idx : ParkedAt(s, k, h, i)
    BY DEF Parked
  <2>2. \A g \in SM, j \in Idx : ParkedAt(s, k, g, j) => g = h /\ j = i
    BY <2>1, ParkedOnce DEF Inv2, Inv1
  <2>3. {q \in SM \X Idx : [sid |-> s, key |-> k] \in table[q[1]][q[2]].filtered} = {<<h, i>>}
    BY <2>1, <2>2 DEF ParkedAt
  <2>4. PP = {<<"parked", <<h, i>>[1], <<h, i>>[2]>>}
    BY <2>3
  <2>. QED
    BY <2>4
<1>8. OnePlace(s, k)
  BY DEF Inv2, Fetches
<1> HIDE DEF PO, PR, PP
<1>9. \A p : Places(s, k) = {p} => p \in Places(s, k)
  OBVIOUS
<1>10. CASE ~Outstanding(s, k)
  BY <1>1, <1>2, <1>3, <1>4, <1>8, <1>10 DEF OnePlace
<1>11. CASE Outstanding(s, k)
  <2>1. \E p : Places(s, k) = {p}
    BY <1>1, <1>2, <1>3, <1>4, <1>5, <1>6, <1>7, <1>8, <1>11 DEF OnePlace
  <2>. QED
    BY <1>9, <1>11, <2>1
<1>. QED
  BY <1>10, <1>11

(* No fetch is lost and none is answered twice (out_mf, recv_mf,           *)
(* filtered_mf, m_miss_queue, the memory and the way back).                *)
THEOREM NoFetchLost == Spec => []FetchInOnePlace
  BY EveryFetchCounted, PlacesCounted, PTL

(* The type invariant, with the MSHR counts inside their bounds.           *)
THEOREM TypesCorrect == Spec => []TypeOK
<1>1. Inv2 => TypeOK
  <2> SUFFICES ASSUME Inv2 PROVE TypeOK
    OBVIOUS
  <2>1. mshr \in [SM -> [Key -> 0 .. MaxMerge]]
    BY DEF Inv2, Inv1, Shape, Fetches, Merged
  <2>. QED
    BY <2>1 DEF Inv2, Inv1, Shape, WellFormed, Tables, TypeOK
<1>. QED
  BY <1>1, EveryFetchCounted, PTL

-----------------------------------------------------------------------------
(***************************************************************************)
(* The copies a fetch brings to an L1D, and the sharer bits that speak of  *)
(* them: the way a fetch will fill stays its own, and a sharer bit is set  *)
(* only for an SM that holds the block or is about to.                     *)
(***************************************************************************)

(* The victim of a miss is no way that a fetch has reserved.               *)
LEMMA TagAccessReserves ==
  ASSUME Inv1, NEW r \in SM, NEW a \in Key, NEW i \in Lines, TagAccess(r, a, i)
  PROVE  /\ line'[r][i] = [st |-> "RESERVED", key |-> a]
         /\ \A s \in SM, j \in Lines :
              line[s][j].st = "RESERVED" => line'[s][j] = line[s][j]
<1>1. line \in [SM -> [Lines -> Block]]
  BY DEF Inv1, Shape
<1>2. CASE Holds(r, a, i) /\ line[r][i].st = "RESERVED" /\ UNCHANGED line
  <2>1. line[r][i] \in Block
    BY <1>1
  <2>. QED
    BY <1>2, <2>1 DEF Holds, Block
<1>3. CASE Victim(r, i) /\ line' = [line EXCEPT ![r][i] = [st |-> "RESERVED", key |-> a]]
  <2>1. line[r][i].st # "RESERVED"
    BY <1>3 DEF Victim, Invalid
  <2>2. line'[r][i] = [st |-> "RESERVED", key |-> a]
    BY <1>1, <1>3
  <2>3. \A s \in SM, j \in Lines : (s # r \/ j # i) => line'[s][j] = line[s][j]
    BY <1>1, <1>3
  <2>. QED
    BY <2>1, <2>2, <2>3
<1>. QED
  BY <1>2, <1>3 DEF TagAccess

(* No step takes the way of an outstanding fetch away from it.             *)
LEMMA ReservedStep ==
  ASSUME Inv2, ReservedUntilFill, Next
  PROVE  ReservedUntilFill'
<1> SUFFICES ASSUME NEW s \in SM, NEW k \in Key, Outstanding(s, k)'
             PROVE  line'[s][extra'[s][k]] = [st |-> "RESERVED", key |-> k]
  BY DEF ReservedUntilFill
<1>1. /\ Inv1 /\ Fetches
      /\ line \in [SM -> [Lines -> Block]] /\ extra \in [SM -> [Key -> 0 .. NLines]]
  BY DEF Inv2, Inv1, Shape
<1>2. Outstanding(s, k) =>
        /\ extra[s][k] \in Lines
        /\ line[s][extra[s][k]] = [st |-> "RESERVED", key |-> k]
        /\ line[s][extra[s][k]].st = "RESERVED"
  <2> SUFFICES ASSUME Outstanding(s, k)
               PROVE  /\ extra[s][k] \in Lines
                      /\ line[s][extra[s][k]] = [st |-> "RESERVED", key |-> k]
    OBVIOUS
  <2>1. extra[s][k] \in Lines
    BY <1>1, ProtocolAssumption DEF Outstanding, Lines
  <2>. QED
    BY <2>1 DEF ReservedUntilFill
<1>3. ASSUME extra'[s][k] = extra[s][k],
             \A j \in Lines : line[s][j].st = "RESERVED" /\ line[s][j].key = k => line'[s][j] = line[s][j]
      PROVE  line'[s][extra'[s][k]] = [st |-> "RESERVED", key |-> k]
  BY <1>2, <1>3 DEF Outstanding
<1>4. ASSUME NEW r \in SM, NEW a \in Key, ReadMiss(r, a)
      PROVE  line'[s][extra'[s][k]] = [st |-> "RESERVED", key |-> k]
  <2>1. PICK i \in Lines : TagAccess(r, a, i) /\ extra' = [extra EXCEPT ![r][a] = i]
    BY <1>4 DEF ReadMiss
  <2>2. CASE r = s /\ a = k
    BY <1>1, <2>1, <2>2, TagAccessReserves
  <2>3. CASE ~(r = s /\ a = k)
    <3>1. extra'[s][k] = extra[s][k]
      BY <1>1, <2>1, <2>3
    <3>. QED
      BY <1>1, <1>3, <2>1, <3>1, TagAccessReserves
  <2>. QED
    BY <2>2, <2>3
<1>5. ASSUME NEW r \in SM, NEW a \in Key, ReadMerge(r, a)
      PROVE  line'[s][extra'[s][k]] = [st |-> "RESERVED", key |-> k]
  <2>1. PICK i \in Lines : TagAccess(r, a, i)
    BY <1>5 DEF ReadMerge
  <2>2. extra' = extra
    BY <1>5 DEF ReadMerge
  <2>. QED
    BY <1>1, <1>3, <2>1, <2>2, TagAccessReserves
<1>6. ASSUME NEW r \in SM, NEW a \in Key, Write(r, a)
      PROVE  line'[s][extra'[s][k]] = [st |-> "RESERVED", key |-> k]
  <2>1. \/ line' = line
        \/ \E i \in Lines : line[r][i].st = "VALID" /\ line' = [line EXCEPT ![r][i].st = "INVALID"]
    BY <1>6 DEF Write
  <2>2. extra' = extra
    BY <1>6 DEF Write
  <2>3. \A j \in Lines : line[s][j].st = "RESERVED" => line'[s][j] = line[s][j]
    BY <1>1, <2>1
  <2>. QED
    BY <1>3, <2>2, <2>3
<1>7. ASSUME NEW r \in SM, Flush(r)
      PROVE  line'[s][extra'[s][k]] = [st |-> "RESERVED", key |-> k]
  <2>1. extra' = extra /\ line' = [line EXCEPT ![r] = [i \in Lines |-> [@[i] EXCEPT !.st = "INVALID"]]]
    BY <1>7 DEF Flush
  <2>2. s # r
    <3>1. Outstanding(s, k)
      BY <2>1 DEF Outstanding
    <3>2. mshr[s][k] > 0
      BY <1>1, <3>1 DEF Fetches, Merged
    <3>. QED
      BY <1>7, <3>2 DEF Flush, MshrEntries
  <2>. QED
    BY <1>1, <1>3, <2>1, <2>2
<1>8. ASSUME NEW r \in SM, NEW a \in Key, Fill(r, a)
      PROVE  line'[s][extra'[s][k]] = [st |-> "RESERVED", key |-> k]
  <2>1. /\ extra' = [extra EXCEPT ![r][a] = 0] /\ a \in resp[r]
        /\ line' = [line EXCEPT ![r][extra[r][a]].st = "VALID"]
    BY <1>8 DEF Fill
  <2>2. ~(r = s /\ a = k)
    BY <1>1, <2>1 DEF Outstanding
  <2>3. extra'[s][k] = extra[s][k]
    BY <1>1, <2>1, <2>2
  <2>4. Outstanding(r, a)
    BY <1>1, <2>1 DEF Fetches, OnePlace
  <2>5. line[r][extra[r][a]].key = a
    <3>1. line[r][extra[r][a]] = [st |-> "RESERVED", key |-> a]
      BY <2>4 DEF ReservedUntilFill
    <3>. QED
      BY <3>1
  <2>6. \A j \in Lines : line[s][j].key = k => line'[s][j] = line[s][j]
    BY <1>1, <2>1, <2>2, <2>5
  <2>. QED
    BY <1>3, <2>3, <2>6
<1>9. ASSUME NEW r \in SM, NEW a \in Key, Reply(r, a) \/ NextAccess(r, a)
      PROVE  line'[s][extra'[s][k]] = [st |-> "RESERVED", key |-> k]
  BY <1>3, <1>9 DEF Reply, NextAccess, core
<1>10. ASSUME NEW r \in SM, HistCycle(r) \/ RecvCycle(r) \/ Send(r)
      PROVE  line'[s][extra'[s][k]] = [st |-> "RESERVED", key |-> k]
  BY <1>3, <1>10 DEF HistCycle, RecvCycle, Send, core
<1>. QED
  BY <1>4, <1>5, <1>6, <1>7, <1>8, <1>9, <1>10 DEF Next

(* The assertion of cache_block_t::fill holds: the way a fetch will fill   *)
(* is reserved for its block until then.                                   *)
THEOREM ReservationsKept == Spec => []ReservedUntilFill
<1>1. Init => ReservedUntilFill
  BY DEF Init, ReservedUntilFill, Outstanding
<1>2. Inv2 /\ ReservedUntilFill /\ [Next]_vars => ReservedUntilFill'
  <2>1. CASE UNCHANGED vars
    BY <2>1 DEF vars, ReservedUntilFill, Outstanding
  <2>. QED
    BY <2>1, ReservedStep
<1>. QED
  BY <1>1, <1>2, EveryFetchCounted, PTL DEF Spec

-----------------------------------------------------------------------------
(* Every change of the tables, seen from one entry.                        *)

(* del takes a bit off a READY entry, or leaves the entry alone.           *)
LEMMA DelEffect ==
  ASSUME WellFormed(table), NEW r \in SM, NEW keys, table' = delAll(table, r, keys),
         NEW h \in SM, NEW i \in Idx
  PROVE  \/ table'[h][i] = table[h][i]
         \/ /\ table[h][i].status = "READY"
            /\ table'[h][i].key = table[h][i].key
            /\ table'[h][i].HI = table[h][i].HI \ {r}
            /\ table'[h][i].status \in {"INVALID", "READY"}
<1>1. \/ table'[h][i] = table[h][i]
      \/ table[h][i].status = "READY" /\ table'[h][i] = WithoutSharer(table[h][i], r)
  BY DEF delAll, HitAt, get_home
<1>2. table[h][i] \in Entry
  BY DEF WellFormed, Tables
<1>3. ASSUME NEW e \in Entry, e.status = "READY"
      PROVE  LET n == WithoutSharer(e, r)
             IN  /\ n.key = e.key /\ n.HI = e.HI \ {r}
                 /\ n.status \in {"INVALID", "READY"}
  BY <1>3 DEF WithoutSharer, Entry
<1>. QED
  BY <1>1, <1>2, <1>3

(* A bit that del may take off a live entry is off afterwards.             *)
LEMMA DelRemoves ==
  ASSUME WellFormed(table), NEW r \in SM, NEW keys, table' = delAll(table, r, keys),
         NEW h \in SM, NEW i \in Idx, table[h][i].status = "READY", table[h][i].key \in keys
  PROVE  r \notin table'[h][i].HI
<1> SUFFICES ASSUME r \in table'[h][i].HI PROVE FALSE
  OBVIOUS
<1>1. r \in table[h][i].HI
  BY DelEffect
<1>2. /\ table[h][i].key \in Key /\ get_home(table[h][i].key) = h
      /\ HitAt(table, table[h][i].key, i, "READY")
      /\ check_in_range(r, h)
  BY <1>1 DEF WellFormed, FoundByProbe, LiveInRange, HitAt
<1>3. table[h][i].key \in keys \ {0}
  BY <1>2, DirectoryAssumption
<1>4. table'[h][i] = WithoutSharer(table[h][i], r)
  BY <1>2, <1>3 DEF delAll
<1>5. table[h][i] \in Entry
  BY DEF WellFormed, Tables
<1>6. ASSUME NEW e \in Entry
      PROVE  r \notin WithoutSharer(e, r).HI
  BY DEF WithoutSharer, Entry
<1>. QED
  BY <1>4, <1>5, <1>6

(* A step on the tables, as the handlers make it.                          *)
LEMMA TableActions ==
  ASSUME Inv1, Next
  PROVE  \/ UNCHANGED table
         \/ \E r \in SM : \E keys : table' = delAll(table, r, keys)
         \/ \E g \in SM : /\ RecvCycle(g)
                          /\ \E m \in recv[g] : /\ m.sid \in SM /\ m.key \in Key
                                                /\ check_in_range(m.sid, get_home(m.key))
                                                /\ \E j \in Idx : TakeEntry(g, m, j) \/ Park(g, m, j) \/ Grant(g, m, j)
         \/ \E r \in SM, a \in Key : /\ Fill(r, a)
                                     /\ \E j \in Idx : /\ HitAt(table, a, j, "WAIT")
                                                       /\ table' = Release(ready(table, a, j), a, j)
                                                       /\ recv' = Released(j, r, a)
<1>1. ASSUME NEW r \in SM, NEW a \in Key, ReadMiss(r, a) \/ ReadMerge(r, a) \/ Write(r, a)
      PROVE  UNCHANGED table \/ \E keys : table' = delAll(table, r, keys)
  BY <1>1 DEF ReadMiss, ReadMerge, Write, TagAccess, del
<1>2. ASSUME NEW r \in SM, Flush(r)
      PROVE  \E keys : table' = delAll(table, r, keys)
  BY <1>2 DEF Flush
<1>3. ASSUME NEW g \in SM, RecvCycle(g)
      PROVE  UNCHANGED table \/ \E m \in recv[g] :
               /\ m.sid \in SM /\ m.key \in Key
               /\ check_in_range(m.sid, get_home(m.key))
               /\ \E j \in Idx : TakeEntry(g, m, j) \/ Park(g, m, j) \/ Grant(g, m, j)
  <2>1. \A m \in recv[g] : m.sid \in SM /\ m.key \in Key
    BY TickMine DEF Inv1, Message
  <2>. QED
    BY <1>3, <2>1
    DEF RecvCycle, ProcessProbe, ProbeInRange, ProbeOutOfRange, Bypass, DeliverGrant,
        AdvanceGrant, TickOnly
<1>4. ASSUME NEW r \in SM, NEW a \in Key, Fill(r, a)
      PROVE  UNCHANGED table \/ \E j \in Idx : /\ HitAt(table, a, j, "WAIT")
                                               /\ table' = Release(ready(table, a, j), a, j)
                                               /\ recv' = Released(j, r, a)
  BY <1>4 DEF Fill
<1>5. ASSUME NEW r \in SM, NEW a \in Key, Reply(r, a) \/ NextAccess(r, a)
      PROVE  UNCHANGED table
  BY <1>5 DEF Reply, NextAccess
<1>6. ASSUME NEW r \in SM, HistCycle(r) \/ Send(r)
      PROVE  UNCHANGED table
  BY <1>6 DEF HistCycle, Send
<1>. QED
  BY <1>1, <1>2, <1>3, <1>4, <1>5, <1>6 DEF Next

(* What a served probe does to an entry: nothing; or the entry, which did  *)
(* not WAIT, WAITs for the block of the probe with its SM as the only      *)
(* sharer; or it keeps its status and key and gets the SM as a sharer.     *)
LEMMA ServedEntry ==
  ASSUME Inv1, NEW g \in SM, NEW m \in recv[g], m.sid \in SM, m.key \in Key,
         check_in_range(m.sid, get_home(m.key)),
         NEW j \in Idx, TakeEntry(g, m, j) \/ Park(g, m, j) \/ Grant(g, m, j),
         NEW h \in SM, NEW i \in Idx
  PROVE  \/ table'[h][i] = table[h][i]
         \/ /\ table[h][i].status # "WAIT"
            /\ table'[h][i].status = "WAIT" /\ table'[h][i].key = m.key
            /\ table'[h][i].HI = {m.sid}
         \/ /\ table'[h][i].status = table[h][i].status /\ table'[h][i].key = table[h][i].key
            /\ table'[h][i].key = m.key
            /\ table'[h][i].HI = table[h][i].HI \union {m.sid}
<1>1. WellFormed(table)
  BY DEF Inv1
<1>2. CASE h # get_home(m.key) \/ i # j
  <2>1. OneEntry(table, table', m.key, j)
    BY <1>1, MissKeeps, ParkKeeps, GrantKeeps DEF TakeEntry, Park, Grant
  <2>. QED
    BY <1>2, <2>1 DEF OneEntry
<1>3. CASE h = get_home(m.key) /\ i = j
  <2>1. CASE TakeEntry(g, m, j)
    BY <1>1, <1>3, <2>1, MissKeeps DEF TakeEntry
  <2>2. CASE Park(g, m, j)
    BY <1>1, <1>3, <2>2, ParkKeeps DEF Park, HitAt, ProbeStopsAt
  <2>3. CASE Grant(g, m, j)
    BY <1>1, <1>3, <2>3, GrantKeeps DEF Grant, HitAt, ProbeStopsAt
  <2>. QED
    BY <2>1, <2>2, <2>3
<1>. QED
  BY <1>2, <1>3

(* What a fill does to an entry: nothing, or it readies it.                *)
LEMMA FilledEntry ==
  ASSUME Inv1, NEW a \in Key, NEW j \in Idx, HitAt(table, a, j, "WAIT"),
         table' = Release(ready(table, a, j), a, j),
         NEW h \in SM, NEW i \in Idx
  PROVE  \/ table'[h][i] = table[h][i]
         \/ /\ h = get_home(a) /\ i = j
            /\ table[h][i].status = "WAIT" /\ table'[h][i].status = "READY"
            /\ table'[h][i].key = table[h][i].key /\ table[h][i].key = a
            /\ table'[h][i].HI = table[h][i].HI
<1>1. WellFormed(table)
  BY DEF Inv1
<1>2. OneEntry(table, table', a, j)
  BY <1>1, FillKeeps
<1>3. CASE h # get_home(a) \/ i # j
  BY <1>2, <1>3 DEF OneEntry
<1>4. CASE h = get_home(a) /\ i = j
  BY <1>1, <1>4, FillKeeps DEF HitAt, ProbeStopsAt
<1>. QED
  BY <1>3, <1>4

-----------------------------------------------------------------------------
(* The wait of an entry ends in READY only, and with a grant for every     *)
(* fetch that was parked on it (ready, fill_wait).                         *)
THEOREM WaitsEndInGrants == Spec => WaitEndsInGrants
<1> DEFINE Kept(h, i) ==
      table[h][i].status = "WAIT" =>
        /\ table'[h][i].key = table[h][i].key
        /\ table[h][i].HI \subseteq table'[h][i].HI
        /\ table'[h][i].status # "INVALID"
        /\ table'[h][i].status = "READY" =>
             \A f \in table[h][i].filtered :
               \E m \in recv'[f.sid] : m.sid = f.sid /\ m.key = f.key
<1>1. ASSUME Inv1, Next, NEW h \in SM, NEW i \in Idx
      PROVE  Kept(h, i)
  <2>1. CASE table'[h][i] = table[h][i]
    BY <2>1
  <2>2. ASSUME NEW r \in SM, NEW keys, table' = delAll(table, r, keys)
        PROVE  Kept(h, i)
    BY <1>1, <2>1, <2>2, DelEffect DEF Inv1
  <2>3. ASSUME NEW g \in SM, NEW m \in recv[g], m.sid \in SM, m.key \in Key,
               check_in_range(m.sid, get_home(m.key)),
               NEW j \in Idx, TakeEntry(g, m, j) \/ Park(g, m, j) \/ Grant(g, m, j)
        PROVE  Kept(h, i)
    BY <1>1, <2>1, <2>3, ServedEntry
  <2>4. ASSUME NEW r \in SM, NEW a \in Key, NEW j \in Idx, HitAt(table, a, j, "WAIT"),
               table' = Release(ready(table, a, j), a, j), recv' = Released(j, r, a)
        PROVE  Kept(h, i)
    <3>1. ASSUME h = get_home(a), i = j, NEW f \in table[h][i].filtered
          PROVE  \E m \in recv'[f.sid] : m.sid = f.sid /\ m.key = f.key
      <4>1. f \in Fetch
        BY <1>1, <3>1 DEF Inv1, WellFormed, Tables, Entry
      <4>2. [sid |-> f.sid, key |-> f.key, wait |-> GrantWait(r, a)] \in recv'[f.sid]
        BY <2>4, <3>1, <4>1 DEF Released, Fetch
      <4>. QED
        BY <4>2
    <3>. QED
      BY <1>1, <2>1, <2>4, <3>1, FilledEntry
  <2>5. CASE UNCHANGED table
    BY <2>1, <2>5
  <2> HIDE DEF Kept
  <2>. QED
    BY <1>1, <2>2, <2>3, <2>4, <2>5, TableActions
<1>2. Inv1 /\ [Next]_vars => [\A h \in SM, i \in Idx : Kept(h, i)]_vars
  BY <1>1
<1>. QED
  BY <1>2, ShapeAndTables, PTL DEF Spec, WaitEndsInGrants

-----------------------------------------------------------------------------
(* Sharer bits.                                                            *)

Copy(s, k) == \E j \in Lines : line[s][j] = [st |-> "VALID", key |-> k]

(* What makes NoPhantomSharer inductive: a sharer of an entry that WAITs   *)
(* has its fetch outstanding - a copy alone would be lost unnoticed, since *)
(* del ignores the entry.                                                  *)
Sharers ==
  \A h \in SM, i \in Idx : \A s \in table[h][i].HI :
    /\ table[h][i].status = "WAIT" => Outstanding(s, table[h][i].key)
    /\ table[h][i].status = "READY" =>
         Outstanding(s, table[h][i].key) \/ Copy(s, table[h][i].key)

(* A fetch ends with its fill and leaves a copy.                           *)
LEMMA FetchEnds ==
  ASSUME Inv2, ReservedUntilFill, Next, NEW s \in SM, NEW k \in Key, Outstanding(s, k)
  PROVE  Outstanding(s, k)' \/ (Fill(s, k) /\ Copy(s, k)')
<1>1. /\ line \in [SM -> [Lines -> Block]] /\ extra \in [SM -> [Key -> 0 .. NLines]]
      /\ extra[s][k] \in Lines
  BY ProtocolAssumption DEF Inv2, Inv1, Shape, Outstanding, Lines
<1>2. ASSUME NEW r \in SM, NEW a \in Key, ReadMiss(r, a)
      PROVE  Outstanding(s, k)'
  <2>1. PICK i \in Lines : extra' = [extra EXCEPT ![r][a] = i]
    BY <1>2 DEF ReadMiss
  <2>. QED
    BY <1>1, <2>1 DEF Outstanding, Lines
<1>3. ASSUME NEW r \in SM, NEW a \in Key, Fill(r, a), ~(r = s /\ a = k)
      PROVE  Outstanding(s, k)'
  BY <1>1, <1>3 DEF Fill, Outstanding
<1>4. ASSUME Fill(s, k)
      PROVE  Copy(s, k)'
  <2>1. line[s][extra[s][k]] = [st |-> "RESERVED", key |-> k]
    BY DEF ReservedUntilFill
  <2>2. line' = [line EXCEPT ![s][extra[s][k]].st = "VALID"]
    BY <1>4 DEF Fill
  <2>3. line'[s][extra[s][k]] = [st |-> "VALID", key |-> k]
    BY <1>1, <2>1, <2>2
  <2>. QED
    BY <1>1, <2>3 DEF Copy
<1>5. ASSUME NEW r \in SM, NEW a \in Key,
             ReadMerge(r, a) \/ Write(r, a) \/ Reply(r, a) \/ NextAccess(r, a)
      PROVE  UNCHANGED extra
  BY <1>5 DEF ReadMerge, Write, Reply, NextAccess, core
<1>6. ASSUME NEW r \in SM, Flush(r) \/ HistCycle(r) \/ RecvCycle(r) \/ Send(r)
      PROVE  UNCHANGED extra
  BY <1>6 DEF Flush, HistCycle, RecvCycle, Send, core
<1>7. CASE UNCHANGED extra
  BY <1>7 DEF Outstanding
<1>. QED
  BY <1>2, <1>3, <1>4, <1>5, <1>6, <1>7 DEF Next

(* A copy stays unless the step tells the home of its block.               *)
LEMMA CopyEnds ==
  ASSUME Inv2, ReservedUntilFill, Next, NEW s \in SM, NEW k \in Key, Copy(s, k)
  PROVE  Copy(s, k)' \/ \E keys : k \in keys /\ table' = delAll(table, s, keys)
<1>1. PICK j \in Lines : line[s][j] = [st |-> "VALID", key |-> k]
  BY DEF Copy
<1>2. line \in [SM -> [Lines -> Block]] /\ line[s][j].st = "VALID" /\ line[s][j].key = k
  BY <1>1 DEF Inv2, Inv1, Shape
<1>3. ASSUME line'[s][j] = line[s][j]
      PROVE  Copy(s, k)'
  BY <1>1, <1>3 DEF Copy
<1>4. ASSUME NEW r \in SM, NEW a \in Key, NEW i \in Lines, TagAccess(r, a, i)
      PROVE  Copy(s, k)' \/ \E keys : k \in keys /\ table' = delAll(table, s, keys)
  <2>1. CASE UNCHANGED line
    BY <1>3, <2>1
  <2>2. CASE /\ line' = [line EXCEPT ![r][i] = [st |-> "RESERVED", key |-> a]]
             /\ table' = delAll(table, r, {line[r][i].key})
    <3>1. CASE r = s /\ i = j
      BY <1>2, <2>2, <3>1
    <3>2. CASE ~(r = s /\ i = j)
      BY <1>2, <1>3, <2>2, <3>2
    <3>. QED
      BY <3>1, <3>2
  <2>. QED
    BY <1>4, <2>1, <2>2 DEF TagAccess, del
<1>5. ASSUME NEW r \in SM, NEW a \in Key, ReadMiss(r, a) \/ ReadMerge(r, a)
      PROVE  Copy(s, k)' \/ \E keys : k \in keys /\ table' = delAll(table, s, keys)
  BY <1>4, <1>5 DEF ReadMiss, ReadMerge
<1>6. ASSUME NEW r \in SM, NEW a \in Key, Write(r, a)
      PROVE  Copy(s, k)' \/ \E keys : k \in keys /\ table' = delAll(table, s, keys)
  <2>1. CASE UNCHANGED line
    BY <1>3, <2>1
  <2>2. ASSUME NEW i \in Lines, line[r][i].key = a,
               line' = [line EXCEPT ![r][i].st = "INVALID"], table' = delAll(table, r, {a})
        PROVE  Copy(s, k)' \/ \E keys : k \in keys /\ table' = delAll(table, s, keys)
    <3>1. CASE r = s /\ i = j
      BY <1>2, <2>2, <3>1
    <3>2. CASE ~(r = s /\ i = j)
      BY <1>2, <1>3, <2>2, <3>2
    <3>. QED
      BY <3>1, <3>2
  <2>. QED
    BY <1>6, <2>1, <2>2 DEF Write, Holds, del
<1>7. ASSUME NEW r \in SM, Flush(r)
      PROVE  Copy(s, k)' \/ \E keys : k \in keys /\ table' = delAll(table, s, keys)
  <2>1. CASE r = s
    <3>1. k \in {line[r][i].key : i \in Lines}
      BY <1>2, <2>1
    <3>. QED
      BY <1>7, <2>1, <3>1 DEF Flush
  <2>2. CASE r # s
    BY <1>2, <1>3, <1>7, <2>2 DEF Flush
  <2>. QED
    BY <2>1, <2>2
<1>8. ASSUME NEW r \in SM, NEW a \in Key, Fill(r, a)
      PROVE  Copy(s, k)'
  <2>1. line' = [line EXCEPT ![r][extra[r][a]].st = "VALID"]
    BY <1>8 DEF Fill
  <2>2. line'[s][j] = line[s][j]
    <3>1. ~(r = s /\ extra[r][a] = j) => line'[s][j] = line[s][j]
      BY <1>2, <2>1
    <3>2. r = s /\ extra[r][a] = j => line[r][j].st = "RESERVED"
      <4>1. Outstanding(r, a)
        BY <1>8 DEF Fill, Inv2, Fetches, OnePlace
      <4>2. line[r][extra[r][a]] = [st |-> "RESERVED", key |-> a]
        BY <4>1 DEF ReservedUntilFill
      <4>. QED
        BY <4>2
    <3>. QED
      BY <1>2, <3>1, <3>2
  <2>. QED
    BY <1>3, <2>2
<1>9. ASSUME NEW r \in SM, NEW a \in Key, Reply(r, a) \/ NextAccess(r, a)
      PROVE  UNCHANGED line
  BY <1>9 DEF Reply, NextAccess, core
<1>10. ASSUME NEW r \in SM, HistCycle(r) \/ RecvCycle(r) \/ Send(r)
       PROVE  UNCHANGED line
  BY <1>10 DEF HistCycle, RecvCycle, Send, core
<1>. QED
  BY <1>3, <1>5, <1>6, <1>7, <1>8, <1>9, <1>10 DEF Next

(* A sharer of a live entry was one before, of the same block, or has its  *)
(* fetch outstanding after the step.                                       *)
LEMMA SharerBefore ==
  ASSUME Inv2, Next, NEW h \in SM, NEW i \in Idx, NEW s \in table'[h][i].HI,
         NEW k, k = table'[h][i].key, table'[h][i].status # "INVALID"
  PROVE  \/ Outstanding(s, k)'
         \/ /\ s \in table[h][i].HI
            /\ table[h][i].key = k
            /\ \/ table[h][i].status = table'[h][i].status
               \/ table[h][i].status = "WAIT" /\ table'[h][i].status = "READY"
<1>1. Inv1 /\ Fetches
  BY DEF Inv2
<1>2. ASSUME NEW r \in SM, NEW keys, table' = delAll(table, r, keys)
      PROVE  /\ s \in table[h][i].HI
             /\ table[h][i].key = k
             /\ table[h][i].status = table'[h][i].status
  BY <1>1, <1>2, DelEffect DEF Inv1
<1>3. ASSUME NEW g \in SM, RecvCycle(g), NEW m \in recv[g], m.sid \in SM, m.key \in Key,
             check_in_range(m.sid, get_home(m.key)),
             NEW j \in Idx, TakeEntry(g, m, j) \/ Park(g, m, j) \/ Grant(g, m, j)
      PROVE  \/ Outstanding(s, k)'
             \/ /\ s \in table[h][i].HI
                /\ table[h][i].key = k
                /\ table[h][i].status = table'[h][i].status
  <2>1. Outstanding(m.sid, m.key)'
    BY <1>1, <1>3, AtHome DEF RecvCycle, core, Outstanding
  <2>2. s = m.sid /\ k = m.key => Outstanding(s, k)'
    BY <2>1 DEF Outstanding
  <2>. QED
    BY <1>1, <1>3, <2>2, ServedEntry
<1>4. ASSUME NEW a \in Key, NEW j \in Idx, HitAt(table, a, j, "WAIT"),
             table' = Release(ready(table, a, j), a, j)
      PROVE  /\ s \in table[h][i].HI
             /\ table[h][i].key = k
             /\ \/ table[h][i].status = table'[h][i].status
                \/ table[h][i].status = "WAIT" /\ table'[h][i].status = "READY"
  BY <1>1, <1>4, FilledEntry
<1>. QED
  BY <1>1, <1>2, <1>3, <1>4, TableActions

(* Every step keeps the sharer bits true, given the fetches and the ways.  *)
LEMMA SharersStep ==
  ASSUME Inv2, ReservedUntilFill, Sharers, FreedReads = {TRUE}, Next
  PROVE  Sharers'
<1> SUFFICES ASSUME NEW h \in SM, NEW i \in Idx, NEW s \in table'[h][i].HI,
                    NEW k, k = table'[h][i].key
             PROVE  /\ table'[h][i].status = "WAIT" => Outstanding(s, k)'
                    /\ table'[h][i].status = "READY" => Outstanding(s, k)' \/ Copy(s, k)'
  BY DEF Sharers, Outstanding, Copy
<1>1. Inv1 /\ WellFormed(table)
  BY DEF Inv2, Inv1
<1>2. ASSUME table'[h][i].status \in {"WAIT", "READY"}, ~Outstanding(s, k)'
      PROVE  table'[h][i].status = "READY" /\ Copy(s, k)'
  <2>1. /\ s \in table[h][i].HI
        /\ table[h][i].key = k
        /\ \/ table[h][i].status = table'[h][i].status
           \/ table[h][i].status = "WAIT" /\ table'[h][i].status = "READY"
    BY <1>2, SharerBefore
  <2>2. k \in Key /\ get_home(k) = h
    BY <1>1, <1>2, <2>1 DEF WellFormed, FoundByProbe
  <2>3. s \in SM /\ check_in_range(s, h)
    BY <1>1, <1>2, <2>1 DEF WellFormed, LiveInRange, Tables, Entry
  <2>4. CASE Outstanding(s, k)
    <3>1. Fill(s, k) /\ Copy(s, k)'
      BY <1>2, <2>2, <2>3, <2>4, FetchEnds
    <3>2. table[h][i].status = "WAIT" => table'[h][i].status = "READY"
      BY <1>1, <2>1, <2>2, <2>3, <3>1, FillReadies
    <3>. QED
      BY <1>2, <2>1, <3>1, <3>2
  <2>5. CASE ~Outstanding(s, k)
    <3>1. table[h][i].status = "READY" /\ Copy(s, k) /\ table'[h][i].status = "READY"
      BY <1>2, <2>1, <2>5 DEF Sharers
    <3>2. ~\E keys : k \in keys /\ table' = delAll(table, s, keys)
      BY <1>1, <2>1, <2>3, <3>1, DelRemoves
    <3>3. Copy(s, k)'
      BY <2>2, <2>3, <3>1, <3>2, CopyEnds
    <3>. QED
      BY <3>1, <3>3
  <2>. QED
    BY <2>4, <2>5
<1>. QED
  BY <1>2

(* A sharer bit tells the truth: its SM holds the block or has a fetch of  *)
(* it outstanding (add, del, and the calls of del), as long as the freed   *)
(* node keeps its contents.                                                *)
THEOREM SharersHold == (FreedReads = {TRUE}) => (Spec => []NoPhantomSharer)
<1> SUFFICES ASSUME FreedReads = {TRUE} PROVE Spec => []NoPhantomSharer
  OBVIOUS
<1>1. Init => Sharers
  BY DEF Init, Sharers, EmptyTable, EmptyEntry
<1>2. Inv2 /\ ReservedUntilFill /\ Sharers /\ [Next]_vars => Sharers'
  <2>1. CASE UNCHANGED vars
    BY <2>1 DEF vars, Sharers, Outstanding, Copy
  <2>. QED
    BY <2>1, SharersStep
<1>3. Inv2 /\ Sharers => NoPhantomSharer
  <2>1. ASSUME Inv2, NEW h \in SM, NEW i \in Idx
        PROVE  table[h][i].status \in {"INVALID", "WAIT", "READY"}
    BY <2>1 DEF Inv2, Inv1, WellFormed, Tables, Entry, Status
  <2>. QED
    BY <2>1 DEF Sharers, NoPhantomSharer, Copy
<1>. QED
  BY <1>1, <1>2, <1>3, EveryFetchCounted, ReservationsKept, PTL DEF Spec

-----------------------------------------------------------------------------
(* The miss queue.                                                         *)

(* The writes alone never exceed the configured size, and the MSHRs bound  *)
(* the reads that the home pushes on the queue unasked.                    *)
Counts ==
  \A s \in SM :
    /\ IsFiniteSet(MshrEntries(s)) /\ Cardinality(MshrEntries(s)) <= NMshr
    /\ wrq[s] <= MissQueue

(* There are NLines ways.                                                  *)
LEMMA LinesCounted == IsFiniteSet(Lines) /\ Cardinality(Lines) = NLines
<1>1. NLines \in Nat /\ 1 \in Int /\ NLines \in Int
  BY ProtocolAssumption
<1>2. /\ IsFiniteSet(1 .. NLines)
      /\ Cardinality(1 .. NLines) = IF 1 > NLines THEN 0 ELSE NLines - 1 + 1
  BY <1>1, FS_Interval
<1>. QED
  BY <1>1, <1>2 DEF Lines

(* Reads in the miss queue have an MSHR entry and a way of their own.      *)
LEMMA ReadsBounded ==
  ASSUME Inv2, ReservedUntilFill, NEW s \in SM,
         IsFiniteSet(MshrEntries(s)), Cardinality(MshrEntries(s)) <= NMshr
  PROVE  /\ IsFiniteSet(missq[s])
         /\ Cardinality(missq[s]) \in Nat
         /\ Cardinality(missq[s]) <= NMshr
         /\ Cardinality(missq[s]) <= NLines
<1>1. /\ missq[s] \subseteq Key
      /\ extra \in [SM -> [Key -> 0 .. NLines]]
  BY DEF Inv2, Inv1, Shape
<1>2. ASSUME NEW k \in missq[s]
      PROVE  k \in MshrEntries(s) /\ extra[s][k] \in Lines
             /\ line[s][extra[s][k]] = [st |-> "RESERVED", key |-> k]
  <2>1. Outstanding(s, k)
    BY <1>1 DEF Inv2, Fetches, OnePlace
  <2>2. mshr[s][k] > 0
    BY <1>1, <2>1 DEF Inv2, Fetches, Merged
  <2>3. line[s][extra[s][k]] = [st |-> "RESERVED", key |-> k]
    BY <1>1, <2>1 DEF ReservedUntilFill
  <2>. QED
    BY <1>1, <2>1, <2>2, <2>3, ProtocolAssumption DEF MshrEntries, Outstanding, Lines
<1>3. IsFiniteSet(missq[s]) /\ Cardinality(missq[s]) <= Cardinality(MshrEntries(s))
  BY <1>2, FS_Subset
<1>4. Cardinality(missq[s]) <= NLines
  <2> DEFINE way == [k \in missq[s] |-> extra[s][k]]
  <2>1. way \in [missq[s] -> Lines]
    BY <1>2
  <2>2. ASSUME NEW j \in missq[s], NEW k \in missq[s], way[j] = way[k]
        PROVE  j = k
    <3>1. [st |-> "RESERVED", key |-> j] = [st |-> "RESERVED", key |-> k]
      BY <1>2, <2>2
    <3>. QED
      BY <3>1
  <2>3. way \in Injection(missq[s], Lines)
    BY <2>1, <2>2 DEF Injection, IsInjective
  <2>4. IsFiniteSet(Lines) /\ Cardinality(Lines) = NLines
    BY LinesCounted
  <2> HIDE DEF way
  <2>. QED
    BY <2>3, <2>4, FS_Injection
<1>5. Cardinality(missq[s]) \in Nat /\ Cardinality(MshrEntries(s)) \in Nat
  BY <1>3, FS_CardinalityType
<1>. QED
  BY <1>3, <1>4, <1>5, ProtocolAssumption

(* Every step keeps the MSHRs and the writes within their limits.          *)
LEMMA CountsStep ==
  ASSUME Inv2, ReservedUntilFill, Counts, Next
  PROVE  Counts'
<1> SUFFICES ASSUME NEW s \in SM
             PROVE  /\ IsFiniteSet(MshrEntries(s)') /\ Cardinality(MshrEntries(s)') <= NMshr
                    /\ wrq'[s] <= MissQueue
  BY DEF Counts
<1>1. /\ mshr \in [SM -> [Key -> Int]] /\ wrq \in [SM -> Nat]
      /\ IsFiniteSet(MshrEntries(s)) /\ Cardinality(MshrEntries(s)) <= NMshr
      /\ Cardinality(MshrEntries(s)) \in Nat
      /\ wrq[s] <= MissQueue
  BY FS_CardinalityType DEF Inv2, Inv1, Shape, Counts
<1>2. ASSUME MshrEntries(s)' \subseteq MshrEntries(s)
      PROVE  IsFiniteSet(MshrEntries(s)') /\ Cardinality(MshrEntries(s)') <= NMshr
  <2>1. /\ IsFiniteSet(MshrEntries(s)')
        /\ Cardinality(MshrEntries(s)') <= Cardinality(MshrEntries(s))
    BY <1>1, <1>2, FS_Subset
  <2>2. Cardinality(MshrEntries(s)') \in Nat
    BY <2>1, FS_CardinalityType
  <2>. QED
    BY <1>1, <2>1, <2>2, ProtocolAssumption
<1>3. ASSUME NEW r \in SM, NEW a \in Key, ReadMiss(r, a)
      PROVE  /\ IsFiniteSet(MshrEntries(s)') /\ Cardinality(MshrEntries(s)') <= NMshr
             /\ wrq' = wrq
  <2>1. /\ mshr' = [mshr EXCEPT ![r][a] = 1] /\ wrq' = wrq
        /\ Cardinality(MshrEntries(r)) < NMshr
    BY <1>3 DEF ReadMiss
  <2>2. CASE r = s
    <3>1. MshrEntries(s)' = MshrEntries(s) \union {a}
      BY <1>1, <2>1, <2>2 DEF MshrEntries
    <3>2. /\ IsFiniteSet(MshrEntries(s)')
          /\ Cardinality(MshrEntries(s)') <= Cardinality(MshrEntries(s)) + 1
      <4>1. PICK E : E = MshrEntries(s)
        OBVIOUS
      <4>2. IsFiniteSet(E) /\ Cardinality(E) \in Nat
        BY <1>1, <4>1
      <4>3. /\ IsFiniteSet(E \union {a})
            /\ Cardinality(E \union {a}) = IF a \in E THEN Cardinality(E) ELSE Cardinality(E) + 1
        BY <4>2, FS_AddElement
      <4>4. Cardinality(E \union {a}) <= Cardinality(E) + 1
        BY <4>2, <4>3
      <4>. QED
        BY <3>1, <4>1, <4>3, <4>4
    <3>3. Cardinality(MshrEntries(s)') \in Nat
      BY <3>2, FS_CardinalityType
    <3>. QED
      BY <1>1, <2>1, <2>2, <3>2, <3>3, ProtocolAssumption
  <2>3. CASE r # s
    <3>1. MshrEntries(s)' = MshrEntries(s)
      BY <1>1, <2>1, <2>3 DEF MshrEntries
    <3>. QED
      BY <1>2, <2>1, <3>1
  <2>. QED
    BY <2>2, <2>3
<1>4. ASSUME NEW r \in SM, NEW a \in Key, ReadMerge(r, a) \/ NextAccess(r, a)
      PROVE  MshrEntries(s)' \subseteq MshrEntries(s) /\ wrq' = wrq
  <2>1. CASE ReadMerge(r, a)
    BY <1>1, <2>1 DEF ReadMerge, MshrEntries
  <2>2. CASE NextAccess(r, a)
    BY <1>1, <2>2 DEF NextAccess, MshrEntries
  <2>. QED
    BY <1>4, <2>1, <2>2
<1>5. ASSUME NEW r \in SM, NEW a \in Key, Write(r, a)
      PROVE  MshrEntries(s)' = MshrEntries(s) /\ wrq'[s] <= MissQueue
  <2>1. mshr' = mshr /\ wrq' = [wrq EXCEPT ![r] = @ + 1] /\ ~miss_queue_full(r, 0)
    BY <1>5 DEF Write
  <2>2. Cardinality(missq[r]) \in Nat
    BY ReadsBounded DEF Counts
  <2>3. wrq[r] + 1 <= MissQueue
    BY <1>1, <2>1, <2>2, ProtocolAssumption DEF miss_queue_full
  <2>. QED
    BY <1>1, <2>1, <2>3 DEF MshrEntries
<1>6. ASSUME NEW r \in SM, NEW a \in Key, Fill(r, a) \/ Reply(r, a)
      PROVE  mshr' = mshr /\ wrq' = wrq
  BY <1>6 DEF Fill, Reply, core
<1>7. ASSUME NEW r \in SM, Flush(r) \/ HistCycle(r) \/ RecvCycle(r)
      PROVE  mshr' = mshr /\ wrq' = wrq
  BY <1>7 DEF Flush, HistCycle, RecvCycle, core
<1>8. ASSUME NEW r \in SM, Send(r)
      PROVE  mshr' = mshr /\ wrq'[s] <= MissQueue
  <2>1. mshr' = mshr /\ (wrq' = wrq \/ wrq' = [wrq EXCEPT ![r] = @ - 1])
    BY <1>8 DEF Send, core
  <2>. QED
    BY <1>1, <2>1, ProtocolAssumption
<1>9. ASSUME mshr' = mshr, wrq'[s] <= MissQueue
      PROVE  /\ IsFiniteSet(MshrEntries(s)') /\ Cardinality(MshrEntries(s)') <= NMshr
             /\ wrq'[s] <= MissQueue
  BY <1>2, <1>9 DEF MshrEntries
<1>. QED
  BY <1>1, <1>2, <1>3, <1>4, <1>5, <1>6, <1>7, <1>8, <1>9 DEF Next

(* What the home pushes on the miss queue of an SM without asking stays    *)
(* within what its MSHRs and its ways allow (process_probe).               *)
THEOREM MissQueueBounded == Spec => []MissQueueBound
<1>1. Init => Counts
  <2> SUFFICES ASSUME Init, NEW s \in SM
               PROVE  /\ IsFiniteSet(MshrEntries(s)) /\ Cardinality(MshrEntries(s)) <= NMshr
                      /\ wrq[s] <= MissQueue
    BY DEF Counts
  <2>1. MshrEntries(s) = {}
    BY DEF Init, MshrEntries
  <2>. QED
    BY <2>1, FS_EmptySet, ProtocolAssumption DEF Init
<1>2. Inv2 /\ ReservedUntilFill /\ Counts /\ [Next]_vars => Counts'
  <2>1. CASE UNCHANGED vars
    BY <2>1 DEF vars, Counts, MshrEntries
  <2>. QED
    BY <2>1, CountsStep
<1>3. Inv2 /\ ReservedUntilFill /\ Counts => MissQueueBound
  <2> SUFFICES ASSUME Inv2, ReservedUntilFill, Counts, NEW s \in SM
               PROVE  Cardinality(missq[s]) + wrq[s] <= MissQueue + MIN(NMshr, NLines)
    BY DEF MissQueueBound
  <2>1. /\ Cardinality(missq[s]) \in Nat
        /\ Cardinality(missq[s]) <= NMshr /\ Cardinality(missq[s]) <= NLines
    BY ReadsBounded DEF Counts
  <2>2. wrq[s] \in Nat /\ wrq[s] <= MissQueue
    BY DEF Inv2, Inv1, Shape, Counts
  <2>. QED
    BY <2>1, <2>2, ProtocolAssumption DEF MIN
<1>. QED
  BY <1>1, <1>2, <1>3, EveryFetchCounted, ReservationsKept, PTL DEF Spec

-----------------------------------------------------------------------------
(***************************************************************************)
(* The course of a fetch.  Its stage is where its token is; the messages   *)
(* of a fetch are a probe before they are a grant.                         *)
(***************************************************************************)

Asks(s, k) ==
  \/ ~NoneOut(s, k)
  \/ \E h \in SM : \E m \in recv[h] : Mine(m, s, k) /\ m.wait = 0
Comes(s, k) == \E h \in SM : \E m \in recv[h] : Mine(m, s, k) /\ m.wait > 0
InMemory(s, k) == k \in missq[s] \union mem[s]
Answered(s, k) == k \in resp[s]

(* The six stages, by the places they stand for.                           *)
StageIs(s, k) ==
  /\ Stage(s, k) \in {"idle", "asking", "granted", "parked", "memory", "answered"}
  /\ Stage(s, k) = "asking" <=> Asks(s, k)
  /\ Stage(s, k) = "granted" <=> Comes(s, k)
  /\ Stage(s, k) = "parked" <=> Parked(s, k)
  /\ Stage(s, k) = "memory" <=> InMemory(s, k)
  /\ Stage(s, k) = "answered" <=> Answered(s, k)
  /\ Stage(s, k) = "idle" <=> ~Outstanding(s, k)

(* At most one of the places has the token, so the order of the cases of   *)
(* Stage does not matter.                                                  *)
LEMMA StagesApart ==
  ASSUME Inv1, Fetches, NEW s \in SM, NEW k \in Key
  PROVE  StageIs(s, k)
<1>1. OnePlace(s, k) /\ \A h \in SM : \A m \in recv[h] : m.wait \in Nat
  BY DEF Fetches, Inv1, Shape, Message
<1>2. /\ Stage(s, k) = CASE ~NoneOut(s, k) -> "asking"
           [] \E h \in SM : \E m \in recv[h] : Mine(m, s, k) /\ m.wait = 0 -> "asking"
           [] Comes(s, k) -> "granted"
           [] Parked(s, k) -> "parked"
           [] InMemory(s, k) -> "memory"
           [] Answered(s, k) -> "answered"
           [] OTHER -> "idle"
  BY DEF Stage, NoneOut, Mine, Comes, Parked, ParkedAt, InMemory, Answered
<1>3. OneRecv(s, k) =>
        ~ ((\E h \in SM : \E m \in recv[h] : Mine(m, s, k) /\ m.wait = 0) /\ Comes(s, k))
  BY DEF OneRecv, Comes
<1>4. OneRecv(s, k) =>
        (\E h \in SM : \E m \in recv[h] : Mine(m, s, k) /\ m.wait = 0) \/ Comes(s, k)
  BY <1>1 DEF OneRecv, Comes
<1>5. NoneRecv(s, k) =>
        ~ (\E h \in SM : \E m \in recv[h] : Mine(m, s, k) /\ m.wait = 0) /\ ~Comes(s, k)
  BY DEF NoneRecv, Comes
<1>6. OneOut(s, k) => ~NoneOut(s, k)
  BY DEF OneOut, NoneOut
<1>. QED
  BY <1>1, <1>2, <1>3, <1>4, <1>5, <1>6 DEF OnePlace, StageIs, Asks, InMemory, Answered

(* For every fetch, before and after a step.                             *)
LEMMA StagesAre == Inv1 /\ Fetches => \A s \in SM, k \in Key : StageIs(s, k)
  BY StagesApart

LEMMA StagesAreNext == Inv1' /\ Fetches' => (\A s \in SM, k \in Key : StageIs(s, k))'
  BY StagesAre, PTL

(* A fetch whose places stay does not change its stage.                    *)
Stays(s, k) ==
  /\ Asks(s, k) => Asks(s, k)'
  /\ Comes(s, k) => Comes(s, k)'
  /\ Parked(s, k) => Parked(s, k)'
  /\ InMemory(s, k) => InMemory(s, k)'
  /\ Answered(s, k) => Answered(s, k)'
  /\ ~Outstanding(s, k) => ~Outstanding(s, k)'

(* Its stage is one of the six, and stays that one.                      *)
LEMMA SameStage ==
  ASSUME NEW s \in SM, NEW k \in Key, StageIs(s, k), StageIs(s, k)', Stays(s, k)
  PROVE  Stage(s, k)' = Stage(s, k)
  BY DEF StageIs, Stays

-----------------------------------------------------------------------------
(* What the actions do to the fetch k of s.                                *)

(* A miss starts a fetch.                                                *)
LEMMA ReadMissCourse ==
  ASSUME Inv1, Fetches, NEW r \in SM, NEW a \in Key, ReadMiss(r, a)
  PROVE  /\ ~Outstanding(r, a) /\ Asks(r, a)'
         /\ \A s \in SM, k \in Key : s # r \/ k # a => Stays(s, k)
<1>1. PICK i \in Lines : TagAccess(r, a, i) /\ extra' = [extra EXCEPT ![r][a] = i]
  BY DEF ReadMiss
<1>2. /\ recv' = recv /\ missq' = missq /\ mem' = mem /\ resp' = resp
      /\ mshr[r][a] = 0
      /\ out \in [SM -> SUBSET Flit] /\ extra \in [SM -> [Key -> 0 .. NLines]]
  BY DEF ReadMiss, Inv1, Shape
<1>3. PICK m : /\ m = [key |-> a, wait |-> NOC_distance(r, get_home(a)) + 1]
               /\ out' = [out EXCEPT ![r] = @ \union {m}]
  BY DEF ReadMiss
<1>4. m \in out'[r] /\ m.key = a /\ \A s \in SM : out[s] \subseteq out'[s]
  BY <1>2, <1>3
<1>5. ~Outstanding(r, a)
  BY <1>2 DEF Fetches, Merged
<1>6. ASSUME NEW s \in SM, NEW k \in Key, s # r \/ k # a
      PROVE  Stays(s, k)
  <2>1. extra'[s][k] = extra[s][k]
    BY <1>1, <1>2, <1>6
  <2>2. ParkedKept(s, k)
    BY <1>1, TagAccessParks
  <2>3. Asks(s, k) => Asks(s, k)'
    BY <1>2, <1>4 DEF Asks, NoneOut
  <2>4. (Comes(s, k) => Comes(s, k)') /\ (InMemory(s, k) => InMemory(s, k)') /\ (Answered(s, k) => Answered(s, k)')
    BY <1>2 DEF Comes, InMemory, Answered
  <2>. QED
    BY <2>1, <2>2, <2>3, <2>4 DEF Stays, Outstanding, ParkedKept
<1>7. Asks(r, a)'
  BY <1>4 DEF Asks, NoneOut
<1>. QED
  BY <1>5, <1>6, <1>7

(* The other accesses, a flush and the writeback stage move no fetch.    *)
LEMMA QuietCourse ==
  ASSUME Inv1, NEW r \in SM, NEW a \in Key,
         ReadMerge(r, a) \/ Write(r, a) \/ NextAccess(r, a) \/ Flush(r),
         NEW s \in SM, NEW k \in Key
  PROVE  Stays(s, k)
<1>1. /\ out' = out /\ recv' = recv /\ missq' = missq /\ mem' = mem /\ resp' = resp
      /\ extra' = extra
  BY DEF ReadMerge, Write, NextAccess, Flush
<1>2. \/ UNCHANGED table
      \/ \E i \in Lines : TagAccess(r, a, i)
      \/ \E keys : table' = delAll(table, r, keys)
  BY DEF ReadMerge, Write, NextAccess, Flush, del
<1>3. ParkedKept(s, k)
  BY <1>2, SameParked, TagAccessParks, DelParks
<1>. QED
  BY <1>1, <1>3 DEF Stays, Asks, NoneOut, Comes, InMemory, Answered, Outstanding, ParkedKept

(* Who ends its trip goes on asking, at its home.                          *)
LEMMA HistCycleCourse ==
  ASSUME Inv1, NEW r \in SM, HistCycle(r), NEW s \in SM, NEW k \in Key
  PROVE  Stays(s, k)
<1> DEFINE probe(m) == [sid |-> r, key |-> m.key, wait |-> 0]
           closer(m) == [m EXCEPT !.wait = @ - 1]
<1>1. out \in [SM -> SUBSET Flit] /\ recv \in [SM -> SUBSET Message]
  BY DEF Inv1, Shape
<1>2. /\ out' = [out EXCEPT ![r] = {closer(m) : m \in out[r] \ Arrived(r)}]
      /\ \A h \in SM : recv'[h] = recv[h] \union
           {probe(m) : m \in {n \in Arrived(r) : get_home(n.key) = h}}
  BY DEF HistCycle
<1>3. ParkedKept(s, k) /\ missq' = missq /\ mem' = mem /\ resp' = resp /\ extra' = extra
  BY SameParked DEF HistCycle, core
<1>4. ASSUME NEW m \in out[s], m.key = k
      PROVE  Asks(s, k)'
  <2>1. m \in Flit /\ get_home(k) \in SM
    BY <1>1, HomeIsSM
  <2>2. CASE s # r
    BY <1>1, <1>2, <1>4, <2>2 DEF Asks, NoneOut
  <2>3. CASE s = r /\ m \in Arrived(r)
    <3>1. probe(m) \in recv'[get_home(k)] /\ probe(m).sid = s /\ probe(m).key = k /\ probe(m).wait = 0
      BY <1>2, <1>4, <2>1, <2>3
    <3>. QED
      BY <2>1, <3>1 DEF Asks, Mine
  <2>4. CASE s = r /\ m \notin Arrived(r)
    <3>1. closer(m) \in out'[s] /\ closer(m).key = k
      BY <1>1, <1>2, <1>4, <2>1, <2>4 DEF Flit
    <3>. QED
      BY <3>1 DEF Asks, NoneOut
  <2>. QED
    BY <2>2, <2>3, <2>4
<1>5. \A h \in SM : recv[h] \subseteq recv'[h]
  BY <1>2
<1>6. Asks(s, k) => Asks(s, k)'
  BY <1>4, <1>5 DEF Asks, NoneOut
<1>7. Comes(s, k) => Comes(s, k)'
  BY <1>5 DEF Comes
<1>. QED
  BY <1>3, <1>6, <1>7 DEF Stays, InMemory, Answered, Outstanding, ParkedKept

(* A message that is not served stays what it is.                          *)
LEMMA OthersStay ==
  ASSUME Shape, NEW h \in SM, NEW s \in SM, NEW k \in Key,
         out' = out,
         \A g \in SM : \A o \in recv[g] : Mine(o, s, k) => Tick(h, g, o) \in recv'[g]
  PROVE  /\ Asks(s, k) => Asks(s, k)'
         /\ Comes(s, k) => Comes(s, k)'
<1>1. ASSUME NEW g \in SM, NEW o \in recv[g], Mine(o, s, k)
      PROVE  /\ Tick(h, g, o) \in recv'[g] /\ Mine(Tick(h, g, o), s, k)
             /\ o.wait = 0 => Tick(h, g, o).wait = 0
             /\ o.wait > 0 => Tick(h, g, o).wait > 0
  <2>1. o \in Message /\ Delay \in Nat
    BY ProtocolAssumption DEF Shape
  <2>2. o.wait = 0 => Tick(h, g, o).wait = 0
    BY <2>1 DEF Tick, Message
  <2>3. o.wait > 0 => Tick(h, g, o).wait > 0
    BY <2>1 DEF Tick, CountDown, Message
  <2>. QED
    BY <1>1, <2>2, <2>3, TickMine DEF Mine
<1>2. Comes(s, k) => Comes(s, k)'
  BY <1>1 DEF Comes
<1>3. Asks(s, k) => Asks(s, k)'
  BY <1>1 DEF Asks, NoneOut
<1>. QED
  BY <1>2, <1>3

(* Nor does a cycle in which nothing is due.                             *)
LEMMA TickCourse ==
  ASSUME Inv1, NEW h \in SM, RecvCycle(h), TickOnly(h), NEW s \in SM, NEW k \in Key
  PROVE  Stays(s, k)
<1>1. /\ recv' = [recv EXCEPT ![h] = Ticked(h)]
      /\ out' = out /\ mem' = mem /\ extra' = extra
      /\ table' = table /\ missq' = missq /\ resp' = resp
  BY DEF RecvCycle, TickOnly, core
<1>2. recv \in [SM -> SUBSET Message] /\ Shape
  BY DEF Inv1, Shape
<1>3. \A g \in SM : recv'[g] = {Tick(h, g, o) : o \in recv[g]}
  <2>1. \A g \in SM \ {h} : recv'[g] = {Tick(h, g, o) : o \in recv[g]}
    BY <1>1, <1>2 DEF Tick
  <2>. QED
    BY <1>1, <1>2, <2>1, TickedIs
<1>4. (Asks(s, k) => Asks(s, k)') /\ (Comes(s, k) => Comes(s, k)')
  BY <1>1, <1>2, <1>3, OthersStay
<1>. QED
  BY <1>1, <1>4, SameParked DEF Stays, InMemory, Answered, Outstanding, ParkedKept

(* A grant waits at least as long as the delay.                            *)
LEMMA GrantWaitPositive ==
  ASSUME Delay # 0, NEW s \in SM, NEW k \in Key
  PROVE  GrantWait(s, k) > 0
  BY DistanceIsNat, HomeIsSM, ProtocolAssumption DEF GrantWait

(* What serving m does to its own fetch.                                   *)
LEMMA ServedCourse ==
  ASSUME Inv1, Fetches, Delay # 0, NEW h \in SM, RecvCycle(h),
         NEW m \in recv[h], Next_Due(h, m),
         ProcessProbe(h, m) \/ DeliverGrant(h, m) \/ AdvanceGrant(h, m)
  PROVE  \/ Asks(m.sid, m.key) /\ (Comes(m.sid, m.key)' \/ InMemory(m.sid, m.key)' \/ Parked(m.sid, m.key)')
         \/ Comes(m.sid, m.key) /\ (Answered(m.sid, m.key)' \/ InMemory(m.sid, m.key)')
         \/ Comes(m.sid, m.key) /\ Comes(m.sid, m.key)'
<1> DEFINE s == m.sid
           k == m.key
<1>1. /\ s \in SM /\ k \in Key /\ m.wait \in Nat /\ Mine(m, s, k)
      /\ recv \in [SM -> SUBSET Message] /\ missq \in [SM -> SUBSET Key] /\ resp \in [SM -> SUBSET Key]
      /\ m.wait # 0 => m.sid = h
  BY DEF Inv1, Shape, Message, Mine, Fetches, GrantsAtSM
<1>2. m.wait = 0 => Asks(s, k)
  BY <1>1 DEF Asks
<1>3. m.wait > 0 => Comes(s, k)
  BY <1>1 DEF Comes
<1>4. ToMissQueue(m) => InMemory(s, k)'
  BY <1>1 DEF ToMissQueue, InMemory
<1>5. recv' = Granted(h, m) => Comes(s, k)'
  <2> SUFFICES ASSUME recv' = Granted(h, m) PROVE Comes(s, k)'
    OBVIOUS
  <2>1. PICK grant : grant = [sid |-> s, key |-> k, wait |-> GrantWait(s, k)]
    OBVIOUS
  <2>2. recv' = [Served(h, m) EXCEPT ![s] = @ \union {grant}]
    BY <2>1 DEF Granted
  <2>3. Served(h, m) \in [SM -> SUBSET Message]
    BY <1>1, QueuesTyped DEF Inv1
  <2>4. grant \in recv'[s] /\ Mine(grant, s, k) /\ grant.wait > 0
    BY <1>1, <2>1, <2>2, <2>3, GrantWaitPositive DEF Mine
  <2>. QED
    BY <1>1, <2>4 DEF Comes
<1>6. CASE DeliverGrant(h, m)
  <2>1. m.wait > 0 /\ (ToMissQueue(m) \/ resp' = [resp EXCEPT ![h] = @ \union {m.key}])
    BY <1>6 DEF DeliverGrant
  <2>2. resp' = [resp EXCEPT ![h] = @ \union {m.key}] => Answered(s, k)'
    BY <1>1, <2>1 DEF Answered
  <2>. QED
    BY <1>3, <1>4, <2>1, <2>2
<1>7. CASE AdvanceGrant(h, m)
  <2>1. m.wait > 1 /\ recv' = [recv EXCEPT ![h] = (Ticked(h) \ {m}) \union {CountDown(m)}]
    BY <1>7 DEF AdvanceGrant
  <2>2. CountDown(m) \in recv'[h] /\ CountDown(m).wait > 0 /\ Mine(CountDown(m), s, k)
    BY <1>1, <2>1 DEF CountDown, Mine, Message
  <2>. QED
    BY <1>1, <1>3, <2>1, <2>2 DEF Comes
<1>8. CASE ProcessProbe(h, m)
  <2>1. m.wait = 0
    BY <1>8 DEF ProcessProbe
  <2>2. CASE ProbeOutOfRange(h, m)
    BY <2>1, <2>2, <1>2, <1>4, <1>5 DEF ProbeOutOfRange
  <2>3. CASE ProbeInRange(h, m)
    <3>1. check_in_range(m.sid, get_home(m.key))
      BY <2>3 DEF ProbeInRange
    <3>2. ASSUME NEW i \in Idx, Park(h, m, i) PROVE Parked(s, k)'
      BY <1>1, <3>1, <3>2, ParkParks
    <3>3. ASSUME NEW i \in Idx, TakeEntry(h, m, i) \/ Grant(h, m, i)
          PROVE  Comes(s, k)' \/ InMemory(s, k)'
      BY <1>4, <1>5, <3>3 DEF TakeEntry, Grant
    <3>4. Bypass(h, m) => InMemory(s, k)'
      BY <1>4 DEF Bypass
    <3>. QED
      BY <2>1, <2>3, <1>2, <3>2, <3>3, <3>4 DEF ProbeInRange
  <2>. QED
    BY <1>8, <2>2, <2>3 DEF ProcessProbe
<1>. QED
  BY <1>6, <1>7, <1>8

(* And to the others: nothing.                                             *)
LEMMA UnservedCourse ==
  ASSUME Inv1, Fetches, NEW h \in SM, RecvCycle(h),
         NEW m \in recv[h], Next_Due(h, m),
         ProcessProbe(h, m) \/ DeliverGrant(h, m) \/ AdvanceGrant(h, m),
         NEW s \in SM, NEW k \in Key, ~Mine(m, s, k)
  PROVE  Stays(s, k)
<1>1. /\ out' = out /\ mem' = mem /\ extra' = extra /\ m.wait <= Delay
  BY DEF RecvCycle, core, Next_Due, Due
<1>2. /\ Shape /\ m.sid \in SM /\ m.key \in Key
      /\ missq \in [SM -> SUBSET Key] /\ resp \in [SM -> SUBSET Key]
      /\ m.wait # 0 => m.sid = h
  BY DEF Inv1, Shape, Message, Fetches, GrantsAtSM
<1>3. /\ \/ recv' = Served(h, m)
         \/ recv' = Granted(h, m)
         \/ recv' = [recv EXCEPT ![h] = (Ticked(h) \ {m}) \union {CountDown(m)}]
      /\ missq' = missq \/ ToMissQueue(m)
      /\ resp' = resp \/ resp' = [resp EXCEPT ![h] = @ \union {m.key}]
  <2>1. CASE DeliverGrant(h, m)
    BY <2>1 DEF DeliverGrant
  <2>2. CASE AdvanceGrant(h, m)
    BY <2>2 DEF AdvanceGrant
  <2>3. CASE ProcessProbe(h, m)
    BY <2>3 DEF ProcessProbe, ProbeInRange, ProbeOutOfRange, TakeEntry, Park, Grant, Bypass
  <2>. QED
    BY <2>1, <2>2, <2>3
<1>4. (InMemory(s, k) => InMemory(s, k)') /\ (Answered(s, k) => Answered(s, k)')
  BY <1>1, <1>2, <1>3 DEF InMemory, Answered, ToMissQueue
<1>5. (Asks(s, k) => Asks(s, k)') /\ (Comes(s, k) => Comes(s, k)')
  BY <1>1, <1>2, <1>3, OthersTick, OthersStay
<1>6. ParkedKept(s, k)
  <2>1. CASE UNCHANGED table
    BY <2>1, SameParked
  <2>2. CASE ~UNCHANGED table
    <3>1. check_in_range(m.sid, get_home(m.key)) /\
          \E i \in Idx : TakeEntry(h, m, i) \/ Park(h, m, i) \/ Grant(h, m, i)
      BY <2>2 DEF ProcessProbe, ProbeInRange, ProbeOutOfRange, Bypass, DeliverGrant, AdvanceGrant
    <3>. QED
      BY <3>1, TakeParks, ParkParks
  <2>. QED
    BY <2>1, <2>2
<1>. QED
  BY <1>1, <1>4, <1>5, <1>6 DEF Stays, Outstanding, ParkedKept

(* The memory path.                                                        *)
LEMMA SendCourse ==
  ASSUME Inv1, NEW r \in SM, Send(r), NEW s \in SM, NEW k \in Key
  PROVE  Stays(s, k)
<1>1. /\ out' = out /\ recv' = recv /\ table' = table /\ extra' = extra /\ resp' = resp
      /\ missq \in [SM -> SUBSET Key] /\ mem \in [SM -> SUBSET Key]
  BY DEF Send, core, Inv1, Shape
<1>2. InMemory(s, k) => InMemory(s, k)'
  <2>1. CASE UNCHANGED <<missq, mem>>
    BY <2>1 DEF InMemory
  <2>2. ASSUME NEW a \in missq[r], missq' = [missq EXCEPT ![r] = @ \ {a}],
               mem' = [mem EXCEPT ![r] = @ \union {a}]
        PROVE  InMemory(s, k) => InMemory(s, k)'
    BY <1>1, <2>2 DEF InMemory
  <2>. QED
    BY <2>1, <2>2 DEF Send
<1>. QED
  BY <1>1, <1>2, SameParked DEF Stays, Asks, NoneOut, Comes, Answered, Outstanding, ParkedKept

(* Memory answers one fetch.                                             *)
LEMMA ReplyCourse ==
  ASSUME Inv1, NEW r \in SM, NEW a \in Key, Reply(r, a)
  PROVE  /\ InMemory(r, a) /\ Answered(r, a)'
         /\ \A s \in SM, k \in Key : s # r \/ k # a => Stays(s, k)
<1>1. /\ out' = out /\ recv' = recv /\ table' = table /\ extra' = extra /\ missq' = missq
      /\ mem \in [SM -> SUBSET Key] /\ resp \in [SM -> SUBSET Key]
      /\ a \in mem[r] /\ mem' = [mem EXCEPT ![r] = @ \ {a}]
      /\ resp' = [resp EXCEPT ![r] = @ \union {a}]
  BY DEF Reply, core, Inv1, Shape
<1>2. ASSUME NEW s \in SM, NEW k \in Key, s # r \/ k # a
      PROVE  Stays(s, k)
  <2>1. (InMemory(s, k) => InMemory(s, k)') /\ (Answered(s, k) => Answered(s, k)')
    BY <1>1, <1>2 DEF InMemory, Answered
  <2>. QED
    BY <1>1, <2>1, SameParked DEF Stays, Asks, NoneOut, Comes, Outstanding, ParkedKept
<1>. QED
  BY <1>1, <1>2 DEF InMemory, Answered

(* The fill of r ends its fetch, and it grants what is parked for the      *)
(* block or leaves everything else as it is.                               *)
LEMMA FillCourse ==
  ASSUME Inv1, Fetches, Delay # 0, NEW r \in SM, NEW a \in Key, Fill(r, a)
  PROVE  /\ Answered(r, a) /\ ~Outstanding(r, a)'
         /\ \/ \A s \in SM, k \in Key : s # r \/ k # a => Stays(s, k)
            \/ \A s \in SM, k \in Key : s # r \/ k # a =>
                 IF k = a /\ Parked(s, k) THEN Comes(s, k)' ELSE Stays(s, k)
<1>1. /\ out' = out /\ missq' = missq /\ mem' = mem
      /\ a \in resp[r] /\ resp' = [resp EXCEPT ![r] = @ \ {a}]
      /\ extra' = [extra EXCEPT ![r][a] = 0]
      /\ resp \in [SM -> SUBSET Key] /\ extra \in [SM -> [Key -> 0 .. NLines]]
      /\ recv \in [SM -> SUBSET Message] /\ WellFormed(table)
  BY DEF Fill, Inv1, Shape
<1>2. Answered(r, a) /\ ~Outstanding(r, a)'
  BY <1>1 DEF Answered, Outstanding
<1>3. ASSUME NEW s \in SM, NEW k \in Key, s # r \/ k # a,
             \A g \in SM : recv[g] \subseteq recv'[g], Parked(s, k) => Parked(s, k)'
      PROVE  Stays(s, k)
  <2>1. extra'[s][k] = extra[s][k] /\ (Answered(s, k) => Answered(s, k)')
    BY <1>1, <1>3 DEF Answered
  <2>2. (Asks(s, k) => Asks(s, k)') /\ (Comes(s, k) => Comes(s, k)') /\ (InMemory(s, k) => InMemory(s, k)')
    BY <1>1, <1>3 DEF Asks, NoneOut, Comes, InMemory
  <2>. QED
    BY <2>1, <2>2, <1>3 DEF Stays, Outstanding
<1>4. CASE UNCHANGED <<table, recv>>
  BY <1>2, <1>3, <1>4, SameParked DEF ParkedKept
<1>5. ASSUME NEW i \in Idx, HitAt(table, a, i, "WAIT"),
             table' = Release(ready(table, a, i), a, i), recv' = Released(i, r, a)
      PROVE  \A s \in SM, k \in Key : s # r \/ k # a =>
               IF k = a /\ Parked(s, k) THEN Comes(s, k)' ELSE Stays(s, k)
  <2> DEFINE h == get_home(a)
  <2>1. h \in SM
    BY HomeIsSM
  <2>2. OneEntry(table, table', a, i)
    BY <1>1, <1>5, FillKeeps
  <2>6. table[h][i].key = a
    BY <1>5 DEF HitAt, ProbeStopsAt
  <2>3. \A g \in SM : recv[g] \subseteq recv'[g]
    BY <1>5 DEF Released
  <2>4. ASSUME NEW s \in SM, Parked(s, a) PROVE Comes(s, a)'
    <3>1. PICK g \in SM, j \in Idx : ParkedAt(s, a, g, j)
      BY <2>4 DEF Parked
    <3>2. table[g][j].status = "WAIT" /\ table[g][j].key = a
      BY <1>1, <3>1 DEF ParkedAt, WellFormed, ParkedOnWait
    <3>3. get_home(a) = g /\ ProbeStopsAt(table, a, j)
      BY <1>1, <3>2 DEF WellFormed, FoundByProbe
    <3>4. j = i
      BY <1>1, <1>5, <3>3, OneStop DEF HitAt
    <3>5. [sid |-> s, key |-> a] \in table[h][i].filtered
      BY <3>1, <3>3, <3>4 DEF ParkedAt
    <3>6. PICK grant : grant = [sid |-> s, key |-> a, wait |-> GrantWait(r, a)]
      OBVIOUS
    <3>7. grant \in recv'[s]
      BY <1>5, <3>5, <3>6 DEF Released
    <3>8. Mine(grant, s, a) /\ grant.wait > 0
      BY <3>6, GrantWaitPositive DEF Mine
    <3>. QED
      BY <3>7, <3>8 DEF Comes
  <2>5. ASSUME NEW s \in SM, NEW k \in Key, k # a, Parked(s, k) PROVE Parked(s, k)'
    <3>1. PICK g \in SM, j \in Idx : ParkedAt(s, k, g, j)
      BY <2>5 DEF Parked
    <3>2. table[g][j].key = k
      BY <1>1, <3>1 DEF ParkedAt, WellFormed, ParkedOnWait
    <3>3. table'[g][j] = table[g][j]
      BY <2>2, <2>6, <2>5, <3>2 DEF OneEntry
    <3>. QED
      BY <3>1, <3>3 DEF Parked, ParkedAt
  <2>7. ASSUME NEW s \in SM, NEW k \in Key, s # r \/ k # a, ~(k = a /\ Parked(s, k))
        PROVE  Stays(s, k)
    BY <1>3, <2>3, <2>5, <2>7
  <2>. QED
    BY <2>4, <2>7
<1>. QED
  BY <1>2, <1>4, <1>5 DEF Fill

-----------------------------------------------------------------------------
(* From the fetches to FetchCourse.                                        *)

SameBut(c, b) == \A s \in SM, k \in Key : s # c \/ k # b => Stage(s, k)' = Stage(s, k)

(* One fetch moves on,                                                   *)
LEMMA CourseMoves ==
  ASSUME NEW c \in SM, NEW b \in Key, SameBut(c, b),
         Stage(c, b)' \in Course!Successors[Stage(c, b)]
  PROVE  Course!Next
<1>1. PICK next : next = Stage(c, b)'
  OBVIOUS
<1>2. [s \in SM |-> [k \in Key |-> Stage(s, k)]]'
        = [[s \in SM |-> [k \in Key |-> Stage(s, k)]] EXCEPT ![c][b] = next]
  BY <1>1 DEF SameBut
<1>3. Course!Move(c, b)
  BY <1>1, <1>2 DEF Course!Move
<1>. QED
  BY <1>3 DEF Course!Next

(* none does,                                                            *)
LEMMA CourseStays ==
  ASSUME \A s \in SM, k \in Key : Stage(s, k)' = Stage(s, k)
  PROVE  UNCHANGED [s \in SM |-> [k \in Key |-> Stage(s, k)]]
  OBVIOUS

(* or one ends and those parked for its block are granted.               *)
LEMMA CourseGrants ==
  ASSUME NEW c \in SM, NEW b \in Key, Stage(c, b) = "answered", Stage(c, b)' = "idle",
         \A s \in SM, k \in Key : s # c \/ k # b =>
           Stage(s, k)' = IF k = b /\ Stage(s, k) = "parked" THEN "granted" ELSE Stage(s, k)
  PROVE  Course!Next
<1>1. Course!FillAndGrant(c, b)
  BY DEF Course!FillAndGrant
<1>. QED
  BY <1>1 DEF Course!Next

(* Where a fetch may go by itself.                                       *)
LEMMA CourseSuccessors ==
  /\ Course!Successors["idle"] = {"asking"}
  /\ Course!Successors["asking"] = {"granted", "parked", "memory"}
  /\ Course!Successors["granted"] = {"answered", "memory"}
  /\ Course!Successors["memory"] = {"answered"}
  /\ Course!Successors["answered"] = {"idle"}
  BY DEF Course!Successors

(* Every step of the protocol is a step of FetchCourse or none.          *)
LEMMA CourseStep ==
  ASSUME Inv1, Fetches, Inv1', Fetches', Delay # 0, [Next]_vars
  PROVE  Course!Next \/ UNCHANGED [s \in SM |-> [k \in Key |-> Stage(s, k)]]
<1>1. \A s \in SM, k \in Key : StageIs(s, k) /\ StageIs(s, k)'
  BY StagesAre, StagesAreNext
<1>2. \A s \in SM, k \in Key : Stays(s, k) => Stage(s, k)' = Stage(s, k)
  BY <1>1, SameStage
<1>3. CASE UNCHANGED vars
  <2>1. \A s \in SM, k \in Key : Stage(s, k)' = Stage(s, k)
    BY <1>3 DEF vars, Stage
  <2>. QED
    BY <2>1, CourseStays
<1>4. ASSUME NEW r \in SM, NEW a \in Key, ReadMiss(r, a)
      PROVE  Course!Next
  <2>1. SameBut(r, a) /\ Stage(r, a) = "idle" /\ Stage(r, a)' = "asking"
    BY <1>1, <1>2, <1>4, ReadMissCourse DEF SameBut, StageIs
  <2>. QED
    BY <2>1, CourseMoves, CourseSuccessors
<1>5. ASSUME NEW r \in SM, NEW a \in Key, ReadMerge(r, a) \/ Write(r, a) \/ NextAccess(r, a) \/ Flush(r)
      PROVE  \A s \in SM, k \in Key : Stage(s, k)' = Stage(s, k)
  BY <1>2, <1>5, QuietCourse
<1>6. ASSUME NEW r \in SM, HistCycle(r)
      PROVE  \A s \in SM, k \in Key : Stage(s, k)' = Stage(s, k)
  BY <1>2, <1>6, HistCycleCourse
<1>7. ASSUME NEW h \in SM, RecvCycle(h)
      PROVE  Course!Next \/ \A s \in SM, k \in Key : Stage(s, k)' = Stage(s, k)
  <2>1. CASE TickOnly(h)
    BY <1>2, <1>7, <2>1, TickCourse
  <2>2. ASSUME NEW m \in recv[h], Next_Due(h, m),
               ProcessProbe(h, m) \/ DeliverGrant(h, m) \/ AdvanceGrant(h, m)
        PROVE  Course!Next \/ \A s \in SM, k \in Key : Stage(s, k)' = Stage(s, k)
    <3> DEFINE c == m.sid
               b == m.key
    <3>1. c \in SM /\ b \in Key
      BY AtHome
    <3>2. SameBut(c, b)
      BY <1>2, <1>7, <2>2, UnservedCourse DEF SameBut, Mine
    <3>3. \/ Stage(c, b) = "asking" /\ Stage(c, b)' \in {"granted", "parked", "memory"}
          \/ Stage(c, b) = "granted" /\ Stage(c, b)' \in {"answered", "memory"}
          \/ Stage(c, b) = "granted" /\ Stage(c, b)' = "granted"
      BY <1>1, <1>7, <2>2, <3>1, ServedCourse DEF StageIs
    <3> HIDE DEF c, b
    <3>4. CASE Stage(c, b)' = Stage(c, b)
      BY <3>1, <3>2, <3>4 DEF SameBut
    <3>5. CASE Stage(c, b)' # Stage(c, b)
      BY <3>1, <3>2, <3>3, <3>5, CourseMoves, CourseSuccessors
    <3>. QED
      BY <3>4, <3>5
  <2>. QED
    BY <1>7, <2>1, <2>2 DEF RecvCycle
<1>8. ASSUME NEW r \in SM, Send(r)
      PROVE  \A s \in SM, k \in Key : Stage(s, k)' = Stage(s, k)
  BY <1>2, <1>8, SendCourse
<1>9. ASSUME NEW r \in SM, NEW a \in Key, Reply(r, a)
      PROVE  Course!Next
  <2>1. SameBut(r, a) /\ Stage(r, a) = "memory" /\ Stage(r, a)' = "answered"
    BY <1>1, <1>2, <1>9, ReplyCourse DEF SameBut, StageIs
  <2>. QED
    BY <2>1, CourseMoves, CourseSuccessors
<1>10. ASSUME NEW r \in SM, NEW a \in Key, Fill(r, a)
       PROVE  Course!Next
  <2>1. Stage(r, a) = "answered" /\ Stage(r, a)' = "idle"
    BY <1>1, <1>10, FillCourse DEF StageIs
  <2>2. CASE \A s \in SM, k \in Key : s # r \/ k # a => Stays(s, k)
    <3>1. SameBut(r, a)
      BY <1>2, <2>2 DEF SameBut
    <3>. QED
      BY <2>1, <3>1, CourseMoves, CourseSuccessors
  <2>3. CASE \A s \in SM, k \in Key : s # r \/ k # a =>
               IF k = a /\ Parked(s, k) THEN Comes(s, k)' ELSE Stays(s, k)
    <3>1. \A s \in SM, k \in Key : s # r \/ k # a =>
            Stage(s, k)' = IF k = a /\ Stage(s, k) = "parked" THEN "granted" ELSE Stage(s, k)
      BY <1>1, <1>2, <2>3 DEF StageIs
    <3>. QED
      BY <2>1, <3>1, CourseGrants
  <2>. QED
    BY <1>10, <2>2, <2>3, FillCourse
<1>. QED
  BY <1>3, <1>4, <1>5, <1>6, <1>7, <1>8, <1>9, <1>10, CourseStays DEF Next

(* At the start every fetch is idle.                                     *)
LEMMA CourseBegins == Init => Course!Init
<1> SUFFICES ASSUME Init PROVE Course!Init
  OBVIOUS
<1>1. /\ \A s \in SM : out[s] = {} /\ recv[s] = {} /\ missq[s] = {} /\ mem[s] = {} /\ resp[s] = {}
      /\ \A h \in SM, i \in Idx : table[h][i].filtered = {}
  BY DEF Init, EmptyTable, EmptyEntry
<1>2. \A s \in SM, k \in Key : Stage(s, k) = "idle"
  BY <1>1 DEF Stage
<1>. QED
  BY <1>2 DEF Course!Init

(* Every fetch takes the course of FetchCourse: it asks once, is granted,  *)
(* parked or sent to memory, and never goes back (process_probe, fill).    *)
(* With a delay of 0 a grant to the home itself has no wait and is taken   *)
(* for a probe, so a parked fetch would ask again.                         *)
THEOREM FetchesTakeTheirCourse == (Delay # 0) => (Spec => Course!Steps)
<1> SUFFICES ASSUME Delay # 0 PROVE Spec => Course!Steps
  OBVIOUS
<1>1. Inv2 /\ Inv2' /\ [Next]_vars => [Course!Next]_[s \in SM |-> [k \in Key |-> Stage(s, k)]]
  BY CourseStep DEF Inv2
<1>. QED
  BY <1>1, CourseBegins, EveryFetchCounted, PTL DEF Spec, Course!Steps
=============================================================================
