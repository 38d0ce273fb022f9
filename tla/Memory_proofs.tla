----------------------------- MODULE Memory_proofs -----------------------------
(***************************************************************************)
(* What the caches of a core promise, and what its load/store unit counts. *)
(*                                                                         *)
(* DataCache, a single cache with MSHRs, under any configuration that      *)
(* cache_config::init accepts, for any geometry, any number of MSHRs and   *)
(* any bound of the miss queue: CacheHolds, and, where the policies let it *)
(* be, DirtyKept.  The inductive invariant says of every block that the    *)
(* fetch of its entry is in the miss queue, or away, or answered, and in   *)
(* one of the three; it counts with "no request is twice in the queue" in  *)
(* place of the cardinalities of EntryIsServed.  That a fetch finds its    *)
(* way rests on OneWay, and so does the order of reads behind write-backs: *)
(* a block that is read reserves a way, hence it is not the one that is    *)
(* evicted.                                                                *)
(*                                                                         *)
(* TexCache, for any sizes of its FIFOs: PromisesKept.  The invariant      *)
(* counts the misses of the fragment FIFO by Nth, which says which slot of *)
(* the reorder buffer is whose; that a line's tag is what its data will be *)
(* is carried from one head of the FIFO to the next by PromTail.           *)
(*                                                                         *)
(* LdstUnit, for any programs, warps and registers: AccessesCounted.  The  *)
(* invariant says where an instruction may be, and that no two that write  *)
(* one register are on their way: so what is pending of a register is what *)
(* is out of one instruction.  A step moves one instruction at most, and   *)
(* the registers and the counters of its warp follow it.                   *)
(***************************************************************************)
EXTENDS DataCache, TexCache, LdstUnit, SequenceTheorems, FiniteSetTheorems, TLAPS

-----------------------------------------------------------------------------
(* What is known of the lines: those in use have a block,                  *)
LineOK ==
  \A w \in Way : ways[w].status # "INVALID" => ways[w].block \in DataBlock

(* no two ways hold one,                                                   *)
OneWay == \A b \in DataBlock, v, w \in Way : Keeps(b, v) /\ Keeps(b, w) => v = w

(* and a cache that allocates on fill reserves nothing.                    *)
NoneReserved == conf.alloc = "ON_FILL" => \A w \in Way : ways[w].status # "RESERVED"

LineTyped ==
  ways \in [Way -> [status : {"INVALID", "RESERVED", "VALID", "MODIFIED"},
                    block : DataBlock \union {Nothing}]]

LineInv == LineTyped /\ LineOK /\ OneWay /\ NoneReserved

InQueue(b) == \E i \in DOMAIN queue : queue[i] = ReadOf(b)

(* A block is read once, answered once,                                    *)
ReadOnce == \A i, j \in DOMAIN queue : queue[i].kind = "read" /\ queue[i] = queue[j] => i = j
AnsweredOnce == \A i, j \in DOMAIN response : response[i] = response[j] => i = j

(* and is in one of the three places, if there is an entry for it.         *)
ServedOnce ==
  \A b \in DataBlock :
    /\ HasEntry(b) <=> InQueue(b) \/ b \in away \/ InResponse(b)
    /\ ~(InQueue(b) /\ b \in away)
    /\ ~(InResponse(b) /\ (InQueue(b) \/ b \in away))

Finds ==
  \A b \in DataBlock :
    InQueue(b) \/ b \in away =>
      IF conf.alloc = "ON_MISS"
      THEN fills[b] \in Way /\ ReservedIn(b, fills[b])
      ELSE \A w \in Way : ~Keeps(b, w)

CacheInv ==
  /\ CacheTypeOK /\ LineInv /\ ReadOnce /\ AnsweredOnce /\ ServedOnce /\ Finds
  /\ QueueBounded /\ ReadBehindWriteBack

-----------------------------------------------------------------------------
(* What the initial states are. *)
LEMMA CacheInitOK == ASSUME CacheInit PROVE CacheInv
<1>1. queue = <<>> /\ response = <<>> /\ away = {}
  BY DEF CacheInit
<1>2. queue \in Seq(Request) /\ response \in Seq(DataBlock) /\ Len(queue) = 0
      /\ DOMAIN queue = {} /\ DOMAIN response = {}
  BY <1>1
<1>3. CacheTypeOK /\ LineInv
  BY <1>2, CacheAssumption DEF CacheInit, CacheTypeOK, LineTyped, LineInv, LineOK, OneWay,
                               NoneReserved, Keeps, Config
<1>4. ReadOnce /\ AnsweredOnce /\ ReadBehindWriteBack /\ QueueBounded
  BY <1>2, CacheAssumption DEF ReadOnce, AnsweredOnce, ReadBehindWriteBack, QueueBounded
<1>5. ServedOnce /\ Finds
  BY <1>1, <1>2 DEF CacheInit, ServedOnce, Finds, InQueue, InResponse, HasEntry
<1>. QED
  BY <1>3, <1>4, <1>5 DEF CacheInv

-----------------------------------------------------------------------------
(* The miss queue grows: what is new are reads of the blocks in `reads`,   *)
(* one at most, writes, and write-backs of the blocks in `backs`.          *)
New == {i \in DOMAIN queue' : i > Len(queue)}
Grows(reads, backs) ==
  /\ queue' \in Seq(Request) /\ Len(queue') >= Len(queue)
  /\ \A i \in DOMAIN queue : i \in DOMAIN queue' /\ queue'[i] = queue[i]
  /\ \A c \in DataBlock : c \in reads <=> \E i \in New : queue'[i] = ReadOf(c)
  /\ \A i, j \in New : queue'[i].kind = "read" /\ queue'[i] = queue'[j] => i = j
  /\ \A i \in New : queue'[i].kind = "writeback" => queue'[i].block \in backs

(* One request, or none, *)
Optional(t, e) == t \in {<<>>, <<e>>}

LEMMA OneOrNone ==
  ASSUME NEW e \in Request, NEW t, Optional(t, e)
  PROVE  /\ t \in Seq(Request) /\ Len(t) \in {0, 1}
         /\ Len(t) = 1 => t[1] = e
         /\ Len(t) = 1 <=> t = <<e>>
         /\ Len(t) = 1 <=> t # <<>>
<1>1. CASE t = <<>>
  <2>1. t \in Seq(Request) /\ Len(t) = 0
    BY <1>1, EmptySeq
  <2>2. t # <<e>>
    BY <1>1
  <2>. QED
    BY <1>1, <2>1, <2>2
<1>2. CASE t = <<e>>
  <2>1. t \in Seq(Request) /\ Len(t) = 1 /\ t[1] = e /\ t # <<>>
    BY <1>2
  <2>. QED
    BY <1>2, <2>1
<1>. QED
  BY <1>1, <1>2 DEF Optional

(* at the end of a queue. *)
LEMMA PushOne ==
  ASSUME NEW q \in Seq(Request), NEW t \in Seq(Request), Len(t) \in {0, 1}
  PROVE  /\ q \o t \in Seq(Request) /\ Len(q) \in Nat
         /\ Len(q \o t) = Len(q) + Len(t)
         /\ DOMAIN q = 1 .. Len(q) /\ DOMAIN (q \o t) = 1 .. Len(q) + Len(t)
         /\ \A i \in 1 .. Len(q) : (q \o t)[i] = q[i]
         /\ Len(t) = 1 => (q \o t)[Len(q) + 1] = t[1]
<1>1. /\ q \o t \in Seq(Request)
      /\ Len(q \o t) = Len(q) + Len(t)
      /\ \A i \in 1 .. Len(q) + Len(t) : (q \o t)[i] = IF i <= Len(q) THEN q[i] ELSE t[i - Len(q)]
  BY ConcatProperties
<1>2. Len(q) \in Nat /\ DOMAIN q = 1 .. Len(q) /\ DOMAIN (q \o t) = 1 .. Len(q \o t)
  BY <1>1, LenProperties
<1>. QED
  BY <1>1, <1>2

(* Three of them. *)
Bit == {0, 1}

LEMMA Bits ==
  \A l \in Nat, x \in Bit, y \in Bit, z \in Bit : \A i \in 1 .. l + x + y + z :
    i > l => \/ i = l + 1 /\ x = 1
             \/ i = l + x + 1 /\ y = 1
             \/ i = l + x + y + z /\ z = 1
BY DEF Bit

Joined(r, q, e, f, g, l, x, y, z) ==
  /\ l = Len(q) /\ r \in Seq(Request) /\ Len(r) = l + x + y + z
  /\ DOMAIN q = 1 .. l /\ DOMAIN r = 1 .. l + x + y + z
  /\ \A i \in 1 .. l : r[i] = q[i]
  /\ \A i \in 1 .. l + x + y + z : i > l =>
       \/ i = l + 1 /\ x = 1 /\ r[i] = e
       \/ i = l + x + 1 /\ y = 1 /\ r[i] = f
       \/ i = l + x + y + z /\ z = 1 /\ r[i] = g
  /\ y = 1 => r[l + x + 1] = f
  /\ z = 1 => r[l + x + y + z] = g

Tallied(s, t, u, f, x, y, z) ==
  /\ x = Len(s) /\ y = Len(t) /\ z = Len(u)
  /\ (y = 1 <=> t = <<f>>) /\ (z = 1 <=> u # <<>>)

LEMMA PushThree ==
  ASSUME NEW q \in Seq(Request), NEW e \in Request, NEW f \in Request, NEW g \in Request,
         NEW s, NEW t, NEW u, Optional(s, e), Optional(t, f), Optional(u, g),
         NEW r, r = q \o s \o t \o u
  PROVE  \E l \in Nat, x \in Bit, y \in Bit, z \in Bit :
           Tallied(s, t, u, f, x, y, z) /\ Joined(r, q, e, f, g, l, x, y, z)
<1>1. PICK q1 : q1 = q \o s
  OBVIOUS
<1>2. PICK q2 : q2 = q1 \o t
  OBVIOUS
<1>3. r = q2 \o u
  BY <1>1, <1>2
<1>4. Len(q) \in Nat /\ Len(s) \in {0, 1} /\ Len(t) \in {0, 1} /\ Len(u) \in {0, 1}
  BY OneOrNone, LenProperties
<1>5. PICK l \in Nat, x \in Bit, y \in Bit, z \in Bit :
        l = Len(q) /\ x = Len(s) /\ y = Len(t) /\ z = Len(u)
  BY <1>4 DEF Bit
<1>6. x \in {0, 1} /\ y \in {0, 1} /\ z \in {0, 1}
  BY DEF Bit
<1>7. /\ s \in Seq(Request) /\ (x = 1 => s[1] = e)
      /\ t \in Seq(Request) /\ (y = 1 => t[1] = f) /\ (y = 1 <=> t = <<f>>)
      /\ u \in Seq(Request) /\ (z = 1 => u[1] = g) /\ (z = 1 <=> u # <<>>)
  BY <1>5, OneOrNone
<1>8. /\ q1 \in Seq(Request)
      /\ Len(q1) = l + x /\ DOMAIN q = 1 .. l /\ DOMAIN q1 = 1 .. l + x
      /\ \A i \in 1 .. l : q1[i] = q[i]
      /\ x = 1 => q1[l + 1] = e
  BY <1>1, <1>5, <1>7, PushOne
<1>9. /\ q2 \in Seq(Request)
      /\ Len(q2) = l + x + y /\ DOMAIN q2 = 1 .. l + x + y
      /\ \A i \in 1 .. l + x : q2[i] = q1[i]
      /\ y = 1 => q2[l + x + 1] = f
  <2>1. /\ q2 \in Seq(Request) /\ Len(q2) = Len(q1) + Len(t) /\ DOMAIN q2 = 1 .. Len(q1) + Len(t)
        /\ \A i \in 1 .. Len(q1) : q2[i] = q1[i]
        /\ Len(t) = 1 => q2[Len(q1) + 1] = t[1]
    BY <1>2, <1>5, <1>8, <1>7, <1>6, PushOne
  <2>. QED
    BY <1>5, <1>8, <1>7, <2>1
<1>10. /\ r \in Seq(Request)
       /\ Len(r) = l + x + y + z /\ DOMAIN r = 1 .. l + x + y + z
       /\ \A i \in 1 .. l + x + y : r[i] = q2[i]
       /\ z = 1 => r[l + x + y + 1] = g
  <2>1. /\ r \in Seq(Request) /\ Len(r) = Len(q2) + Len(u) /\ DOMAIN r = 1 .. Len(q2) + Len(u)
        /\ \A i \in 1 .. Len(q2) : r[i] = q2[i]
        /\ Len(u) = 1 => r[Len(q2) + 1] = u[1]
    <3>1. q2 \in Seq(Request) /\ u \in Seq(Request) /\ Len(u) \in {0, 1}
      BY <1>5, <1>9, <1>7
    <3>. QED
      BY <1>3, <3>1, PushOne
  <2>. QED
    BY <1>5, <1>9, <1>7, <2>1
<1>11. \A i \in 1 .. l : r[i] = q[i]
  BY <1>8, <1>9, <1>10
<1>12. /\ x = 1 => r[l + 1] = e
       /\ y = 1 => r[l + x + 1] = f
       /\ z = 1 => r[l + x + y + z] = g
  <2>1. ASSUME x = 1 PROVE r[l + 1] = e
    <3>1. l + 1 \in 1 .. l + x /\ l + 1 \in 1 .. l + x + y
      BY <1>6, <2>1
    <3>. QED
      BY <1>8, <1>9, <1>10, <2>1, <3>1
  <2>2. ASSUME y = 1 PROVE r[l + x + 1] = f
    <3>1. l + x + 1 \in 1 .. l + x + y
      BY <1>6, <2>2
    <3>. QED
      BY <1>9, <1>10, <2>2, <3>1
  <2>3. ASSUME z = 1 PROVE r[l + x + y + z] = g
    BY <1>10, <2>3
  <2>. QED
    BY <2>1, <2>2, <2>3
<1>13. \A i \in 1 .. l + x + y + z :
         i > l => \/ i = l + 1 /\ x = 1
                  \/ i = l + x + 1 /\ y = 1
                  \/ i = l + x + y + z /\ z = 1
  BY Bits, Zenon
<1>14. \A i \in 1 .. l + x + y + z : i > l =>
              \/ i = l + 1 /\ x = 1 /\ r[i] = e
              \/ i = l + x + 1 /\ y = 1 /\ r[i] = f
              \/ i = l + x + y + z /\ z = 1 /\ r[i] = g
  BY <1>12, <1>13
<1>15. Tallied(s, t, u, f, x, y, z)
  BY <1>5, <1>7 DEF Tallied
<1>16. /\ r \in Seq(Request) /\ Len(r) = l + x + y + z
       /\ DOMAIN q = 1 .. l /\ DOMAIN r = 1 .. l + x + y + z
  BY <1>8, <1>10
<1>17. Joined(r, q, e, f, g, l, x, y, z)
  BY <1>5, <1>11, <1>12, <1>14, <1>16, Zenon DEF Joined
<1>. QED
  BY <1>15, <1>17, Zenon

(* What send_read_request adds, with the requests of its caller.           *)
LEMMA SendGrows ==
  ASSUME queue \in Seq(Request), NEW b \in DataBlock, NEW w \in Way, NEW atomic \in BOOLEAN,
         NEW first, Optional(first, WriteOf(b)),
         NEW last, NEW back \in Request, back.kind = "writeback", Optional(last, back),
         SendRead(b, w, atomic, first, last)
  PROVE  /\ Grows(IF HasEntry(b) THEN {} ELSE {b}, IF last = <<>> THEN {} ELSE {back.block})
         /\ Len(queue') <= Len(queue) + Len(first) + Len(last) + 1
         /\ last # <<>> => Len(queue') > Len(queue) /\ queue'[Len(queue')] = back
<1>1. PICK mid : mid = IF HasEntry(b) THEN <<>> ELSE <<ReadOf(b)>>
  OBVIOUS
<1>2. Optional(mid, ReadOf(b)) /\ (HasEntry(b) <=> mid # <<ReadOf(b)>>)
  BY <1>1 DEF Optional
<1>3. WriteOf(b) \in Request /\ ReadOf(b) \in Request
  BY DEF WriteOf, ReadOf, Request
<1>4. queue' = queue \o first \o mid \o last
  <2>1. CASE HasEntry(b)
    <3>1. queue \o first \in Seq(Request)
      BY <1>3, OneOrNone, PushOne
    <3>2. queue \o first \o mid = queue \o first
      BY <1>1, <2>1, <3>1, ConcatEmptySeq
    <3>. QED
      BY <2>1, <3>2 DEF SendRead
  <2>2. CASE ~HasEntry(b)
    BY <1>1, <2>2 DEF SendRead
  <2>. QED
    BY <2>1, <2>2
<1>5. PICK r : r = queue'
  OBVIOUS
<1>6. PICK l \in Nat, x \in Bit, y \in Bit, z \in Bit :
        /\ Tallied(first, mid, last, ReadOf(b), x, y, z)
        /\ Joined(r, queue, WriteOf(b), ReadOf(b), back, l, x, y, z)
  <2>1. r = queue \o first \o mid \o last
    BY <1>4, <1>5
  <2>. QED
    BY <1>2, <1>3, <2>1, PushThree, Zenon
<1>7. /\ l = Len(queue) /\ x = Len(first) /\ y = Len(mid) /\ z = Len(last)
      /\ r \in Seq(Request) /\ Len(r) = l + x + y + z
      /\ DOMAIN queue = 1 .. l /\ DOMAIN r = 1 .. l + x + y + z
      /\ \A i \in 1 .. l : r[i] = queue[i]
      /\ \A i \in 1 .. l + x + y + z : i > l =>
           \/ i = l + 1 /\ x = 1 /\ r[i] = WriteOf(b)
           \/ i = l + x + 1 /\ y = 1 /\ r[i] = ReadOf(b)
           \/ i = l + x + y + z /\ z = 1 /\ r[i] = back
      /\ y = 1 => r[l + x + 1] = ReadOf(b)
      /\ z = 1 => r[l + x + y + z] = back
      /\ (y = 1 <=> mid = <<ReadOf(b)>>) /\ (z = 1 <=> last # <<>>)
  BY <1>6, Zenon DEF Tallied, Joined
<1>8. New = {i \in DOMAIN r : i > l}
  BY <1>5, <1>7 DEF New
<1>9. ~HasEntry(b) => l + x + 1 \in New /\ r[l + x + 1] = ReadOf(b)
  BY <1>2, <1>7, <1>8
<1>10. \A i \in New : r[i].kind = "read" => i = l + x + 1 /\ ~HasEntry(b) /\ r[i] = ReadOf(b)
  BY <1>2, <1>7, <1>8 DEF WriteOf
<1>11. last # <<>> <=> z = 1
  BY <1>7
<1>12. \A i \in New : r[i].kind = "writeback" => last # <<>> /\ r[i].block = back.block
  BY <1>7, <1>8, <1>11 DEF WriteOf, ReadOf, Bit
<1>13. \A c \in DataBlock : (~HasEntry(b) /\ c = b) <=> \E i \in New : r[i] = ReadOf(c)
  BY <1>9, <1>10 DEF ReadOf
<1>14. /\ r \in Seq(Request) /\ Len(r) >= l
       /\ \A i \in DOMAIN queue : i \in DOMAIN r /\ r[i] = queue[i]
  BY <1>7
<1>15. Grows(IF HasEntry(b) THEN {} ELSE {b}, IF last = <<>> THEN {} ELSE {back.block})
  BY <1>5, <1>10, <1>12, <1>13, <1>14 DEF Grows
<1>16. Len(r) <= l + x + z + 1
  BY <1>7 DEF Bit
<1>17. z = 1 => Len(r) > l
  BY <1>7
<1>. QED
  BY <1>5, <1>7, <1>11, <1>15, <1>16, <1>17

(* A write goes to the queue, or nothing does. *)
LEMMA WriteGrows ==
  ASSUME queue \in Seq(Request), NEW b \in DataBlock, queue' = Append(queue, WriteOf(b))
  PROVE  Grows({}, {}) /\ Len(queue') = Len(queue) + 1
<1>1. WriteOf(b) \in Request
  BY DEF WriteOf, Request
<1>2. /\ queue' \in Seq(Request) /\ Len(queue') = Len(queue) + 1 /\ Len(queue) \in Nat
      /\ DOMAIN queue = 1 .. Len(queue) /\ DOMAIN queue' = 1 .. Len(queue')
      /\ \A i \in DOMAIN queue : queue'[i] = queue[i]
      /\ queue'[Len(queue) + 1] = WriteOf(b)
  BY <1>1, AppendProperties, LenProperties
<1>3. \A i \in New : queue'[i] = WriteOf(b)
  BY <1>2 DEF New
<1>. QED
  BY <1>2, <1>3 DEF Grows, WriteOf, ReadOf, New

(* Nothing is sent. *)
LEMMA SameGrows ==
  ASSUME queue \in Seq(Request), queue' = queue PROVE Grows({}, {})
<1>1. Len(queue) \in Nat /\ DOMAIN queue = 1 .. Len(queue)
  BY LenProperties
<1>2. New = {}
  BY <1>1 DEF New
<1>. QED
  BY <1>1, <1>2 DEF Grows

-----------------------------------------------------------------------------
(* What the queue promises holds as it grows, if what is read is not there *)
(* yet and what is written back is not read there.                         *)
LEMMA GrowsKeeps ==
  ASSUME queue \in Seq(Request), ReadOnce, ReadBehindWriteBack,
         NEW reads, NEW backs, Grows(reads, backs),
         \A c \in DataBlock : c \in reads => ~InQueue(c),
         \A c \in DataBlock : c \in backs => ~InQueue(c) /\ c \notin reads
  PROVE  /\ ReadOnce' /\ ReadBehindWriteBack'
         /\ \A c \in DataBlock : InQueue(c)' <=> InQueue(c) \/ c \in reads
<1>1. /\ Len(queue) \in Nat /\ DOMAIN queue = 1 .. Len(queue)
      /\ \A i \in DOMAIN queue : queue[i] \in Request
  BY LenProperties, ElementOfSeq
<1>2. /\ Len(queue') \in Nat /\ DOMAIN queue' = 1 .. Len(queue')
      /\ \A i \in DOMAIN queue' : queue'[i] \in Request
  BY LenProperties, ElementOfSeq DEF Grows
<1>3. \A i \in DOMAIN queue' : i \in DOMAIN queue \/ i \in New
  BY <1>1, <1>2 DEF New
<1>4. \A i \in DOMAIN queue : i \in DOMAIN queue' /\ queue'[i] = queue[i] /\ i \notin New
  BY <1>1 DEF Grows, New
<1>5. \A i \in DOMAIN queue, j \in New : i < j
  BY <1>1, <1>2 DEF New
<1>6. \A r \in Request : r.kind = "read" => r = ReadOf(r.block) /\ r.block \in DataBlock
  BY DEF Request, ReadOf
<1>7. \A c \in DataBlock : InQueue(c)' <=> InQueue(c) \/ c \in reads
  BY <1>3, <1>4 DEF InQueue, Grows, New, ReadOf
<1>8. \A i \in DOMAIN queue, j \in New : queue'[j].kind = "read" => queue'[i] # queue'[j]
  <2> SUFFICES ASSUME NEW i \in DOMAIN queue, NEW j \in New, queue'[j].kind = "read",
                      queue'[i] = queue'[j]
               PROVE  FALSE
    OBVIOUS
  <2>1. PICK c \in DataBlock : queue'[j] = ReadOf(c)
    BY <1>2, <1>6 DEF New
  <2>2. InQueue(c)
    BY <1>4, <2>1 DEF InQueue
  <2>3. c \in reads
    BY <2>1 DEF Grows
  <2>. QED
    BY <2>2, <2>3
<1>9. ReadOnce'
  <2> SUFFICES ASSUME NEW i \in DOMAIN queue', NEW j \in DOMAIN queue', queue'[i].kind = "read",
                      queue'[i] = queue'[j]
               PROVE  i = j
    BY DEF ReadOnce
  <2>1. CASE i \in DOMAIN queue /\ j \in DOMAIN queue
    BY <1>4, <2>1 DEF ReadOnce
  <2>2. CASE i \in New /\ j \in New
    BY <2>2 DEF Grows
  <2>. QED
    BY <1>3, <1>8, <2>1, <2>2
<1>10. ReadBehindWriteBack'
  <2> SUFFICES ASSUME NEW i \in DOMAIN queue', NEW j \in DOMAIN queue', queue'[i].kind = "read",
                      queue'[j] = [kind |-> "writeback", block |-> queue'[i].block]
               PROVE  j < i
    BY DEF ReadBehindWriteBack
  <2>1. PICK c \in DataBlock : queue'[i] = ReadOf(c) /\ queue'[i].block = c
    BY <1>2, <1>6
  <2>2. InQueue(c)'
    BY <2>1 DEF InQueue
  <2>3. CASE j \in New
    <3>1. c \in backs
      BY <2>1, <2>3 DEF Grows
    <3>. QED
      BY <1>7, <2>2, <3>1
  <2>4. CASE j \in DOMAIN queue /\ i \in New
    BY <1>5, <2>4
  <2>5. CASE j \in DOMAIN queue /\ i \in DOMAIN queue
    BY <1>4, <2>5 DEF ReadBehindWriteBack
  <2>. QED
    BY <1>3, <2>3, <2>4, <2>5
<1>. QED
  BY <1>7, <1>9, <1>10

(* as its head is taken,                                                   *)
LEMMA TailKeeps ==
  ASSUME queue \in Seq(Request), ReadOnce, ReadBehindWriteBack, queue # <<>>,
         queue' = Tail(queue)
  PROVE  /\ queue' \in Seq(Request) /\ Len(queue') < Len(queue)
         /\ ReadOnce' /\ ReadBehindWriteBack'
         /\ Head(queue) \in Request
         /\ \A c \in DataBlock : InQueue(c)' <=> InQueue(c) /\ Head(queue) # ReadOf(c)
<1>1. /\ queue' \in Seq(Request) /\ Len(queue) \in Nat \ {0} /\ Len(queue') = Len(queue) - 1
      /\ DOMAIN queue = 1 .. Len(queue) /\ DOMAIN queue' = 1 .. Len(queue) - 1
      /\ \A i \in 1 .. Len(queue) - 1 : queue'[i] = queue[i + 1]
      /\ Head(queue) = queue[1] /\ 1 \in DOMAIN queue
  BY HeadTailProperties, EmptySeq, LenProperties
<1>2. \A i \in DOMAIN queue' : i + 1 \in DOMAIN queue /\ queue'[i] = queue[i + 1]
  BY <1>1
<1>3. \A i \in DOMAIN queue : i = 1 \/ (i - 1 \in DOMAIN queue' /\ queue[i] = queue'[i - 1])
  BY <1>1
<1>4. \A i, j \in DOMAIN queue' : (i + 1 = j + 1 => i = j) /\ (j + 1 < i + 1 => j < i)
  BY <1>1
<1>5. ReadOnce' /\ ReadBehindWriteBack'
  BY <1>2, <1>4 DEF ReadOnce, ReadBehindWriteBack
<1>6. Head(queue) \in Request
  BY <1>1, ElementOfSeq
<1>7. ASSUME NEW c \in DataBlock PROVE InQueue(c)' <=> InQueue(c) /\ Head(queue) # ReadOf(c)
  <2>1. \A i \in DOMAIN queue' : i + 1 # 1
    BY <1>1
  <2>2. InQueue(c)' => InQueue(c) /\ Head(queue) # ReadOf(c)
    BY <1>1, <1>2, <2>1 DEF InQueue, ReadOnce, ReadOf
  <2>3. InQueue(c) /\ Head(queue) # ReadOf(c) => InQueue(c)'
    BY <1>1, <1>3 DEF InQueue
  <2>. QED
    BY <2>2, <2>3
<1>. QED
  BY <1>1, <1>5, <1>6, <1>7

(* and the answers, as one is appended or the first is done with.          *)
LEMMA AnswerMore ==
  ASSUME response \in Seq(DataBlock), AnsweredOnce, NEW b \in DataBlock, ~InResponse(b),
         response' = Append(response, b)
  PROVE  /\ response' \in Seq(DataBlock) /\ AnsweredOnce'
         /\ \A c \in DataBlock : InResponse(c)' <=> InResponse(c) \/ c = b
<1>1. /\ response' \in Seq(DataBlock) /\ Len(response) \in Nat
      /\ DOMAIN response = 1 .. Len(response) /\ DOMAIN response' = 1 .. Len(response) + 1
      /\ \A i \in 1 .. Len(response) : response'[i] = response[i]
      /\ response'[Len(response) + 1] = b
  BY AppendProperties, LenProperties
<1>2. \A i \in DOMAIN response' : i \in DOMAIN response \/ i = Len(response) + 1
  BY <1>1
<1>3. Len(response) + 1 \in DOMAIN response' /\ \A i \in DOMAIN response : i \in DOMAIN response'
  BY <1>1
<1>. QED
  BY <1>1, <1>2, <1>3 DEF AnsweredOnce, InResponse

LEMMA AnswerLess ==
  ASSUME response \in Seq(DataBlock), AnsweredOnce, response # <<>>, response' = Tail(response)
  PROVE  /\ response' \in Seq(DataBlock) /\ AnsweredOnce'
         /\ Head(response) \in DataBlock /\ InResponse(Head(response))
         /\ \A c \in DataBlock : InResponse(c)' <=> InResponse(c) /\ c # Head(response)
<1>1. /\ response' \in Seq(DataBlock) /\ Len(response) \in Nat \ {0}
      /\ DOMAIN response = 1 .. Len(response) /\ DOMAIN response' = 1 .. Len(response) - 1
      /\ \A i \in 1 .. Len(response) - 1 : response'[i] = response[i + 1]
      /\ Head(response) = response[1] /\ 1 \in DOMAIN response
  BY HeadTailProperties, EmptySeq, LenProperties
<1>2. \A i \in DOMAIN response' : i + 1 \in DOMAIN response /\ response'[i] = response[i + 1]
  BY <1>1
<1>3. \A i \in DOMAIN response :
        i = 1 \/ (i - 1 \in DOMAIN response' /\ response[i] = response'[i - 1])
  BY <1>1
<1>4. \A i, j \in DOMAIN response' : (i + 1 = j + 1 => i = j) /\ i + 1 # 1
  BY <1>1
<1>5. AnsweredOnce'
  BY <1>2, <1>4 DEF AnsweredOnce
<1>6. Head(response) \in DataBlock /\ InResponse(Head(response))
  BY <1>1, ElementOfSeq DEF InResponse
<1>7. ASSUME NEW c \in DataBlock PROVE InResponse(c)' <=> InResponse(c) /\ c # Head(response)
  <2>1. InResponse(c)' => InResponse(c) /\ c # Head(response)
    BY <1>1, <1>2, <1>4 DEF InResponse, AnsweredOnce
  <2>2. InResponse(c) /\ c # Head(response) => InResponse(c)'
    BY <1>1, <1>3 DEF InResponse
  <2>. QED
    BY <2>1, <2>2
<1>. QED
  BY <1>1, <1>5, <1>6, <1>7

-----------------------------------------------------------------------------
(* An access that misses reserves its block's way in a cache that          *)
(* allocates on a miss, and changes no line in another.                    *)
LEMMA AccessedKeeps ==
  ASSUME LineInv, conf' = conf, conf \in Config, NEW b \in DataBlock, NEW w \in Way,
         NotHit(b, w), ways' = Accessed(b, w)
  PROVE  /\ LineInv'
         /\ \A c \in DataBlock, v \in Way : c # b /\ ReservedIn(c, v) => ReservedIn(c, v)'
         /\ conf.alloc = "ON_MISS" => ReservedIn(b, w)'
         /\ conf.alloc = "ON_FILL" => ways' = ways /\ \A v \in Way : ~Keeps(b, v)
         /\ \A v \in Way : ReservedIn(b, v) => ways' = ways
<1>1. CASE Allocates(b, w)
  <2>1. /\ ways' = [ways EXCEPT ![w] = [status |-> "RESERVED", block |-> b]]
        /\ conf.alloc = "ON_MISS" /\ ways[w].status # "RESERVED"
        /\ \A v \in Way : ~Keeps(b, v)
    BY <1>1 DEF Accessed, Allocates, MissIn, InvalidWays
  <2>2. /\ \A v \in Way : v # w => ways'[v] = ways[v]
        /\ ways'[w].status = "RESERVED" /\ ways'[w].block = b
        /\ LineTyped'
    BY <2>1 DEF LineInv, LineTyped
  <2>3. LineOK' /\ NoneReserved'
    BY <2>1, <2>2 DEF LineInv, LineOK, NoneReserved
  <2>4. OneWay'
    BY <2>1, <2>2 DEF LineInv, OneWay, Keeps
  <2>. QED
    BY <2>1, <2>2, <2>3, <2>4 DEF LineInv, ReservedIn, Keeps
<1>2. CASE ~Allocates(b, w)
  <2>1. ways' = ways
    BY <1>2 DEF Accessed
  <2>2. LineInv'
    BY <2>1 DEF LineInv, LineTyped, LineOK, OneWay, NoneReserved, Keeps
  <2>3. conf.alloc = "ON_MISS" => ReservedIn(b, w)
    BY <1>2 DEF Allocates, NotHit
  <2>4. conf.alloc = "ON_FILL" => \A v \in Way : ~Keeps(b, v)
    BY DEF NotHit, MissIn, ReservedIn, LineInv, NoneReserved
  <2>. QED
    BY <2>1, <2>2, <2>3, <2>4 DEF ReservedIn, Keeps
<1>. QED
  BY <1>1, <1>2

(* A line that is hit is marked.                                           *)
LEMMA MarkedKeeps ==
  ASSUME LineInv, conf' = conf, NEW b \in DataBlock, NEW w \in Way, HitIn(b, w),
         NEW s \in {"INVALID", "VALID", "MODIFIED"}, ways' = ways \/ ways' = Marked(w, s)
  PROVE  /\ LineInv'
         /\ \A c \in DataBlock, v \in Way : ReservedIn(c, v) => ReservedIn(c, v)'
         /\ \A c \in DataBlock, v \in Way : Keeps(c, v)' => Keeps(c, v)
<1>1. /\ \A v \in Way : v # w => ways'[v] = ways[v]
      /\ ways'[w].block = ways[w].block /\ ways'[w].status \in {ways[w].status, s}
      /\ ways[w].status \notin {"INVALID", "RESERVED"}
      /\ LineTyped'
  BY DEF Marked, HitIn, Keeps, LineInv, LineTyped
<1>2. \A c \in DataBlock, v \in Way : Keeps(c, v)' => Keeps(c, v)
  BY <1>1 DEF Keeps
<1>3. LineOK' /\ NoneReserved'
  BY <1>1 DEF LineInv, LineOK, NoneReserved
<1>4. OneWay'
  BY <1>2 DEF LineInv, OneWay
<1>. QED
  BY <1>1, <1>2, <1>3, <1>4 DEF LineInv, ReservedIn, Keeps

(* A read that is sent, or joins the one that was, with what its caller    *)
(* puts before and behind it.                                              *)
Ports == data_port' \in Nat /\ fill_port' \in Nat /\ todo' \in 0 .. MaxData

LEMMA SendKeeps ==
  ASSUME CacheInv, NEW b \in DataBlock, NEW w \in Way, NEW atomic \in BOOLEAN,
         NEW first, Optional(first, WriteOf(b)), NEW last, last \in {<<>>, WriteBack(b, w)},
         NotHit(b, w), SendRead(b, w, atomic, first, last),
         Len(queue) + Len(first) + Len(last) + 1 <= QueueSize,
         UNCHANGED <<conf, response, away>>, Ports
  PROVE  CacheInv'
<1>1. /\ queue \in Seq(Request) /\ conf \in Config /\ LineInv /\ CacheTypeOK
      /\ WriteOf(b) \in Request /\ QueueSize \in Nat /\ MaxMerged \in Nat \ {0}
  BY CacheAssumption DEF CacheInv, CacheTypeOK, WriteOf, Request
<1>2. /\ ways' = Accessed(b, w) /\ conf' = conf /\ response' = response /\ away' = away
      /\ ~mshr_full(b)
      /\ m_mshrs' = [m_mshrs EXCEPT ![b] = [n |-> @.n + 1, has_atomic |-> @.has_atomic \/ atomic]]
      /\ fills' = IF HasEntry(b) THEN fills
                  ELSE [fills EXCEPT ![b] = IF conf.alloc = "ON_MISS" THEN w ELSE Nothing]
  BY DEF SendRead
<1>3. /\ LineInv'
      /\ \A c \in DataBlock, v \in Way : c # b /\ ReservedIn(c, v) => ReservedIn(c, v)'
      /\ conf.alloc = "ON_MISS" => ReservedIn(b, w)'
      /\ conf.alloc = "ON_FILL" => ways' = ways /\ \A v \in Way : ~Keeps(b, v)
      /\ \A v \in Way : ReservedIn(b, v) => ways' = ways
  BY <1>1, <1>2, AccessedKeeps
<1>4. PICK back \in Request :
        /\ back.kind = "writeback" /\ Optional(last, back)
        /\ last # <<>> => Allocates(b, w) /\ Keeps(back.block, w) /\ ways[w].status = "MODIFIED"
  <2>1. CASE last = <<>>
    <3>1. [kind |-> "writeback", block |-> b] \in Request
      BY DEF Request
    <3>. QED
      BY <2>1, <3>1 DEF Optional
  <2>2. CASE last # <<>>
    <3>1. /\ Allocates(b, w) /\ ways[w].status = "MODIFIED"
          /\ last = <<[kind |-> "writeback", block |-> ways[w].block]>>
      BY <2>2 DEF WriteBack
    <3>2. [kind |-> "writeback", block |-> ways[w].block] \in Request
      BY <1>1, <3>1 DEF Request, LineInv, LineOK
    <3>. QED
      BY <3>1, <3>2 DEF Optional, Keeps
  <2>. QED
    BY <2>1, <2>2
<1>5. PICK reads, backs :
        /\ reads = IF HasEntry(b) THEN {} ELSE {b}
        /\ backs = IF last = <<>> THEN {} ELSE {back.block}
  OBVIOUS
<1>6. Grows(reads, backs) /\ Len(queue') <= Len(queue) + Len(first) + Len(last) + 1
  BY <1>1, <1>4, <1>5, SendGrows
<1>7. \A c \in DataBlock : c \in reads => c = b /\ ~HasEntry(b) /\ ~InQueue(c) /\ c \notin away
                                     /\ ~InResponse(c)
  BY <1>5 DEF CacheInv, ServedOnce
<1>8. ASSUME NEW c \in DataBlock, c \in backs PROVE ~InQueue(c) /\ c \notin reads
  <2>1. c = back.block /\ Allocates(b, w) /\ Keeps(c, w) /\ ways[w].status = "MODIFIED"
    BY <1>4, <1>5, <1>8
  <2>2. c # b /\ conf.alloc = "ON_MISS"
    BY <2>1 DEF Allocates, MissIn
  <2>3. ASSUME InQueue(c) PROVE FALSE
    <3>1. fills[c] \in Way /\ ReservedIn(c, fills[c])
      BY <2>2, <2>3 DEF CacheInv, Finds
    <3>2. fills[c] = w
      BY <1>1, <2>1, <3>1 DEF LineInv, OneWay, ReservedIn
    <3>. QED
      BY <2>1, <3>1, <3>2 DEF ReservedIn
  <2>. QED
    BY <2>2, <2>3, <1>5
<1>9. /\ ReadOnce' /\ ReadBehindWriteBack'
      /\ \A c \in DataBlock : InQueue(c)' <=> InQueue(c) \/ c \in reads
  BY <1>1, <1>6, <1>7, <1>8, GrowsKeeps DEF CacheInv
<1>10. QueueBounded'
  <2>1. queue' \in Seq(Request)
    BY <1>6 DEF Grows
  <2>2. Len(queue') \in Nat /\ Len(queue) \in Nat /\ Len(first) \in Nat /\ Len(last) \in Nat
    BY <1>1, <1>4, <2>1, OneOrNone, LenProperties
  <2>. QED
    BY <1>1, <1>6, <2>2 DEF QueueBounded
<1>11. AnsweredOnce' /\ \A c \in DataBlock : InResponse(c)' <=> InResponse(c)
  BY <1>2 DEF CacheInv, AnsweredOnce, InResponse
<1>12. /\ m_mshrs' \in [DataBlock -> [n : 0 .. MaxMerged, has_atomic : BOOLEAN]]
       /\ HasEntry(b)' /\ \A c \in DataBlock : c # b => (HasEntry(c)' <=> HasEntry(c))
  <2>1. m_mshrs \in [DataBlock -> [n : 0 .. MaxMerged, has_atomic : BOOLEAN]]
    BY DEF CacheInv, CacheTypeOK
  <2>2. m_mshrs[b].n + 1 \in 0 .. MaxMerged /\ m_mshrs[b].n \in Nat
    BY <1>1, <1>2, <2>1 DEF mshr_full, HasEntry
  <2>3. (m_mshrs[b].has_atomic \/ atomic) \in BOOLEAN
    BY <2>1
  <2>4. m_mshrs'[b].n = m_mshrs[b].n + 1 /\ \A c \in DataBlock : c # b => m_mshrs'[c] = m_mshrs[c]
    BY <1>2, <2>1
  <2>5. m_mshrs' \in [DataBlock -> [n : 0 .. MaxMerged, has_atomic : BOOLEAN]]
    BY <1>2, <2>1, <2>2, <2>3
  <2>. QED
    BY <2>2, <2>4, <2>5 DEF HasEntry
<1>13. ServedOnce'
  BY <1>2, <1>5, <1>7, <1>9, <1>11, <1>12 DEF CacheInv, ServedOnce
<1>14. fills' \in [DataBlock -> Way \union {Nothing}]
  BY <1>1, <1>2 DEF CacheTypeOK
<1>15. Finds'
  <2> SUFFICES ASSUME NEW c \in DataBlock, InQueue(c)' \/ c \in away'
               PROVE  IF conf'.alloc = "ON_MISS"
                      THEN fills'[c] \in Way /\ ReservedIn(c, fills[c])'
                      ELSE \A v \in Way : ~Keeps(c, v)'
    BY DEF Finds
  <2>1. CASE c \in reads
    <3>1. c = b /\ ~HasEntry(b)
      BY <1>7, <2>1
    <3>2. CASE conf.alloc = "ON_MISS"
      <4>1. fills'[c] = w
        BY <1>1, <1>2, <3>1, <3>2 DEF CacheTypeOK
      <4>. QED
        BY <1>2, <1>3, <3>1, <3>2, <4>1 DEF ReservedIn, Keeps
    <3>3. CASE conf.alloc # "ON_MISS"
      <4>1. conf.alloc = "ON_FILL"
        BY <1>1, <3>3 DEF Config
      <4>. QED
        BY <1>2, <1>3, <3>1, <3>3, <4>1 DEF Keeps
    <3>. QED
      BY <3>2, <3>3
  <2>2. CASE c \notin reads
    <3>1. InQueue(c) \/ c \in away
      BY <1>2, <1>9, <2>2
    <3>2. fills'[c] = fills[c]
      BY <1>1, <1>2, <1>5, <2>2 DEF CacheTypeOK
    <3>3. CASE conf.alloc = "ON_MISS"
      <4>1. PICK v \in Way : fills[c] = v /\ ReservedIn(c, v)
        BY <3>1, <3>3 DEF CacheInv, Finds
      <4>2. ReservedIn(c, v)'
        <5>1. CASE c = b
          <6>1. ways' = ways
            BY <1>3, <4>1, <5>1
          <6>. QED
            BY <4>1, <6>1 DEF ReservedIn, Keeps
        <5>2. CASE c # b
          BY <1>3, <4>1, <5>2
        <5>. QED
          BY <5>1, <5>2
      <4>. QED
        BY <1>2, <3>2, <3>3, <4>1, <4>2 DEF ReservedIn, Keeps
    <3>4. CASE conf.alloc # "ON_MISS"
      <4>1. conf.alloc = "ON_FILL" /\ \A v \in Way : ~Keeps(c, v)
        BY <1>1, <3>1, <3>4 DEF Config, CacheInv, Finds
      <4>. QED
        BY <1>2, <1>3, <3>4, <4>1 DEF Keeps
    <3>. QED
      BY <3>3, <3>4
  <2>. QED
    BY <2>1, <2>2
<1>16. CacheTypeOK'
  BY <1>1, <1>2, <1>3, <1>6, <1>12, <1>14 DEF CacheTypeOK, LineInv, LineTyped, Ports, Grows
<1>. QED
  BY <1>3, <1>9, <1>10, <1>11, <1>13, <1>15, <1>16 DEF CacheInv

(* A step that sends a write at most, and takes no way.                    *)
LEMMA WriteKeeps ==
  ASSUME CacheInv, NEW b \in DataBlock,
         LineInv',
         \A c \in DataBlock, v \in Way : ReservedIn(c, v) => ReservedIn(c, v)',
         \A c \in DataBlock, v \in Way : Keeps(c, v)' => Keeps(c, v),
         queue' = queue \/ (queue' = Append(queue, WriteOf(b)) /\ Len(queue) < QueueSize),
         UNCHANGED <<conf, m_mshrs, response, fills, away>>, Ports
  PROVE  CacheInv'
<1>1. queue \in Seq(Request) /\ conf \in Config /\ CacheTypeOK /\ QueueSize \in Nat
  BY CacheAssumption DEF CacheInv, CacheTypeOK
<1>2. Grows({}, {}) /\ Len(queue') <= QueueSize
  <2>1. Len(queue) \in Nat
    BY <1>1, LenProperties
  <2>2. CASE queue' = queue
    BY <1>1, <2>1, <2>2, SameGrows DEF CacheInv, QueueBounded
  <2>3. CASE queue' = Append(queue, WriteOf(b)) /\ Len(queue) < QueueSize
    BY <1>1, <2>1, <2>3, WriteGrows
  <2>. QED
    BY <2>2, <2>3
<1>3. /\ ReadOnce' /\ ReadBehindWriteBack'
      /\ \A c \in DataBlock : InQueue(c)' <=> InQueue(c)
  BY <1>1, <1>2, GrowsKeeps DEF CacheInv
<1>4. ServedOnce' /\ AnsweredOnce'
  BY <1>3 DEF CacheInv, ServedOnce, AnsweredOnce, HasEntry, InResponse
<1>5. Finds'
  <2> SUFFICES ASSUME NEW c \in DataBlock, InQueue(c)' \/ c \in away'
               PROVE  IF conf'.alloc = "ON_MISS"
                      THEN fills'[c] \in Way /\ ReservedIn(c, fills[c])'
                      ELSE \A v \in Way : ~Keeps(c, v)'
    BY DEF Finds
  <2>1. InQueue(c) \/ c \in away
    BY <1>3
  <2>2. CASE conf.alloc = "ON_MISS"
    <3>1. PICK v \in Way : fills[c] = v /\ ReservedIn(c, v)
      BY <2>1, <2>2 DEF CacheInv, Finds
    <3>2. ReservedIn(c, v)'
      BY <3>1
    <3>. QED
      BY <2>2, <3>1, <3>2 DEF ReservedIn, Keeps
  <2>3. CASE conf.alloc # "ON_MISS"
    <3>1. \A v \in Way : ~Keeps(c, v)
      BY <2>1, <2>3 DEF CacheInv, Finds
    <3>. QED
      BY <2>3, <3>1
  <2>. QED
    BY <2>2, <2>3
<1>6. CacheTypeOK' /\ QueueBounded'
  BY <1>1, <1>2 DEF CacheTypeOK, QueueBounded, Grows, Ports, LineInv, LineTyped
<1>. QED
  BY <1>3, <1>4, <1>5, <1>6 DEF CacheInv

-----------------------------------------------------------------------------
(* Every action keeps the invariant: first the accesses.                   *)
(* At most one line is evicted.                                            *)
LEMMA WriteBackLen ==
  ASSUME NEW b, NEW w PROVE Len(WriteBack(b, w)) \in {0, 1}
BY DEF WriteBack

(* An access uses the data port only.                                      *)
LEMMA TakesPort ==
  ASSUME CacheTypeOK, TakePort, data_port' \in Nat, fill_port' = fill_port PROVE Ports
BY CacheAssumption DEF CacheTypeOK, TakePort, Ports

(* The three misses that send a read.                                      *)
LEMMA ReadMissKeeps ==
  ASSUME CacheInv, NEW b \in DataBlock, NEW w \in Way, NEW atomic \in BOOLEAN,
         ReadOnlyMiss(b, w) \/ rd_miss_base(b, w, atomic) \/ wr_miss_wa(b, w)
  PROVE  CacheInv'
<1>1. /\ Optional(<<>>, WriteOf(b)) /\ Optional(<<WriteOf(b)>>, WriteOf(b))
      /\ Len(<<>>) = 0 /\ Len(<<WriteOf(b)>>) = 1
  BY DEF Optional
<1>2. /\ CacheTypeOK /\ Len(queue) \in Nat /\ QueueSize \in Nat /\ data_port \in Nat
      /\ LineCycles \in Nat
  BY LenProperties, CacheAssumption DEF CacheInv, CacheTypeOK
<1>3. CASE ReadOnlyMiss(b, w)
  <2>1. /\ NotHit(b, w) /\ SendRead(b, w, FALSE, <<>>, <<>>) /\ TakePort /\ ~queue_full(0)
        /\ UNCHANGED <<conf, response, away>> /\ data_port' = data_port /\ fill_port' = fill_port
    BY <1>3 DEF ReadOnlyMiss
  <2>2. Ports
    BY <1>2, <2>1, TakesPort
  <2>3. Len(queue) + Len(<<>>) + Len(<<>>) + 1 <= QueueSize
    BY <1>1, <1>2, <2>1 DEF queue_full
  <2>. QED
    BY <1>1, <2>1, <2>2, <2>3, SendKeeps
<1>4. CASE rd_miss_base(b, w, atomic)
  <2>1. /\ NotHit(b, w) /\ SendRead(b, w, atomic, <<>>, WriteBack(b, w)) /\ TakePort
        /\ ~queue_full(1)
        /\ UNCHANGED <<conf, response, away>> /\ fill_port' = fill_port
        /\ data_port' = data_port + LineCycles * Len(WriteBack(b, w))
    BY <1>4 DEF rd_miss_base
  <2>2. Len(WriteBack(b, w)) \in {0, 1}
    BY WriteBackLen
  <2>3. data_port' \in Nat
    <3>1. CASE Len(WriteBack(b, w)) = 0
      BY <1>2, <2>1, <3>1
    <3>2. CASE Len(WriteBack(b, w)) = 1
      BY <1>2, <2>1, <3>2
    <3>. QED
      BY <2>2, <3>1, <3>2
  <2>4. Ports
    BY <1>2, <2>1, <2>3, TakesPort
  <2>5. Len(queue) + Len(<<>>) + Len(WriteBack(b, w)) + 1 <= QueueSize
    <3>1. PICK n \in {0, 1} : Len(WriteBack(b, w)) = n
      BY <2>2
    <3>2. Len(queue) + Len(<<>>) + n + 1 <= QueueSize
      BY <1>1, <1>2, <2>1 DEF queue_full
    <3>. QED
      BY <3>1, <3>2
  <2>. QED
    BY <1>1, <2>1, <2>4, <2>5, SendKeeps
<1>5. CASE wr_miss_wa(b, w)
  <2>1. /\ NotHit(b, w) /\ SendRead(b, w, FALSE, <<WriteOf(b)>>, WriteBack(b, w)) /\ TakePort
        /\ ~queue_full(2)
        /\ UNCHANGED <<conf, response, away>> /\ data_port' = data_port /\ fill_port' = fill_port
    BY <1>5 DEF wr_miss_wa
  <2>2. Len(WriteBack(b, w)) \in {0, 1}
    BY WriteBackLen
  <2>3. Ports
    BY <1>2, <2>1, TakesPort
  <2>4. Len(queue) + Len(<<WriteOf(b)>>) + Len(WriteBack(b, w)) + 1 <= QueueSize
    <3>1. PICK n \in {0, 1} : Len(WriteBack(b, w)) = n
      BY <2>2
    <3>2. Len(queue) + Len(<<WriteOf(b)>>) + n + 1 <= QueueSize
      BY <1>1, <1>2, <2>1 DEF queue_full
    <3>. QED
      BY <3>1, <3>2
  <2>. QED
    BY <1>1, <2>1, <2>3, <2>4, SendKeeps
<1>. QED
  BY <1>3, <1>4, <1>5

(* A hit marks its line and may send a write, a write miss only sends it.  *)
LEMMA HitKeeps ==
  ASSUME CacheInv, NEW b \in DataBlock, NEW w \in Way, NEW atomic \in BOOLEAN,
         rd_hit_base(b, w, atomic) \/ WriteHit(b, w)
  PROVE  CacheInv'
<1>1. CacheTypeOK /\ LineInv /\ Len(queue) \in Nat /\ QueueSize \in Nat /\ data_port \in Nat
  BY LenProperties, CacheAssumption DEF CacheInv, CacheTypeOK
<1>2. /\ HitIn(b, w) /\ TakePort /\ UNCHANGED <<conf, m_mshrs, response, fills, away>>
      /\ fill_port' = fill_port
      /\ \E n \in 1 .. LineCycles : data_port' = data_port + n
  BY DEF rd_hit_base, WriteHit
<1>3. \E s \in {"INVALID", "VALID", "MODIFIED"} : ways' = ways \/ ways' = Marked(w, s)
  BY DEF rd_hit_base, WriteHit
<1>4. queue' = queue \/ (queue' = Append(queue, WriteOf(b)) /\ Len(queue) < QueueSize)
  BY <1>1 DEF rd_hit_base, WriteHit, queue_full
<1>5. Ports
  <2>1. data_port' \in Nat
    BY <1>1, <1>2
  <2>. QED
    BY <1>1, <1>2, <2>1, TakesPort
<1>6. /\ LineInv'
      /\ \A c \in DataBlock, v \in Way : ReservedIn(c, v) => ReservedIn(c, v)'
      /\ \A c \in DataBlock, v \in Way : Keeps(c, v)' => Keeps(c, v)
  BY <1>1, <1>2, <1>3, MarkedKeeps
<1>. QED
  BY <1>2, <1>4, <1>5, <1>6, WriteKeeps

LEMMA WriteMissKeeps ==
  ASSUME CacheInv, NEW b \in DataBlock, NEW w \in Way, wr_miss_no_wa(b, w)
  PROVE  CacheInv'
<1>1. CacheTypeOK /\ LineInv /\ Len(queue) \in Nat /\ QueueSize \in Nat /\ data_port \in Nat
  BY LenProperties, CacheAssumption DEF CacheInv, CacheTypeOK
<1>2. /\ TakePort /\ UNCHANGED <<conf, ways, m_mshrs, response, fills, away, data_port, fill_port>>
      /\ queue' = Append(queue, WriteOf(b)) /\ Len(queue) < QueueSize
  BY <1>1 DEF wr_miss_no_wa, queue_full
<1>3. Ports
  BY <1>1, <1>2, TakesPort
<1>4. /\ LineInv'
      /\ \A c \in DataBlock, v \in Way : ReservedIn(c, v) => ReservedIn(c, v)'
      /\ \A c \in DataBlock, v \in Way : Keeps(c, v)' => Keeps(c, v)
  BY <1>1, <1>2 DEF LineInv, LineTyped, LineOK, OneWay, NoneReserved, Keeps, ReservedIn
<1>. QED
  BY <1>2, <1>3, <1>4, WriteKeeps

(* The queue gives its head away.                                          *)
LEMMA CycleKeeps ==
  ASSUME CacheInv, cycle PROVE CacheInv'
<1>1. /\ CacheTypeOK /\ queue \in Seq(Request) /\ Len(queue) \in Nat /\ QueueSize \in Nat
      /\ data_port \in Nat /\ fill_port \in Nat
  BY LenProperties, CacheAssumption DEF CacheInv, CacheTypeOK
<1>2. /\ UNCHANGED <<conf, ways, m_mshrs, response, fills, todo>>
      /\ data_port' \in Nat /\ fill_port' \in Nat
  BY <1>1 DEF cycle, Less
<1>3. LineInv' /\ AnsweredOnce'
  BY <1>2 DEF CacheInv, AnsweredOnce, LineInv, LineTyped, LineOK, OneWay, NoneReserved, Keeps
<1>4. CASE UNCHANGED <<queue, away>>
  <2>1. ReadOnce' /\ ReadBehindWriteBack' /\ QueueBounded' /\ CacheTypeOK'
    BY <1>1, <1>2, <1>4 DEF CacheInv, ReadOnce, ReadBehindWriteBack, QueueBounded, CacheTypeOK
  <2>2. ServedOnce' /\ Finds'
    BY <1>2, <1>4 DEF CacheInv, ServedOnce, Finds, InQueue, InResponse, HasEntry, ReservedIn, Keeps
  <2>. QED
    BY <1>3, <2>1, <2>2 DEF CacheInv
<1>5. CASE ~UNCHANGED <<queue, away>>
  <2>1. /\ queue # <<>> /\ queue' = Tail(queue)
        /\ away' = IF Head(queue).kind = "read" THEN away \union {Head(queue).block} ELSE away
    BY <1>5 DEF cycle
  <2>2. /\ queue' \in Seq(Request) /\ Len(queue') < Len(queue)
        /\ ReadOnce' /\ ReadBehindWriteBack' /\ Head(queue) \in Request
        /\ \A c \in DataBlock : InQueue(c)' <=> InQueue(c) /\ Head(queue) # ReadOf(c)
    BY <1>1, <2>1, TailKeeps DEF CacheInv
  <2>3. Head(queue).kind = "read" => Head(queue) = ReadOf(Head(queue).block)
                                     /\ Head(queue).block \in DataBlock
    BY <2>2 DEF Request, ReadOf
  <2>4. \A c \in DataBlock : Head(queue) = ReadOf(c) => InQueue(c)
    <3>1. Head(queue) = queue[1] /\ 1 \in DOMAIN queue
      BY <1>1, <2>1, EmptySeq, HeadTailProperties
    <3>. QED
      BY <3>1 DEF InQueue
  <2>5. \A c \in DataBlock : c \in away' <=> c \in away \/ Head(queue) = ReadOf(c)
    <3>1. \A c : ReadOf(c).kind = "read" /\ ReadOf(c).block = c
      BY DEF ReadOf
    <3>. QED
      BY <2>1, <2>3, <3>1
  <2>6. ServedOnce'
    BY <1>2, <2>2, <2>4, <2>5 DEF CacheInv, ServedOnce, InResponse, HasEntry
  <2>7. Finds'
    BY <1>2, <2>2, <2>4, <2>5 DEF CacheInv, Finds, ReservedIn, Keeps
  <2>8. QueueBounded'
    <3>1. Len(queue') \in Nat
      BY <2>2, LenProperties
    <3>. QED
      BY <1>1, <2>2, <3>1 DEF CacheInv, QueueBounded
  <2>9. CacheTypeOK'
    BY <1>1, <1>2, <2>1, <2>2, <2>3 DEF CacheTypeOK
  <2>. QED
    BY <1>3, <2>2, <2>6, <2>7, <2>8, <2>9 DEF CacheInv
<1>. QED
  BY <1>4, <1>5

(* The data of a fetch come, to its way or to one that is taken now.       *)
LEMMA FillKeeps ==
  ASSUME CacheInv, NEW b \in DataBlock, fill(b) PROVE CacheInv'
<1>1. /\ CacheTypeOK /\ LineInv /\ response \in Seq(DataBlock) /\ fill_port \in Nat /\ LineCycles \in Nat
      /\ fills \in [DataBlock -> Way \union {Nothing}] /\ conf \in Config
  BY CacheAssumption DEF CacheInv, CacheTypeOK
<1>2. /\ UNCHANGED <<conf, m_mshrs, queue, data_port, todo>>
      /\ b \in away /\ away' = away \ {b}
      /\ response' = Append(response, b)
      /\ fills' = [fills EXCEPT ![b] = Nothing]
      /\ fill_port' \in Nat
  BY <1>1 DEF fill
<1>3. HasEntry(b) /\ ~InQueue(b) /\ ~InResponse(b)
  BY <1>2 DEF CacheInv, ServedOnce
<1>4. /\ response' \in Seq(DataBlock) /\ AnsweredOnce'
      /\ \A c \in DataBlock : InResponse(c)' <=> InResponse(c) \/ c = b
  BY <1>1, <1>2, <1>3, AnswerMore DEF CacheInv
<1>5. /\ ReadOnce' /\ ReadBehindWriteBack' /\ QueueBounded'
      /\ \A c \in DataBlock : InQueue(c)' <=> InQueue(c)
  BY <1>2 DEF CacheInv, ReadOnce, ReadBehindWriteBack, QueueBounded, InQueue
<1>6. ServedOnce'
  BY <1>2, <1>3, <1>4, <1>5 DEF CacheInv, ServedOnce, HasEntry
<1>7. PICK w \in Way :
        /\ \A v \in Way : v # w => ways'[v] = ways[v]
        /\ ways'[w].block = b /\ ways'[w].status \in {"VALID", "MODIFIED"}
        /\ LineTyped'
        /\ \A v \in Way : v # w => ~Keeps(b, v)
        /\ conf.alloc = "ON_MISS" => ReservedIn(b, w)
  <2>1. CASE conf.alloc = "ON_MISS"
    <3>1. PICK w \in Way : fills[b] = w /\ ReservedIn(b, w)
      BY <1>2, <2>1 DEF CacheInv, Finds
    <3>2. PICK s \in {"VALID", "MODIFIED"} : ways' = Marked(w, s)
      BY <2>1, <3>1 DEF fill
    <3>3. \A v \in Way : v # w => ~Keeps(b, v)
      BY <1>1, <3>1 DEF LineInv, OneWay, ReservedIn
    <3>4. /\ \A v \in Way : v # w => ways'[v] = ways[v]
          /\ ways'[w].block = b /\ ways'[w].status = s
          /\ LineTyped'
      BY <1>1, <3>1, <3>2 DEF LineInv, LineTyped, Marked, ReservedIn, Keeps
    <3>. QED
      BY <3>1, <3>3, <3>4
  <2>2. CASE conf.alloc = "ON_FILL"
    <3>1. PICK w \in Way : 
            MissIn(b, w) /\ ways' = [ways EXCEPT ![w] = [status |-> "VALID", block |-> b]]
      BY <2>2 DEF fill
    <3>. QED
      BY <1>1, <2>2, <3>1 DEF LineInv, LineTyped, MissIn
  <2>. QED
    BY <1>1, <2>1, <2>2 DEF Config
<1>8. LineInv'
  <2>1. LineOK' /\ NoneReserved'
    BY <1>1, <1>2, <1>7 DEF LineInv, LineOK, NoneReserved
  <2>2. OneWay'
    BY <1>1, <1>7 DEF LineInv, OneWay, Keeps
  <2>. QED
    BY <1>7, <2>1, <2>2 DEF LineInv
<1>9. Finds'
  <2> SUFFICES ASSUME NEW c \in DataBlock, InQueue(c)' \/ c \in away'
               PROVE  IF conf'.alloc = "ON_MISS"
                      THEN fills'[c] \in Way /\ ReservedIn(c, fills[c])'
                      ELSE \A v \in Way : ~Keeps(c, v)'
    BY DEF Finds
  <2>1. c # b /\ (InQueue(c) \/ c \in away)
    BY <1>2, <1>3, <1>5
  <2>2. fills'[c] = fills[c]
    BY <1>1, <1>2, <2>1
  <2>3. CASE conf.alloc = "ON_MISS"
    <3>1. PICK v \in Way : fills[c] = v /\ ReservedIn(c, v)
      BY <2>1, <2>3 DEF CacheInv, Finds
    <3>2. v # w
      BY <1>7, <2>1, <2>3, <3>1 DEF ReservedIn, Keeps
    <3>. QED
      BY <1>2, <1>7, <2>2, <2>3, <3>1, <3>2 DEF ReservedIn, Keeps
  <2>4. CASE conf.alloc # "ON_MISS"
    <3>1. \A v \in Way : ~Keeps(c, v)
      BY <2>1, <2>4 DEF CacheInv, Finds
    <3>. QED
      BY <1>2, <1>7, <2>1, <2>4, <3>1 DEF Keeps
  <2>. QED
    BY <2>3, <2>4
<1>10. CacheTypeOK'
  BY <1>1, <1>2, <1>4, <1>7 DEF CacheTypeOK, LineTyped
<1>. QED
  BY <1>4, <1>5, <1>6, <1>8, <1>9, <1>10 DEF CacheInv

(* An access of the first entry whose data have come is answered.          *)
LEMMA NextAccessKeeps ==
  ASSUME CacheInv, next_access PROVE CacheInv'
<1>1. /\ CacheTypeOK /\ response \in Seq(DataBlock) /\ MaxMerged \in Nat
      /\ m_mshrs \in [DataBlock -> [n : 0 .. MaxMerged, has_atomic : BOOLEAN]]
  BY CacheAssumption DEF CacheInv, CacheTypeOK
<1>2. /\ UNCHANGED <<conf, ways, queue, fills, away, data_port, fill_port, todo>>
      /\ response # <<>>
  BY DEF next_access
<1>3. PICK b : b = Head(response)
  OBVIOUS
<1>4. /\ b \in DataBlock /\ InResponse(b)
      /\ response' = Tail(response) => /\ response' \in Seq(DataBlock) /\ AnsweredOnce'
                                       /\ \A c \in DataBlock : InResponse(c)' <=> InResponse(c) /\ c # b
  <2>1. b \in DataBlock /\ InResponse(b)
    <3>1. Head(response) = response[1] /\ 1 \in DOMAIN response
      BY <1>1, <1>2, EmptySeq, HeadTailProperties
    <3>. QED
      BY <1>1, <1>3, <3>1, ElementOfSeq DEF InResponse
  <2>. QED
    BY <1>1, <1>2, <1>3, <2>1, AnswerLess DEF CacheInv
<1>5. LineInv' /\ ReadOnce' /\ ReadBehindWriteBack' /\ QueueBounded'
  BY <1>2 DEF CacheInv, LineInv, LineTyped, LineOK, OneWay, NoneReserved, Keeps,
              ReadOnce, ReadBehindWriteBack, QueueBounded
<1>6. Finds' /\ \A c \in DataBlock : InQueue(c)' <=> InQueue(c)
  BY <1>2 DEF CacheInv, Finds, InQueue, ReservedIn, Keeps
<1>7. HasEntry(b) /\ ~InQueue(b) /\ b \notin away
  BY <1>4 DEF CacheInv, ServedOnce
<1>8. CASE m_mshrs[b].n > 1
  <2>1. m_mshrs' = [m_mshrs EXCEPT ![b].n = @ - 1] /\ response' = response
    BY <1>3, <1>8 DEF next_access
  <2>2. m_mshrs[b].n - 1 \in 0 .. MaxMerged /\ m_mshrs[b].n - 1 > 0
    BY <1>1, <1>4, <1>8
  <2>3. m_mshrs' \in [DataBlock -> [n : 0 .. MaxMerged, has_atomic : BOOLEAN]]
    BY <1>1, <1>4, <2>1, <2>2
  <2>4. \A c \in DataBlock : HasEntry(c)' <=> HasEntry(c)
    BY <1>1, <1>4, <1>7, <2>1, <2>2 DEF HasEntry
  <2>5. ServedOnce' /\ AnsweredOnce'
    BY <1>2, <1>6, <2>1, <2>4 DEF CacheInv, ServedOnce, AnsweredOnce, InResponse
  <2>6. CacheTypeOK'
    BY <1>1, <1>2, <2>1, <2>3 DEF CacheTypeOK
  <2>. QED
    BY <1>5, <1>6, <2>5, <2>6 DEF CacheInv
<1>9. CASE ~(m_mshrs[b].n > 1)
  <2>1. m_mshrs' = [m_mshrs EXCEPT ![b] = [n |-> 0, has_atomic |-> FALSE]] /\ response' = Tail(response)
    BY <1>3, <1>9 DEF next_access
  <2>2. m_mshrs' \in [DataBlock -> [n : 0 .. MaxMerged, has_atomic : BOOLEAN]]
    BY <1>1, <1>4, <2>1
  <2>3. ~HasEntry(b)' /\ \A c \in DataBlock : c # b => (HasEntry(c)' <=> HasEntry(c))
    BY <1>1, <1>4, <2>1 DEF HasEntry
  <2>4. ServedOnce' /\ AnsweredOnce'
    BY <1>2, <1>4, <1>6, <1>7, <2>1, <2>3 DEF CacheInv, ServedOnce
  <2>5. CacheTypeOK'
    BY <1>1, <1>2, <1>4, <2>1, <2>2 DEF CacheTypeOK
  <2>. QED
    BY <1>5, <1>6, <2>4, <2>5 DEF CacheInv
<1>. QED
  BY <1>8, <1>9

(* The lines of an idle cache are given up.                                *)
LEMMA FlushKeeps ==
  ASSUME CacheInv, flush PROVE CacheInv'
<1>1. /\ UNCHANGED <<conf, m_mshrs, response, queue, fills, away, data_port, fill_port, todo>>
      /\ ways' = [w \in Way |-> [ways[w] EXCEPT !.status = "INVALID"]]
      /\ \A b \in DataBlock : ~HasEntry(b)
  BY DEF flush
<1>2. LineTyped' /\ \A w \in Way : ways'[w].status = "INVALID"
  BY <1>1 DEF CacheInv, LineInv, LineTyped
<1>3. LineInv'
  BY <1>2 DEF LineInv, LineOK, OneWay, NoneReserved, Keeps
<1>4. ReadOnce' /\ AnsweredOnce' /\ ReadBehindWriteBack' /\ QueueBounded' /\ ServedOnce'
  BY <1>1 DEF CacheInv, ReadOnce, AnsweredOnce, ReadBehindWriteBack, QueueBounded, ServedOnce,
              InQueue, InResponse, HasEntry
<1>5. Finds'
  BY <1>1 DEF CacheInv, Finds, ServedOnce, InQueue
<1>6. CacheTypeOK'
  BY <1>1, <1>2 DEF CacheInv, CacheTypeOK, LineTyped
<1>. QED
  BY <1>3, <1>4, <1>5, <1>6 DEF CacheInv

(* Every step of the cache, or of nothing, keeps the invariant.            *)
LEMMA CacheStep ==
  ASSUME CacheInv, [CacheNext]_dataCacheVars PROVE CacheInv'
<1>1. CASE Access
  <2>1. PICK b \in DataBlock, w \in Way :
          \/ ReadOnlyMiss(b, w)
          \/ \E atomic \in {FALSE, conf.atomics} :
               rd_hit_base(b, w, atomic) \/ rd_miss_base(b, w, atomic)
          \/ WriteHit(b, w)
          \/ wr_miss_wa(b, w)
          \/ wr_miss_no_wa(b, w)
    BY <1>1 DEF Access
  <2>2. {FALSE, conf.atomics} \subseteq BOOLEAN
    BY CacheAssumption DEF CacheInv, CacheTypeOK, Config
  <2>. QED
    BY <2>1, <2>2, ReadMissKeeps, HitKeeps, WriteMissKeeps
<1>2. CASE UNCHANGED dataCacheVars
  BY <1>2 DEF dataCacheVars, CacheInv, CacheTypeOK, LineInv, LineTyped, LineOK, OneWay, NoneReserved, Keeps,
              ReadOnce, AnsweredOnce, ReadBehindWriteBack, QueueBounded, ServedOnce, Finds,
              InQueue, InResponse, HasEntry, ReservedIn
<1>. QED
  BY <1>1, <1>2, CycleKeeps, FillKeeps, NextAccessKeeps, FlushKeeps DEF CacheNext

(* An entry is served by one fetch or by its answer, as nothing is queued  *)
(* twice.                                                                  *)
LEMMA InvHolds ==
  ASSUME CacheInv PROVE CacheHolds
<1>1. ASSUME NEW b \in DataBlock
      PROVE  Cardinality(Queued(b)) = IF InQueue(b) THEN 1 ELSE 0
  <2>1. CASE InQueue(b)
    <3>1. PICK i \in DOMAIN queue : queue[i] = ReadOf(b)
      BY <2>1 DEF InQueue
    <3>2. Queued(b) = {i}
      BY <3>1 DEF Queued, CacheInv, ReadOnce, ReadOf
    <3>. QED
      BY <2>1, <3>2, FS_Singleton
  <2>2. CASE ~InQueue(b)
    <3>1. Queued(b) = {}
      BY <2>2 DEF Queued, InQueue
    <3>. QED
      BY <2>2, <3>1, FS_EmptySet
  <2>. QED
    BY <2>1, <2>2
<1>2. EntryIsServed
  BY <1>1 DEF EntryIsServed, CacheInv, ServedOnce
<1>3. \A b \in DataBlock : Queued(b) # {} <=> InQueue(b)
  BY DEF Queued, InQueue
<1>4. FetchFindsWay
  BY <1>3 DEF FetchFindsWay, CacheInv, Finds
<1>. QED
  BY <1>2, <1>4 DEF CacheHolds, CacheInv

(* No fetch is lost, sent twice or answered twice, every one finds its way,*)
(* the queue stays in its bound and evicted data are not overtaken: the    *)
(* accesses, fill, cycle, next_access and flush keep CacheInv.             *)
THEOREM CacheAlwaysHolds == CacheSpec => []CacheHolds
<1>1. CacheInit => CacheInv
  BY CacheInitOK
<1>2. CacheInv /\ [CacheNext]_dataCacheVars => CacheInv'
  BY CacheStep
<1>3. CacheInv => CacheHolds
  BY InvHolds
<1>. QED
  BY <1>1, <1>2, <1>3, PTL DEF CacheSpec

-----------------------------------------------------------------------------
(* What is stored is not lost, unless a cache that evicts what it writes   *)
(* is given atomics, or one that writes some blocks back allocates on a    *)
(* fill.                                                                   *)
KeptConfigs ==
  \A c \in Configs :
    /\ c.atomics => c.write \in {"WRITE_BACK", "WRITE_THROUGH"}
    /\ c.write = "LOCAL_WB_GLOBAL_WT" => c.alloc = "ON_MISS"

(* Only what the policy lets be modified is.                               *)
DirtyInv ==
  /\ \A b \in DataBlock : m_mshrs[b].has_atomic => conf.atomics
  /\ \A w \in Way : ways[w].status = "MODIFIED" =>
       \/ conf.write \in {"WRITE_BACK", "WRITE_THROUGH"}
       \/ conf.write = "LOCAL_WB_GLOBAL_WT" /\ ways[w].block \in Local

(* The line of way w is given away with its write-back.                    *)
KeptAt(w) ==
  /\ ways[w].status = "MODIFIED" /\ ways'[w] # ways[w]
  /\ conf.write # "WRITE_THROUGH" /\ \E v \in Way : ways'[v].status # "INVALID"
  => /\ Len(queue') > Len(queue)
     /\ queue'[Len(queue')] = [kind |-> "writeback", block |-> ways[w].block]

(* A read or a write that misses queues the write-back of what it evicts.  *)
LEMMA DirtyAccess ==
  ASSUME KeptConfigs, CacheInv, DirtyInv, NEW b \in DataBlock, NEW w \in Way,
         NEW atomic \in BOOLEAN, atomic => conf.atomics,
         NEW first, Optional(first, WriteOf(b)), NEW last, NotHit(b, w),
         last = WriteBack(b, w) \/ (last = <<>> /\ conf.write = "READ_ONLY"),
         SendRead(b, w, atomic, first, last), UNCHANGED conf
  PROVE  DirtyInv' /\ \A v \in Way : KeptAt(v)
<1>1. /\ queue \in Seq(Request) /\ LineInv /\ b \in DataBlock
      /\ m_mshrs \in [DataBlock -> [n : 0 .. MaxMerged, has_atomic : BOOLEAN]]
      /\ ways' = Accessed(b, w)
      /\ m_mshrs' = [m_mshrs EXCEPT ![b] = [n |-> @.n + 1, has_atomic |-> @.has_atomic \/ atomic]]
  BY DEF CacheInv, CacheTypeOK, SendRead
<1>2. \A c \in DataBlock : m_mshrs'[c].has_atomic => conf'.atomics
  BY <1>1 DEF DirtyInv
<1>3. CASE Allocates(b, w)
  <2>1. /\ \A v \in Way : v # w => ways'[v] = ways[v]
        /\ ways'[w].status = "RESERVED"
    BY <1>1, <1>3 DEF Accessed, LineInv, LineTyped
  <2>2. DirtyInv'
    BY <1>2, <2>1 DEF DirtyInv
  <2>3. ASSUME ways[w].status = "MODIFIED", conf.write # "WRITE_THROUGH"
        PROVE  /\ Len(queue') > Len(queue)
               /\ queue'[Len(queue')] = [kind |-> "writeback", block |-> ways[w].block]
    <3>1. PICK back \in Request : back = [kind |-> "writeback", block |-> ways[w].block]
      BY <1>1, <2>3 DEF Request, LineInv, LineOK
    <3>2. last = <<back>> /\ Optional(last, back) /\ last # <<>> /\ back.kind = "writeback"
      BY <1>3, <2>3, <3>1 DEF WriteBack, Optional, DirtyInv
    <3>3. last # <<>> => Len(queue') > Len(queue) /\ queue'[Len(queue')] = back
      BY <1>1, <3>2, SendGrows
    <3>. QED
      BY <3>1, <3>2, <3>3
  <2>. QED
    BY <2>1, <2>2, <2>3 DEF KeptAt
<1>4. CASE ~Allocates(b, w)
  <2>1. ways' = ways
    BY <1>1, <1>4 DEF Accessed
  <2>. QED
    BY <1>2, <2>1 DEF DirtyInv, KeptAt
<1>. QED
  BY <1>3, <1>4

(* A write does not drop the line it hits, if that is modified.            *)
LEMMA DirtyHit ==
  ASSUME KeptConfigs, CacheInv, DirtyInv, NEW b \in DataBlock, NEW w \in Way,
         NEW atomic \in BOOLEAN, atomic => conf.atomics,
         rd_hit_base(b, w, atomic) \/ WriteHit(b, w)
  PROVE  DirtyInv' /\ \A v \in Way : KeptAt(v)
<1>1. /\ LineInv /\ conf' = conf /\ m_mshrs' = m_mshrs /\ conf \in Configs /\ HitIn(b, w)
      /\ conf.write \in {"WRITE_BACK", "WRITE_THROUGH", "WRITE_EVICT", "LOCAL_WB_GLOBAL_WT"}
  BY CacheAssumption DEF CacheInv, CacheTypeOK, rd_hit_base, WriteHit, IsData, Config
<1>2. CASE rd_hit_base(b, w, atomic) /\ ~atomic
  <2>1. ways' = ways
    BY <1>2 DEF rd_hit_base
  <2>. QED
    BY <1>1, <2>1 DEF DirtyInv, KeptAt
<1>3. CASE rd_hit_base(b, w, atomic) /\ atomic
  <2>1. conf.write \in {"WRITE_BACK", "WRITE_THROUGH"}
    BY <1>1, <1>3 DEF KeptConfigs
  <2>2. ways' = [ways EXCEPT ![w].status = "MODIFIED"]
    BY <1>3 DEF rd_hit_base, Marked
  <2>3. \A v \in Way : ways[v].status = "MODIFIED" => ways'[v] = ways[v]
    BY <1>1, <2>2 DEF LineInv, LineTyped
  <2>. QED
    BY <1>1, <2>1, <2>3 DEF DirtyInv, KeptAt
<1>4. CASE WriteHit(b, w)
  <2>1. ways' = [ways EXCEPT ![w].status = IF Marks(b) THEN "MODIFIED" ELSE "INVALID"]
    BY <1>4 DEF WriteHit, Marked
  <2>2. /\ \A v \in Way : v # w => ways'[v] = ways[v]
        /\ ways[w].block = b /\ ways'[w].block = b
        /\ ways'[w].status = IF Marks(b) THEN "MODIFIED" ELSE "INVALID"
        /\ ways[w].status = "MODIFIED" /\ Marks(b) => ways'[w] = ways[w]
    BY <1>1, <2>1 DEF LineInv, LineTyped, HitIn, Keeps
  <2>3. ways[w].status = "MODIFIED" => Marks(b)
    BY <2>2 DEF DirtyInv, Marks
  <2>4. \A v \in Way : KeptAt(v)
    BY <2>2, <2>3 DEF KeptAt
  <2>5. DirtyInv'
    BY <1>1, <2>2 DEF DirtyInv, Marks
  <2>. QED
    BY <2>4, <2>5
<1>. QED
  BY <1>2, <1>3, <1>4

(* A fill takes no modified line.                                          *)
LEMMA DirtyFill ==
  ASSUME KeptConfigs, CacheInv, DirtyInv, NEW b \in DataBlock, fill(b)
  PROVE  DirtyInv' /\ \A v \in Way : KeptAt(v)
<1>1. LineInv /\ conf \in Configs /\ conf \in Config /\ conf' = conf /\ m_mshrs' = m_mshrs /\ b \in away
  BY CacheAssumption DEF CacheInv, CacheTypeOK, fill
<1>2. CASE conf.alloc = "ON_MISS"
  <2>1. PICK w \in Way : fills[b] = w /\ ReservedIn(b, w)
    BY <1>1, <1>2 DEF CacheInv, Finds
  <2>2. ways' = [ways EXCEPT ![w].status = IF m_mshrs[b].has_atomic THEN "MODIFIED" ELSE "VALID"]
    BY <1>2, <2>1 DEF fill, Marked
  <2>3. /\ \A v \in Way : v # w => ways'[v] = ways[v]
        /\ ways'[w].status = "MODIFIED" => m_mshrs[b].has_atomic
        /\ ways[w].status = "RESERVED"
    BY <1>1, <2>1, <2>2 DEF LineInv, LineTyped, ReservedIn
  <2>4. m_mshrs[b].has_atomic => conf.write \in {"WRITE_BACK", "WRITE_THROUGH"}
    BY <1>1 DEF DirtyInv, KeptConfigs
  <2>. QED
    BY <1>1, <2>3, <2>4 DEF DirtyInv, KeptAt
<1>3. CASE conf.alloc = "ON_FILL"
  <2>1. PICK w \in Way : 
          MissIn(b, w) /\ ways' = [ways EXCEPT ![w] = [status |-> "VALID", block |-> b]]
    BY <1>3 DEF fill
  <2>2. \A v \in Way : v # w => ways'[v] = ways[v]
    BY <1>1, <2>1 DEF LineInv, LineTyped
  <2>3. ways'[w].status = "VALID"
    BY <1>1, <2>1 DEF LineInv, LineTyped
  <2>4. conf.write # "WRITE_BACK" /\ conf.write # "LOCAL_WB_GLOBAL_WT"
    BY <1>1, <1>3, CacheAssumption DEF KeptConfigs
  <2>. QED
    BY <1>1, <2>2, <2>3, <2>4 DEF DirtyInv, KeptAt
<1>. QED
  BY <1>1, <1>2, <1>3 DEF Config

(* Every action of the cache.                                              *)
LEMMA DirtyStep ==
  ASSUME KeptConfigs, CacheInv, DirtyInv, CacheNext
  PROVE  DirtyInv' /\ \A v \in Way : KeptAt(v)
<1>1. /\ LineInv /\ m_mshrs \in [DataBlock -> [n : 0 .. MaxMerged, has_atomic : BOOLEAN]]
      /\ response \in Seq(DataBlock) /\ conf \in Config
  BY CacheAssumption DEF CacheInv, CacheTypeOK
<1>2. CASE UNCHANGED <<conf, ways, m_mshrs>>
  BY <1>2 DEF DirtyInv, KeptAt
<1>3. CASE Access
  <2>1. PICK b \in DataBlock, w \in Way :
          \/ ReadOnlyMiss(b, w)
          \/ \E atomic \in {FALSE, conf.atomics} :
               rd_hit_base(b, w, atomic) \/ rd_miss_base(b, w, atomic)
          \/ WriteHit(b, w)
          \/ wr_miss_wa(b, w)
          \/ wr_miss_no_wa(b, w)
    BY <1>3 DEF Access
  <2>2. \A atomic \in {FALSE, conf.atomics} : atomic \in BOOLEAN /\ (atomic => conf.atomics)
    BY <1>1 DEF Config
  <2>3. Optional(<<>>, WriteOf(b)) /\ Optional(<<WriteOf(b)>>, WriteOf(b))
    BY DEF Optional
  <2>4. CASE ReadOnlyMiss(b, w)
    <3>1. NotHit(b, w) /\ SendRead(b, w, FALSE, <<>>, <<>>) /\ UNCHANGED conf
          /\ conf.write = "READ_ONLY"
      BY <2>4 DEF ReadOnlyMiss
    <3>. QED
      BY <2>3, <3>1, DirtyAccess
  <2>5. ASSUME NEW atomic \in {FALSE, conf.atomics}, rd_miss_base(b, w, atomic)
        PROVE  DirtyInv' /\ \A v \in Way : KeptAt(v)
    <3>1. NotHit(b, w) /\ SendRead(b, w, atomic, <<>>, WriteBack(b, w)) /\ UNCHANGED conf
      BY <2>5 DEF rd_miss_base
    <3>. QED
      BY <2>2, <2>3, <3>1, DirtyAccess
  <2>6. CASE wr_miss_wa(b, w)
    <3>1. NotHit(b, w) /\ SendRead(b, w, FALSE, <<WriteOf(b)>>, WriteBack(b, w)) /\ UNCHANGED conf
      BY <2>6 DEF wr_miss_wa
    <3>. QED
      BY <2>3, <3>1, DirtyAccess
  <2>7. CASE WriteHit(b, w)
    BY <2>7, DirtyHit
  <2>8. ASSUME NEW atomic \in {FALSE, conf.atomics}, rd_hit_base(b, w, atomic)
        PROVE  DirtyInv' /\ \A v \in Way : KeptAt(v)
    BY <2>2, <2>8, DirtyHit
  <2>9. CASE wr_miss_no_wa(b, w)
    BY <1>2, <2>9 DEF wr_miss_no_wa
  <2>. QED
    BY <2>1, <2>4, <2>5, <2>6, <2>7, <2>8, <2>9
<1>4. CASE cycle
  BY <1>2, <1>4 DEF cycle
<1>5. CASE \E b \in DataBlock : fill(b)
  BY <1>5, DirtyFill
<1>6. CASE next_access
  <2>1. UNCHANGED <<conf, ways>>
    BY <1>6 DEF next_access
  <2>2. ASSUME NEW c \in DataBlock PROVE m_mshrs'[c].has_atomic => m_mshrs[c].has_atomic
    <3>1. PICK b : b = Head(response)
      OBVIOUS
    <3>2. CASE m_mshrs' = [m_mshrs EXCEPT ![b].n = @ - 1]
      <4>1. m_mshrs \in [DataBlock -> [n : 0 .. MaxMerged, has_atomic : BOOLEAN]]
        BY <1>1
      <4>. QED
        BY <3>2, <4>1
    <3>3. CASE m_mshrs' = [m_mshrs EXCEPT ![b] = [n |-> 0, has_atomic |-> FALSE]]
      BY <1>1, <3>3
    <3>. QED
      BY <1>6, <3>1, <3>2, <3>3 DEF next_access
  <2>. QED
    BY <2>1, <2>2 DEF DirtyInv, KeptAt
<1>7. CASE flush
  <2>1. /\ UNCHANGED <<conf, m_mshrs>>
        /\ ways' = [w \in Way |-> [ways[w] EXCEPT !.status = "INVALID"]]
    BY <1>7 DEF flush
  <2>2. \A v \in Way : ways'[v].status = "INVALID"
    BY <1>1, <2>1 DEF LineInv, LineTyped
  <2>. QED
    BY <2>1, <2>2 DEF DirtyInv, KeptAt
<1>. QED
  BY <1>3, <1>4, <1>5, <1>6, <1>7 DEF CacheNext

(* A modified line is given away with its write-back, in every step but    *)
(* the flush that ends a kernel.                                           *)
THEOREM DirtyAlwaysKept == KeptConfigs => (CacheSpec => DirtyKept)
<1> SUFFICES ASSUME KeptConfigs PROVE CacheSpec => DirtyKept
  OBVIOUS
<1>1. CacheInit => CacheInv /\ DirtyInv
  <2>1. CacheInit => DirtyInv
    BY DEF CacheInit, DirtyInv
  <2>. QED
    BY <2>1, CacheInitOK
<1>2. CacheInv /\ DirtyInv /\ [CacheNext]_dataCacheVars => (CacheInv /\ DirtyInv)'
  <2>1. CacheInv /\ DirtyInv /\ CacheNext => DirtyInv'
    BY DirtyStep
  <2>2. DirtyInv /\ UNCHANGED dataCacheVars => DirtyInv'
    BY DEF DirtyInv, dataCacheVars
  <2>. QED
    BY <2>1, <2>2, CacheStep
<1>3. CacheInv /\ DirtyInv /\ [CacheNext]_dataCacheVars =>
        [\A w \in Way :
           /\ ways[w].status = "MODIFIED" /\ ways'[w] # ways[w]
           /\ conf.write # "WRITE_THROUGH" /\ \E v \in Way : ways'[v].status # "INVALID"
           => /\ Len(queue') > Len(queue)
              /\ queue'[Len(queue')] = [kind |-> "writeback", block |-> ways[w].block]]_dataCacheVars
  BY DirtyStep DEF KeptAt
<1>. QED
  BY <1>1, <1>2, <1>3, PTL DEF CacheSpec, DirtyKept

-----------------------------------------------------------------------------
(* A set of numbers has a least one: the intervals up to its members are   *)
(* finite sets, among which inclusion is well founded.                     *)
LEMMA LeastNat ==
  ASSUME NEW T \in SUBSET Nat, T # {}
  PROVE  \E m \in T : \A n \in T : m <= n
<1>1. PICK A : A = {0 .. n : n \in T}
  OBVIOUS
<1>2. A \subseteq FiniteSubsetsOf(Nat) /\ A # {}
  <2>1. ASSUME NEW n \in T PROVE 0 .. n \in FiniteSubsetsOf(Nat)
    BY FS_Interval, 0 \in Int, n \in Int, 0 .. n \subseteq Nat DEF FiniteSubsetsOf
  <2>. QED
    BY <1>1, <2>1
<1>3. PICK X \in A : \A Y \in A : ~(<<Y, X>> \in StrictSubsetOrdering(Nat))
  BY <1>2, WFMin, FS_StrictSubsetOrderingWellFounded
<1>4. PICK m \in T : X = 0 .. m
  BY <1>1
<1>5. ASSUME NEW n \in T, n < m PROVE FALSE
  <2>1. 0 .. n \in A
    BY <1>1
  <2>2. 0 .. n \subseteq 0 .. m /\ m \in 0 .. m /\ m \notin 0 .. n
    BY <1>5
  <2>3. 0 .. n \in SUBSET Nat /\ 0 .. m \in SUBSET Nat /\ 0 .. n # 0 .. m
    BY <2>2
  <2>4. <<0 .. n, 0 .. m>> \in StrictSubsetOrdering(Nat)
    BY <2>2, <2>3 DEF StrictSubsetOrdering
  <2>. QED
    BY <1>3, <1>4, <2>1, <2>4
<1>. QED
  BY <1>5

(* What holds of 0 and of the number after each of which it holds.         *)
LEMMA NatInd ==
  ASSUME NEW T \in SUBSET Nat, 0 \in T, \A n \in T : n + 1 \in T
  PROVE  T = Nat
<1> SUFFICES ASSUME T # Nat PROVE FALSE
  OBVIOUS
<1>1. PICK m \in Nat \ T : \A n \in Nat \ T : m <= n
  <2>1. Nat \ T \in SUBSET Nat /\ Nat \ T # {}
    OBVIOUS
  <2>. QED
    BY <2>1, LeastNat
<1>2. m - 1 \in Nat
  BY <1>1
<1>. QED
  BY <1>1, <1>2

-----------------------------------------------------------------------------
(* The texture cache.  The slots of the reorder buffer, from one on.       *)
SlotAt(t, k) == IF t + k < RobEntries THEN t + k ELSE t + k - RobEntries

LEMMA RobSize == RobEntries \in Nat \ {0}
BY TexAssumption

LEMMA TexModOnce ==
  ASSUME NEW L \in Nat \ {0}, NEW x \in 0 .. 2 * L - 1
  PROVE  x % L = IF x < L THEN x ELSE x - L
OBVIOUS

LEMMA SlotAtIs ==
  ASSUME NEW t \in Slot, NEW k \in 0 .. RobEntries
  PROVE  (t + k) % RobEntries = SlotAt(t, k) /\ SlotAt(t, k) \in Slot
<1>1. PICK R \in Nat \ {0} : R = RobEntries
  BY RobSize
<1>2. t \in 0 .. R - 1 /\ k \in 0 .. R
  BY <1>1 DEF Slot
<1>3. PICK x \in 0 .. 2 * R - 1 : x = t + k
  BY <1>2
<1>4. x % R = IF x < R THEN x ELSE x - R
  BY <1>3, TexModOnce
<1>5. (IF x < R THEN x ELSE x - R) \in 0 .. R - 1
  BY <1>2, <1>3
<1>. QED
  BY <1>1, <1>3, <1>4, <1>5 DEF SlotAt, Slot

LEMMA SlotAtOnce ==
  ASSUME NEW t \in Slot, NEW k \in 0 .. RobEntries - 1, NEW l \in 0 .. RobEntries - 1,
         SlotAt(t, k) = SlotAt(t, l)
  PROVE  k = l
BY RobSize DEF SlotAt, Slot

LEMMA SlotAtNext ==
  ASSUME NEW t \in Slot, NEW k \in Nat, k + 1 <= RobEntries
  PROVE  SlotAt(SlotAt(t, 1), k) = SlotAt(t, k + 1)
BY RobSize DEF SlotAt, Slot

LEMMA SlotAtZero ==
  ASSUME NEW t \in Slot
  PROVE  SlotAt(t, 0) = t
BY RobSize DEF SlotAt, Slot

(* The misses among the first n entries of f.                              *)
Nth(f, n) == Cardinality({m \in 1 .. n : f[m].miss})

LEMMA NthFinite ==
  ASSUME NEW f, NEW n \in Nat
  PROVE  IsFiniteSet({m \in 1 .. n : f[m].miss})
<1>1. IsFiniteSet(1 .. n) /\ {m \in 1 .. n : f[m].miss} \in SUBSET (1 .. n)
  BY FS_Interval, 1 \in Int, n \in Int
<1>. QED
  BY <1>1, FS_Subset

LEMMA NthNat ==
  ASSUME NEW f, NEW n \in Nat
  PROVE  Nth(f, n) \in 0 .. n
<1>1. PICK D : D = 1 .. n
  OBVIOUS
<1>2. PICK S : S = {m \in 1 .. n : f[m].miss}
  OBVIOUS
<1>3. IsFiniteSet(D) /\ Cardinality(D) = n
  <2>1. IsFiniteSet(1 .. n) /\ Cardinality(1 .. n) = IF 1 > n THEN 0 ELSE n - 1 + 1
    BY FS_Interval, 1 \in Int, n \in Int
  <2>. QED
    BY <2>1, <1>1
<1>4. S \in SUBSET D
  BY <1>1, <1>2
<1>5. IsFiniteSet(S) /\ Cardinality(S) <= Cardinality(D)
  BY <1>3, <1>4, FS_Subset
<1>6. Cardinality(S) \in Nat
  BY <1>5, FS_CardinalityType
<1>. QED
  BY <1>2, <1>3, <1>5, <1>6 DEF Nth

LEMMA NthNone ==
  ASSUME NEW f
  PROVE  Nth(f, 0) = 0
BY NthNat

LEMMA NthNext ==
  ASSUME NEW f, NEW n \in Nat
  PROVE  Nth(f, n + 1) = Nth(f, n) + (IF f[n + 1].miss THEN 1 ELSE 0)
<1>1. PICK S : S = {m \in 1 .. n : f[m].miss}
  OBVIOUS
<1>2. IsFiniteSet(S) /\ Cardinality(S) \in Nat
  BY <1>1, NthFinite, FS_CardinalityType
<1>3. n + 1 \notin S
  BY <1>1
<1>4. Nth(f, n) = Cardinality(S)
  BY <1>1 DEF Nth
<1>5. CASE f[n + 1].miss
  <2>1. {m \in 1 .. n + 1 : f[m].miss} = S \cup {n + 1}
    BY <1>1, <1>5
  <2>2. Cardinality(S \cup {n + 1}) = Cardinality(S) + 1
    BY <1>2, <1>3, FS_AddElement
  <2>3. Nth(f, n + 1) = Cardinality(S) + 1
    BY <2>1, <2>2 DEF Nth
  <2>. QED
    BY <1>4, <1>5, <2>3
<1>6. CASE ~f[n + 1].miss
  <2>1. {m \in 1 .. n + 1 : f[m].miss} = S
    BY <1>1, <1>6
  <2>2. Nth(f, n + 1) = Cardinality(S)
    BY <2>1 DEF Nth
  <2>. QED
    BY <1>2, <1>4, <1>6, <2>2
<1>. QED
  BY <1>5, <1>6

LEMMA NthSame ==
  ASSUME NEW f, NEW g, NEW n \in Nat, \A m \in 1 .. n : g[m] = f[m]
  PROVE  Nth(g, n) = Nth(f, n)
<1>1. {m \in 1 .. n : g[m].miss} = {m \in 1 .. n : f[m].miss}
  OBVIOUS
<1>. QED
  BY <1>1 DEF Nth

LEMMA NthGrows ==
  ASSUME NEW f, NEW m \in Nat, NEW n \in Nat, m <= n
  PROVE  Nth(f, m) <= Nth(f, n)
<1>1. PICK S, T : S = {l \in 1 .. m : f[l].miss} /\ T = {l \in 1 .. n : f[l].miss}
  OBVIOUS
<1>2. S \in SUBSET T /\ IsFiniteSet(T)
  <2>1. IsFiniteSet(T)
    BY <1>1, NthFinite
  <2>. QED
    BY <1>1, <2>1
<1>3. Cardinality(S) <= Cardinality(T)
  BY <1>2, FS_Subset
<1>. QED
  BY <1>1, <1>3 DEF Nth

(* A miss is counted with itself, and not before it.                       *)
LEMMA NthMiss ==
  ASSUME NEW f, NEW m \in Nat, NEW n \in Nat \ {0}, m < n, f[n].miss
  PROVE  Nth(f, m) < Nth(f, n) /\ 0 < Nth(f, n)
<1>1. PICK p \in Nat : p + 1 = n
  <2>1. n - 1 \in Nat /\ (n - 1) + 1 = n
    OBVIOUS
  <2>. QED
    BY <2>1
<1>2. Nth(f, n) = Nth(f, p) + 1
  BY <1>1, NthNext
<1>3. Nth(f, m) \in 0 .. m /\ Nth(f, p) \in 0 .. p
  BY NthNat
<1>4. Nth(f, m) <= Nth(f, p)
  BY <1>1, NthGrows
<1>. QED
  BY <1>2, <1>3, <1>4

(* After the first entry has left.                                         *)
LEMMA NthTail ==
  ASSUME NEW f, NEW g, NEW L \in Nat, \A m \in 1 .. L : g[m] = f[m + 1]
  PROVE  \A n \in 0 .. L : Nth(f, n + 1) = Nth(g, n) + (IF f[1].miss THEN 1 ELSE 0)
<1>1. PICK T : T = {n \in Nat : n <= L => Nth(f, n + 1) = Nth(g, n) + (IF f[1].miss THEN 1 ELSE 0)}
  OBVIOUS
<1>2. 0 \in T
  <2>1. Nth(f, 0 + 1) = Nth(f, 0) + (IF f[0 + 1].miss THEN 1 ELSE 0)
    BY NthNext
  <2>. QED
    BY <1>1, <2>1, NthNone
<1>3. ASSUME NEW n \in T PROVE n + 1 \in T
  <2>1. n \in Nat
    BY <1>1
  <2>. SUFFICES ASSUME n + 1 <= L
                PROVE  Nth(f, n + 1 + 1) = Nth(g, n + 1) + (IF f[1].miss THEN 1 ELSE 0)
    BY <1>1, <2>1
  <2>2. Nth(f, n + 1) = Nth(g, n) + (IF f[1].miss THEN 1 ELSE 0)
    BY <1>1, <2>1
  <2>3. PICK k \in Nat : k = n + 1
    BY <2>1
  <2>4. Nth(f, k + 1) = Nth(f, k) + (IF f[k + 1].miss THEN 1 ELSE 0)
    BY NthNext
  <2>5. Nth(g, n + 1) = Nth(g, n) + (IF g[n + 1].miss THEN 1 ELSE 0)
    BY <2>1, NthNext
  <2>6. g[n + 1] = f[k + 1]
    BY <2>1, <2>3
  <2>7. Nth(f, k) \in 0 .. k /\ Nth(g, n) \in 0 .. n
    BY <2>1, NthNat
  <2>. QED
    BY <2>2, <2>3, <2>4, <2>5, <2>6, <2>7
<1>4. T = Nat
  <2>1. T \in SUBSET Nat /\ \A n \in T : n + 1 \in T
    BY <1>1, <1>3
  <2>. QED
    BY <2>1, <1>2, NatInd
<1>. QED
  BY <1>1, <1>4

-----------------------------------------------------------------------------
(* What the first n entries of f promise of line i; a are the blocks that  *)
(* were asked for, c those of the data.                                    *)
Brings(f, i, n) == f[n].miss /\ f[n].line = i
BlockOf(f, a, n) == a[f[n].fetch]
Youngest(S) == CHOOSE m \in S : \A l \in S : l <= m
Prom(f, a, c, i, n) ==
  LET before == {m \in 1 .. n : Brings(f, i, m)}
  IN  IF before = {} THEN c[i] ELSE BlockOf(f, a, Youngest(before))

LEMMA PromIs ==
  ASSUME NEW f, NEW a, NEW c, NEW i, NEW n, NEW S, S = {m \in 1 .. n : Brings(f, i, m)}
  PROVE  Prom(f, a, c, i, n) = IF S = {} THEN c[i] ELSE BlockOf(f, a, Youngest(S))
BY DEF Prom

LEMMA PromNone ==
  ASSUME NEW f, NEW a, NEW c, NEW i
  PROVE  Prom(f, a, c, i, 0) = c[i]
BY DEF Prom

LEMMA PromNext ==
  ASSUME NEW f, NEW a, NEW c, NEW i, NEW n \in Nat
  PROVE  Prom(f, a, c, i, n + 1)
           = IF Brings(f, i, n + 1) THEN BlockOf(f, a, n + 1) ELSE Prom(f, a, c, i, n)
<1>1. PICK S : S = {m \in 1 .. n : Brings(f, i, m)}
  OBVIOUS
<1>2. PICK T : T = {m \in 1 .. n + 1 : Brings(f, i, m)}
  OBVIOUS
<1>3. Prom(f, a, c, i, n + 1) = IF T = {} THEN c[i] ELSE BlockOf(f, a, Youngest(T))
  BY <1>2 DEF Prom
<1>4. Prom(f, a, c, i, n) = IF S = {} THEN c[i] ELSE BlockOf(f, a, Youngest(S))
  BY <1>1 DEF Prom
<1>5. CASE Brings(f, i, n + 1)
  <2>1. n + 1 \in T /\ \A l \in T : l \in Nat /\ l <= n + 1
    BY <1>2, <1>5
  <2>2. PICK y : y = Youngest(T)
    OBVIOUS
  <2>3. y \in T /\ \A l \in T : l <= y
    BY <2>1, <2>2 DEF Youngest
  <2>4. y = n + 1
    <3>1. y <= n + 1 /\ n + 1 <= y /\ y \in Nat
      BY <2>1, <2>3
    <3>. QED
      BY <3>1
  <2>5. T # {} /\ Youngest(T) = n + 1
    BY <2>1, <2>2, <2>4
  <2>. QED
    BY <1>3, <1>5, <2>5
<1>6. CASE ~Brings(f, i, n + 1)
  <2>1. T = S
    BY <1>1, <1>2, <1>6
  <2>. QED
    BY <1>3, <1>4, <1>6, <2>1
<1>. QED
  BY <1>5, <1>6

LEMMA PromSame ==
  ASSUME NEW f, NEW g, NEW a, NEW b, NEW c, NEW i, NEW n \in Nat,
         \A m \in 1 .. n : g[m] = f[m] /\ b[f[m].fetch] = a[f[m].fetch]
  PROVE  Prom(g, b, c, i, n) = Prom(f, a, c, i, n)
<1>1. PICK S : S = {m \in 1 .. n : Brings(f, i, m)}
  OBVIOUS
<1>2. S = {m \in 1 .. n : Brings(g, i, m)}
  BY <1>1 DEF Brings
<1>3. Prom(f, a, c, i, n) = IF S = {} THEN c[i] ELSE BlockOf(f, a, Youngest(S))
  BY <1>1 DEF Prom
<1>4. Prom(g, b, c, i, n) = IF S = {} THEN c[i] ELSE BlockOf(g, b, Youngest(S))
  BY <1>2 DEF Prom
<1>5. CASE S # {}
  <2>1. PICK T : T = {n - m : m \in S}
    OBVIOUS
  <2>2. T \in SUBSET Nat /\ T # {}
    BY <1>1, <1>5, <2>1
  <2>3. PICK d \in T : \A x \in T : d <= x
    BY <2>2, LeastNat
  <2>4. PICK y \in S : d = n - y
    BY <2>1
  <2>5. \A l \in S : l <= y
    <3>1. ASSUME NEW l \in S PROVE l <= y
      <4>1. n - l \in T /\ l \in Nat /\ y \in Nat
        BY <1>1, <2>1
      <4>2. n - y <= n - l
        BY <4>1, <2>3, <2>4
      <4>. QED
        BY <4>1, <4>2
    <3>. QED
      BY <3>1
  <2>6. Youngest(S) \in S
    BY <2>5 DEF Youngest
  <2>7. PICK z : z = Youngest(S)
    OBVIOUS
  <2>8. BlockOf(g, b, z) = BlockOf(f, a, z)
    BY <1>1, <2>6, <2>7 DEF BlockOf
  <2>. QED
    BY <1>3, <1>4, <1>5, <2>7, <2>8
<1>. QED
  BY <1>3, <1>4, <1>5

(* The first entry leaves, and what it promised is in the data.            *)
Shifted(f, g, L) == \A m \in 1 .. L : g[m] = f[m + 1]
Written(f, a, c, d, i) == d[i] = IF Brings(f, i, 1) THEN BlockOf(f, a, 1) ELSE c[i]

LEMMA PromTail ==
  ASSUME NEW f, NEW g, NEW a, NEW c, NEW d, NEW i, NEW L \in Nat, Shifted(f, g, L),
         Written(f, a, c, d, i)
  PROVE  \A n \in 0 .. L : Prom(g, a, d, i, n) = Prom(f, a, c, i, n + 1)
<1>1. PICK T : T = {n \in Nat : n <= L => Prom(g, a, d, i, n) = Prom(f, a, c, i, n + 1)}
  OBVIOUS
<1>2. 0 \in T
  <2>1. Prom(f, a, c, i, 0 + 1)
          = IF Brings(f, i, 0 + 1) THEN BlockOf(f, a, 0 + 1) ELSE Prom(f, a, c, i, 0)
    BY PromNext
  <2>2. Prom(f, a, c, i, 0 + 1) = d[i]
    BY <2>1, PromNone DEF Written
  <2>. QED
    BY <1>1, <2>2, PromNone
<1>3. ASSUME NEW n \in T PROVE n + 1 \in T
  <2>1. n \in Nat
    BY <1>1
  <2>. SUFFICES ASSUME n + 1 <= L
                PROVE  Prom(g, a, d, i, n + 1) = Prom(f, a, c, i, n + 1 + 1)
    BY <1>1, <2>1
  <2>2. Prom(g, a, d, i, n) = Prom(f, a, c, i, n + 1)
    BY <1>1, <2>1
  <2>3. PICK k \in Nat : k = n + 1
    BY <2>1
  <2>4. Prom(f, a, c, i, k + 1)
          = IF Brings(f, i, k + 1) THEN BlockOf(f, a, k + 1) ELSE Prom(f, a, c, i, k)
    BY PromNext
  <2>5. Prom(g, a, d, i, n + 1)
          = IF Brings(g, i, n + 1) THEN BlockOf(g, a, n + 1) ELSE Prom(g, a, d, i, n)
    BY <2>1, PromNext
  <2>6. g[n + 1] = f[k + 1]
    BY <2>1, <2>3 DEF Shifted
  <2>7. (Brings(g, i, n + 1) <=> Brings(f, i, k + 1)) /\ BlockOf(g, a, n + 1) = BlockOf(f, a, k + 1)
    BY <2>6 DEF Brings, BlockOf
  <2>. QED
    BY <2>2, <2>3, <2>4, <2>5, <2>7
<1>4. T = Nat
  <2>1. T \in SUBSET Nat /\ \A n \in T : n + 1 \in T
    BY <1>1, <1>3
  <2>. QED
    BY <2>1, <1>2, NatInd
<1>. QED
  BY <1>1, <1>4

-----------------------------------------------------------------------------
(* The results and the fragment FIFO hold the last fetches in order.       *)
InTurn(A, f, r) ==
  /\ Len(r) + Len(f) <= A
  /\ \A n \in 1 .. Len(f) : f[n].fetch = A - Len(f) + n
  /\ \A n \in 1 .. Len(r) : r[n] = A - (Len(r) + Len(f)) + n

(* The slot of the n-th entry, a miss, is its own.                         *)
Claimed(f, a, rb, t, so, n) ==
  LET s == SlotAt(t, Nth(f, n) - 1)
  IN  /\ rb[s].fetch = f[n].fetch /\ rb[s].line = f[n].line
      /\ rb[s].block = BlockOf(f, a, n)
      /\ so[f[n].fetch] = s

InSlots(f, a, rb, t, so) == \A n \in 1 .. Len(f) : f[n].miss => Claimed(f, a, rb, t, so, n)

KeepsPromise(f, a, c, g) ==
  /\ \A i \in Line : g[i] = Prom(f, a, c, i, Len(f))
  /\ \A n \in 1 .. Len(f) : Prom(f, a, c, f[n].line, n) = BlockOf(f, a, n)

(* A fetch that is out is a miss whose answer its slot waits for.          *)
Awaited(f, rb, so, x) == \E n \in 1 .. Len(f) : f[n].miss /\ f[n].fetch = x /\ ~rb[so[x]].ready

Out(q, m) == m \cup {q[n] : n \in 1 .. Len(q)}

OnceOut(q, m) ==
  /\ \A k, l \in 1 .. Len(q) : q[k] = q[l] => k = l
  /\ \A k \in 1 .. Len(q) : q[k] \notin m

TexInv ==
  /\ TexTypeOK
  /\ InTurn(Len(asked), frag, res)
  /\ num = Nth(frag, Len(frag))
  /\ InSlots(frag, asked, rob, tail, slotOf)
  /\ KeepsPromise(frag, asked, cache, tags)
  /\ \A x \in Out(req, memory) : Awaited(frag, rob, slotOf, x)
  /\ OnceOut(req, memory)

LEMMA TexSizes ==
  /\ NLines \in Nat \ {0} /\ FragEntries \in Nat \ {0} /\ ReqEntries \in Nat \ {0}
  /\ RobEntries \in Nat \ {0} /\ ResEntries \in Nat \ {0} /\ MaxTex \in Nat
BY TexAssumption

LEMMA TexInitOK == TexInit => TexInv
<1> SUFFICES ASSUME TexInit PROVE TexInv
  OBVIOUS
<1>1. TexTypeOK
  BY TexSizes DEF TexInit, TexTypeOK, Line, Slot
<1>2. Len(frag) = 0 /\ Len(req) = 0 /\ Len(res) = 0 /\ Len(asked) = 0 /\ memory = {}
  BY DEF TexInit
<1>3. InTurn(Len(asked), frag, res) /\ InSlots(frag, asked, rob, tail, slotOf)
  BY <1>2 DEF InTurn, InSlots
<1>4. num = Nth(frag, Len(frag))
  BY <1>2, NthNone DEF TexInit
<1>5. KeepsPromise(frag, asked, cache, tags)
  <2>1. \A i \in Line : tags[i] = cache[i]
    BY DEF TexInit
  <2>. QED
    BY <1>2, <2>1, PromNone DEF KeepsPromise
<1>6. Out(req, memory) = {} /\ OnceOut(req, memory)
  BY <1>2 DEF Out, OnceOut
<1>. QED
  BY <1>1, <1>3, <1>4, <1>5, <1>6 DEF TexInv

(* What is known of an entry that missed: its slot, and who may have it.   *)
LEMMA SlotFacts ==
  ASSUME TexInv, NEW n \in 1 .. Len(frag), frag[n].miss
  PROVE  /\ Nth(frag, n) - 1 \in 0 .. num - 1 /\ num \in 1 .. RobEntries
         /\ frag[n].fetch \in 1 .. Len(asked)
         /\ SlotAt(tail, Nth(frag, n) - 1) \in Slot
         /\ Claimed(frag, asked, rob, tail, slotOf, n)
<1>1. PICK F \in Nat : F = Len(frag)
  BY DEF TexInv, TexTypeOK
<1>2. n \in Nat \ {0} /\ 0 < n /\ n <= F
  BY <1>1
<1>3. 0 < Nth(frag, n) /\ Nth(frag, n) \in 0 .. n
  BY <1>2, NthMiss, NthNat
<1>4. Nth(frag, n) <= Nth(frag, F)
  BY <1>1, <1>2, NthGrows
<1>5. num = Nth(frag, F) /\ num \in 0 .. RobEntries /\ RobEntries \in Nat
  BY <1>1, TexSizes DEF TexInv, TexTypeOK
<1>6. Nth(frag, n) - 1 \in 0 .. num - 1 /\ num \in 1 .. RobEntries
  BY <1>3, <1>4, <1>5
<1>7. SlotAt(tail, Nth(frag, n) - 1) \in Slot
  <2>1. PICK k \in 0 .. RobEntries : k = Nth(frag, n) - 1
    BY <1>5, <1>6
  <2>2. tail \in Slot
    BY DEF TexInv, TexTypeOK
  <2>. QED
    BY <2>1, <2>2, SlotAtIs
<1>8. frag[n].fetch \in 1 .. Len(asked)
  <2>1. PICK A \in Nat : A = Len(asked)
    BY DEF TexInv, TexTypeOK
  <2>2. Len(res) \in Nat
    BY DEF TexInv, TexTypeOK
  <2>3. F <= A /\ frag[n].fetch = A - F + n
    BY <1>1, <2>1, <2>2 DEF TexInv, InTurn
  <2>. QED
    BY <1>2, <2>1, <2>3
<1>. QED
  BY <1>6, <1>7, <1>8 DEF TexInv, InSlots

(* Two entries that missed have two slots.                                 *)
LEMMA SlotsApart ==
  ASSUME TexInv, NEW m \in 1 .. Len(frag), NEW n \in 1 .. Len(frag), frag[m].miss, frag[n].miss,
         SlotAt(tail, Nth(frag, m) - 1) = SlotAt(tail, Nth(frag, n) - 1)
  PROVE  frag[m].fetch = frag[n].fetch
BY SlotFacts DEF Claimed

(* A fetch that is out has a slot of its own.                              *)
LEMMA AwaitedSlot ==
  ASSUME TexInv, NEW x \in Out(req, memory)
  PROVE  \E n \in 1 .. Len(frag) : /\ frag[n].miss /\ frag[n].fetch = x /\ ~rob[slotOf[x]].ready
                                   /\ slotOf[x] = SlotAt(tail, Nth(frag, n) - 1)
                                   /\ x \in 1 .. Len(asked)
<1>1. PICK n \in 1 .. Len(frag) : frag[n].miss /\ frag[n].fetch = x /\ ~rob[slotOf[x]].ready
  BY DEF TexInv, Awaited
<1>. QED
  BY <1>1, SlotFacts DEF Claimed

-----------------------------------------------------------------------------
(* What access adds: the new last entry of the fragment FIFO.              *)
LEMMA AcceptFacts ==
  ASSUME TexInv, NEW b \in Texel, NEW i \in Line, NEW miss \in BOOLEAN, Accept(b, i, miss)
  PROVE  /\ Len(asked) \in Nat /\ Len(frag) \in Nat /\ Len(res) \in Nat
         /\ Len(asked) + 1 \in Fetch
         /\ asked' \in Seq(Texel) /\ Len(asked') = Len(asked) + 1
         /\ asked'[Len(asked) + 1] = b /\ \A n \in 1 .. Len(asked) : asked'[n] = asked[n]
         /\ frag' \in Seq(FragEntry) /\ Len(frag') = Len(frag) + 1
         /\ frag'[Len(frag) + 1] = [fetch |-> Len(asked) + 1, line |-> i, miss |-> miss]
         /\ \A n \in 1 .. Len(frag) : frag'[n] = frag[n] /\ frag[n].fetch \in 1 .. Len(asked)
         /\ Len(asked') <= MaxTex /\ Len(frag') <= FragEntries
         /\ InTurn(Len(asked'), frag', res)
<1>1. PICK A \in Nat, F \in Nat, R \in Nat : A = Len(asked) /\ F = Len(frag) /\ R = Len(res)
  BY DEF TexInv, TexTypeOK
<1>2. PICK e : e = [fetch |-> A + 1, line |-> i, miss |-> miss]
  OBVIOUS
<1>3. asked' = Append(asked, b) /\ frag' = Append(frag, e) /\ A < MaxTex /\ F < FragEntries
  BY <1>1, <1>2 DEF Accept, Accepts
<1>4. A + 1 \in Fetch /\ e \in FragEntry
  BY <1>1, <1>2, <1>3, TexSizes DEF Fetch, FragEntry
<1>5. asked \in Seq(Texel) /\ frag \in Seq(FragEntry)
  BY DEF TexInv, TexTypeOK
<1>6. /\ asked' \in Seq(Texel) /\ Len(asked') = A + 1 /\ asked'[A + 1] = b
      /\ \A n \in 1 .. A : asked'[n] = asked[n]
  BY <1>1, <1>3, <1>5, AppendProperties
<1>7. /\ frag' \in Seq(FragEntry) /\ Len(frag') = F + 1 /\ frag'[F + 1] = e
      /\ \A n \in 1 .. F : frag'[n] = frag[n]
  BY <1>1, <1>3, <1>4, <1>5, AppendProperties
<1>8. /\ R + F <= A /\ \A n \in 1 .. F : frag[n].fetch = A - F + n
      /\ \A n \in 1 .. R : res[n] = A - (R + F) + n
  BY <1>1 DEF TexInv, InTurn
<1>9. \A n \in 1 .. F : frag[n].fetch \in 1 .. A
  BY <1>8
<1>10. InTurn(A + 1, frag', res)
  <2>1. \A n \in 1 .. F + 1 : frag'[n].fetch = A + 1 - (F + 1) + n
    <3>1. frag'[F + 1].fetch = A + 1
      BY <1>2, <1>7
    <3>2. ASSUME NEW n \in 1 .. F PROVE frag'[n].fetch = A + 1 - (F + 1) + n
      <4>1. frag'[n].fetch = A - F + n
        BY <1>7, <1>8
      <4>2. A - F + n = A + 1 - (F + 1) + n
        OBVIOUS
      <4>. QED
        BY <4>1, <4>2
    <3>3. ASSUME NEW n \in 1 .. F + 1, ~(n \in 1 .. F) PROVE n = F + 1 /\ A + 1 - (F + 1) + n = A + 1
      BY <3>3
    <3>. QED
      BY <3>1, <3>2, <3>3
  <2>2. \A n \in 1 .. R : res[n] = A + 1 - (R + (F + 1)) + n
    BY <1>8
  <2>. QED
    BY <1>1, <1>7, <1>8, <2>1, <2>2 DEF InTurn
<1>11. A + 1 <= MaxTex /\ F + 1 <= FragEntries
  BY <1>3, TexSizes
<1>. QED
  BY <1>1, <1>2, <1>4, <1>6, <1>7, <1>9, <1>10, <1>11

(* The promise of the new entry is that of its line.                       *)
LEMMA AcceptPromise ==
  ASSUME TexInv, NEW b \in Texel, NEW i \in Line, NEW miss \in BOOLEAN, Accept(b, i, miss),
         NEW g, \A j \in Line \ {i} : g[j] = tags[j], g[i] = b, ~miss => tags[i] = b
  PROVE  KeepsPromise(frag', asked', cache, g)
<1>1. PICK A \in Nat, F \in Nat : A = Len(asked) /\ F = Len(frag)
  BY DEF TexInv, TexTypeOK
<1>2. /\ \A n \in 1 .. F : frag'[n] = frag[n] /\ asked'[frag[n].fetch] = asked[frag[n].fetch]
      /\ frag'[F + 1] = [fetch |-> A + 1, line |-> i, miss |-> miss]
      /\ asked'[A + 1] = b /\ Len(frag') = F + 1
  <2>1. \A n \in 1 .. F : frag'[n] = frag[n] /\ frag[n].fetch \in 1 .. A
    BY <1>1, AcceptFacts
  <2>2. \A n \in 1 .. A : asked'[n] = asked[n]
    BY <1>1, AcceptFacts
  <2>. QED
    BY <1>1, <2>1, <2>2, AcceptFacts
<1>3. ASSUME NEW j, NEW n \in 0 .. F PROVE Prom(frag', asked', cache, j, n) = Prom(frag, asked, cache, j, n)
  <2>1. n \in Nat /\ \A m \in 1 .. n : frag'[m] = frag[m] /\ asked'[frag[m].fetch] = asked[frag[m].fetch]
    BY <1>2
  <2>. QED
    BY <2>1, PromSame
<1>4. /\ BlockOf(frag', asked', F + 1) = b
      /\ \A j : Brings(frag', j, F + 1) <=> miss /\ j = i
  BY <1>2 DEF BlockOf, Brings
<1>5. ASSUME NEW j \in Line PROVE g[j] = Prom(frag', asked', cache, j, F + 1)
  <2>1. Prom(frag', asked', cache, j, F + 1)
          = IF Brings(frag', j, F + 1) THEN BlockOf(frag', asked', F + 1) ELSE Prom(frag', asked', cache, j, F)
    BY PromNext
  <2>2. Prom(frag', asked', cache, j, F) = tags[j]
    BY <1>1, <1>3 DEF TexInv, KeepsPromise
  <2>. QED
    BY <1>4, <2>1, <2>2
<1>6. ASSUME NEW n \in 1 .. F + 1 PROVE Prom(frag', asked', cache, frag'[n].line, n) = BlockOf(frag', asked', n)
  <2>1. CASE n = F + 1
    <3>1. frag'[n].line = i
      BY <1>2, <2>1
    <3>. QED
      BY <1>4, <1>5, <2>1, <3>1
  <2>2. CASE n # F + 1
    <3>1. n \in 1 .. F
      BY <2>2
    <3>2. frag'[n] = frag[n] /\ BlockOf(frag', asked', n) = BlockOf(frag, asked, n)
      BY <1>2, <3>1 DEF BlockOf
    <3>3. Prom(frag, asked, cache, frag[n].line, n) = BlockOf(frag, asked, n)
      BY <1>1, <3>1 DEF TexInv, KeepsPromise
    <3>. QED
      BY <1>3, <3>1, <3>2, <3>3
  <2>. QED
    BY <2>1, <2>2
<1>. QED
  BY <1>2, <1>5, <1>6 DEF KeepsPromise

LEMMA HitKeepsTex ==
  ASSUME TexInv, NEW b \in Texel, NEW i \in Line, TexHit(b, i)
  PROVE  TexInv'
<1>1. PICK A \in Nat, F \in Nat : A = Len(asked) /\ F = Len(frag)
  BY DEF TexInv, TexTypeOK
<1>2. Accept(b, i, FALSE) /\ tags[i] = b /\ UNCHANGED <<tags, req, rob, num, slotOf, tail, memory, cache, res>>
  BY DEF TexHit, Accept
<1>3. TexTypeOK'
  BY <1>2, AcceptFacts DEF TexInv, TexTypeOK
<1>4. /\ \A n \in 1 .. F : frag'[n] = frag[n] /\ asked'[frag[n].fetch] = asked[frag[n].fetch]
      /\ Len(frag') = F + 1 /\ ~frag'[F + 1].miss
  <2>1. \A n \in 1 .. F : frag'[n] = frag[n] /\ frag[n].fetch \in 1 .. A
    BY <1>1, <1>2, AcceptFacts
  <2>2. \A n \in 1 .. A : asked'[n] = asked[n]
    BY <1>1, <1>2, AcceptFacts
  <2>3. Len(frag') = F + 1 /\ frag'[F + 1] = [fetch |-> A + 1, line |-> i, miss |-> FALSE]
    BY <1>1, <1>2, AcceptFacts
  <2>. QED
    BY <2>1, <2>2, <2>3
<1>5. \A n \in 0 .. F : Nth(frag', n) = Nth(frag, n)
  BY <1>4, NthSame
<1>6. num' = Nth(frag', Len(frag'))
  <2>1. Nth(frag', F + 1) = Nth(frag', F) + (IF frag'[F + 1].miss THEN 1 ELSE 0)
    BY NthNext
  <2>2. Nth(frag', F) = num /\ num \in Nat
    BY <1>1, <1>5, TexSizes DEF TexInv, TexTypeOK
  <2>. QED
    BY <1>2, <1>4, <2>1, <2>2
<1>7. InSlots(frag', asked', rob, tail, slotOf)
  <2>. SUFFICES ASSUME NEW n \in 1 .. F + 1, frag'[n].miss
                PROVE  Claimed(frag', asked', rob, tail, slotOf, n)
    BY <1>4 DEF InSlots
  <2>1. n \in 1 .. F /\ frag[n].miss
    BY <1>4
  <2>2. Claimed(frag, asked, rob, tail, slotOf, n)
    BY <1>1, <2>1 DEF TexInv, InSlots
  <2>. QED
    BY <1>4, <1>5, <2>1, <2>2 DEF Claimed, BlockOf
<1>8. KeepsPromise(frag', asked', cache, tags)
  BY <1>2, AcceptPromise
<1>9. \A x \in Out(req, memory) : Awaited(frag', rob, slotOf, x)
  BY <1>1, <1>4 DEF TexInv, Awaited
<1>10. InTurn(Len(asked'), frag', res)
  BY <1>2, AcceptFacts
<1>. QED
  BY <1>2, <1>3, <1>6, <1>7, <1>8, <1>9, <1>10 DEF TexInv

LEMMA MissKeepsTex ==
  ASSUME TexInv, NEW b \in Texel, NEW i \in Line, TexMiss(b, i)
  PROVE  TexInv'
<1>1. PICK A \in Nat, F \in Nat : A = Len(asked) /\ F = Len(frag)
  BY DEF TexInv, TexTypeOK
<1>2. PICK k \in 0 .. RobEntries - 1 : k = num
  BY TexSizes DEF TexMiss, Accept, Accepts, TexInv, TexTypeOK
<1>3. PICK h \in Slot : h = head /\ h = SlotAt(tail, k)
  <2>1. k \in 0 .. RobEntries /\ tail \in Slot
    BY TexSizes DEF TexInv, TexTypeOK
  <2>. QED
    BY <1>2, <2>1, SlotAtIs DEF head
<1>4. PICK rec : rec = [ready |-> FALSE, line |-> i, fetch |-> A + 1, block |-> b]
  OBVIOUS
<1>5. /\ Accept(b, i, TRUE) /\ UNCHANGED <<tail, memory, cache, res>>
      /\ tags' = [tags EXCEPT ![i] = b] /\ rob' = [rob EXCEPT ![h] = rec]
      /\ num' = k + 1 /\ slotOf' = [slotOf EXCEPT ![A + 1] = h] /\ req' = Append(req, A + 1)
      /\ Len(req) < ReqEntries
  BY <1>1, <1>2, <1>3, <1>4 DEF TexMiss, Accept, Accepts
<1>6. A + 1 \in Fetch
  BY <1>1, <1>5, AcceptFacts
<1>7. /\ \A n \in 1 .. F : /\ frag'[n] = frag[n] /\ asked'[frag[n].fetch] = asked[frag[n].fetch]
                           /\ frag[n].fetch \in 1 .. A
      /\ Len(frag') = F + 1 /\ frag'[F + 1] = [fetch |-> A + 1, line |-> i, miss |-> TRUE]
      /\ asked'[A + 1] = b
  <2>1. \A n \in 1 .. F : frag'[n] = frag[n] /\ frag[n].fetch \in 1 .. A
    BY <1>1, <1>5, AcceptFacts
  <2>2. \A n \in 1 .. A : asked'[n] = asked[n]
    BY <1>1, <1>5, AcceptFacts
  <2>3. Len(frag') = F + 1 /\ frag'[F + 1] = [fetch |-> A + 1, line |-> i, miss |-> TRUE] /\ asked'[A + 1] = b
    BY <1>1, <1>5, AcceptFacts
  <2>. QED
    BY <2>1, <2>2, <2>3
<1>8. req' \in Seq(Fetch) /\ Len(req') = Len(req) + 1 /\ req'[Len(req) + 1] = A + 1 /\ Len(req) \in Nat
      /\ \A n \in 1 .. Len(req) : req'[n] = req[n]
  BY <1>5, <1>6, AppendProperties DEF TexInv, TexTypeOK
<1>9. TexTypeOK'
  <2>1. tags' \in [Line -> Texel \union {NoBlock}]
    BY <1>5 DEF TexInv, TexTypeOK
  <2>2. rec \in RobEntry
    BY <1>4, <1>6 DEF RobEntry
  <2>3. rob' \in [Slot -> RobEntry \union {Unused}]
    BY <1>5, <2>2 DEF TexInv, TexTypeOK
  <2>4. slotOf' \in [Fetch -> Slot \union {-1}]
    BY <1>5 DEF TexInv, TexTypeOK
  <2>5. num' \in 0 .. RobEntries
    BY <1>5, TexSizes
  <2>6. req' \in Seq(Fetch) /\ Len(req') <= ReqEntries
    BY <1>5, <1>8, TexSizes
  <2>7. asked' \in Seq(Texel) /\ Len(asked') <= MaxTex /\ frag' \in Seq(FragEntry) /\ Len(frag') <= FragEntries
    BY <1>5, AcceptFacts
  <2>. QED
    BY <1>5, <2>1, <2>3, <2>4, <2>5, <2>6, <2>7 DEF TexInv, TexTypeOK
<1>10. \A n \in 0 .. F : Nth(frag', n) = Nth(frag, n)
  BY <1>7, NthSame
<1>11. Nth(frag', F + 1) = k + 1
  <2>1. Nth(frag', F + 1) = Nth(frag', F) + (IF frag'[F + 1].miss THEN 1 ELSE 0)
    BY NthNext
  <2>2. Nth(frag', F) = k
    BY <1>1, <1>2, <1>10 DEF TexInv
  <2>. QED
    BY <1>7, <2>1, <2>2
<1>12. ASSUME NEW n \in 1 .. F, frag[n].miss
       PROVE  /\ SlotAt(tail, Nth(frag, n) - 1) \in Slot /\ SlotAt(tail, Nth(frag, n) - 1) # h
              /\ Claimed(frag, asked, rob, tail, slotOf, n)
  <2>1. PICK l \in 0 .. RobEntries - 1 : l = Nth(frag, n) - 1 /\ l # k
    <3>1. Nth(frag, n) - 1 \in 0 .. num - 1 /\ num \in 1 .. RobEntries
      BY <1>1, <1>12, SlotFacts
    <3>. QED
      BY <1>2, <3>1, TexSizes
  <2>2. tail \in Slot
    BY DEF TexInv, TexTypeOK
  <2>3. SlotAt(tail, l) # h
    BY <1>3, <2>1, <2>2, SlotAtOnce
  <2>. QED
    BY <1>1, <1>12, <2>1, <2>3, SlotFacts
<1>13. rob \in [Slot -> RobEntry \union {Unused}] /\ slotOf \in [Fetch -> Slot \union {-1}]
  BY DEF TexInv, TexTypeOK
<1>14. InSlots(frag', asked', rob', tail, slotOf')
  <2>. SUFFICES ASSUME NEW n \in 1 .. F + 1, frag'[n].miss
                PROVE  Claimed(frag', asked', rob', tail, slotOf', n)
    BY <1>7 DEF InSlots
  <2>1. CASE n = F + 1
    <3>1. SlotAt(tail, Nth(frag', n) - 1) = h
      BY <1>3, <1>11, <2>1
    <3>2. rob'[h] = rec /\ slotOf'[A + 1] = h
      BY <1>5, <1>6, <1>13
    <3>. QED
      BY <1>4, <1>7, <2>1, <3>1, <3>2 DEF Claimed, BlockOf
  <2>2. CASE n # F + 1
    <3>1. n \in 1 .. F /\ frag[n].miss /\ frag'[n] = frag[n]
      BY <1>7, <2>2
    <3>2. PICK s : s = SlotAt(tail, Nth(frag, n) - 1)
      OBVIOUS
    <3>3. SlotAt(tail, Nth(frag', n) - 1) = s
      BY <1>10, <3>1, <3>2
    <3>4. s \in Slot /\ s # h /\ Claimed(frag, asked, rob, tail, slotOf, n)
      BY <1>12, <3>1, <3>2
    <3>5. rob'[s] = rob[s]
      BY <1>5, <1>13, <3>4
    <3>6. frag[n].fetch \in 1 .. A
      BY <1>7, <3>1
    <3>7. slotOf'[frag[n].fetch] = slotOf[frag[n].fetch]
      BY <1>5, <3>6
    <3>8. BlockOf(frag', asked', n) = BlockOf(frag, asked, n)
      BY <1>7, <3>1 DEF BlockOf
    <3>. QED
      BY <3>1, <3>2, <3>3, <3>4, <3>5, <3>7, <3>8 DEF Claimed
  <2>. QED
    BY <2>1, <2>2
<1>15. KeepsPromise(frag', asked', cache, tags')
  <2>1. (\A j \in Line \ {i} : tags'[j] = tags[j]) /\ tags'[i] = b
    BY <1>5 DEF TexInv, TexTypeOK
  <2>. QED
    BY <1>5, <2>1, AcceptPromise
<1>16. ASSUME NEW x \in Out(req', memory) PROVE Awaited(frag', rob', slotOf', x)
  <2>1. CASE x = A + 1
    <3>1. slotOf'[x] = h /\ ~rob'[h].ready
      BY <1>4, <1>5, <1>6, <1>13, <2>1
    <3>2. F + 1 \in 1 .. Len(frag') /\ frag'[F + 1].miss /\ frag'[F + 1].fetch = x
      BY <1>7, <2>1
    <3>. QED
      BY <3>1, <3>2 DEF Awaited
  <2>2. CASE x # A + 1
    <3>1. x \in Out(req, memory)
      BY <1>8, <2>2 DEF Out
    <3>2. PICK n \in 1 .. F : /\ frag[n].miss /\ frag[n].fetch = x /\ ~rob[slotOf[x]].ready
                              /\ slotOf[x] = SlotAt(tail, Nth(frag, n) - 1) /\ x \in 1 .. A
      BY <1>1, <3>1, AwaitedSlot
    <3>3. slotOf'[x] = slotOf[x]
      BY <1>5, <2>2
    <3>4. rob'[slotOf[x]] = rob[slotOf[x]]
      BY <1>5, <1>12, <1>13, <3>2
    <3>5. n \in 1 .. Len(frag') /\ frag'[n].miss /\ frag'[n].fetch = x
      BY <1>7, <3>2
    <3>. QED
      BY <3>2, <3>3, <3>4, <3>5 DEF Awaited
  <2>. QED
    BY <2>1, <2>2
<1>17. OnceOut(req', memory)
  <2>1. \A x \in Out(req, memory) : x \in 1 .. A
    BY <1>1, AwaitedSlot
  <2>2. (\A n \in 1 .. Len(req) : req[n] \in 1 .. A) /\ A + 1 \notin memory
    BY <2>1 DEF Out
  <2>3. PICK Q \in Nat : Q = Len(req)
    BY <1>8
  <2>4. /\ \A m, l \in 1 .. Q : req[m] = req[l] => m = l
        /\ \A n \in 1 .. Q : req[n] \notin memory
    BY <2>3 DEF TexInv, OnceOut
  <2>5. ASSUME NEW m \in 1 .. Q + 1, NEW n \in 1 .. Q + 1, req'[m] = req'[n] PROVE m = n
    <3>1. \A l \in 1 .. Q : req'[l] # A + 1 /\ req'[l] = req[l]
      BY <1>8, <2>2, <2>3
    <3>2. CASE m = Q + 1 \/ n = Q + 1
      BY <1>8, <2>3, <2>5, <3>1, <3>2
    <3>3. CASE m # Q + 1 /\ n # Q + 1
      <4>1. m \in 1 .. Q /\ n \in 1 .. Q
        BY <3>3
      <4>. QED
        BY <2>4, <2>5, <3>1, <4>1
    <3>. QED
      BY <3>2, <3>3
  <2>6. ASSUME NEW n \in 1 .. Q + 1 PROVE req'[n] \notin memory
    <3>1. CASE n = Q + 1
      BY <1>8, <2>2, <2>3, <3>1
    <3>2. CASE n # Q + 1
      <4>1. n \in 1 .. Q
        BY <3>2
      <4>. QED
        BY <1>8, <2>3, <2>4, <4>1
    <3>. QED
      BY <3>1, <3>2
  <2>. QED
    BY <1>8, <2>3, <2>5, <2>6 DEF OnceOut
<1>18. InTurn(Len(asked'), frag', res)
  BY <1>5, AcceptFacts
<1>. QED
  BY <1>5, <1>7, <1>9, <1>11, <1>14, <1>15, <1>16, <1>17, <1>18 DEF TexInv

-----------------------------------------------------------------------------
(* A request goes out.                                                     *)
LEMMA SendKeepsTex ==
  ASSUME TexInv, NEW free, SendRequest(free)
  PROVE  /\ req' \in Seq(Fetch) /\ Len(req') <= ReqEntries /\ memory' \subseteq Fetch
         /\ Out(req', memory') = Out(req, memory)
         /\ OnceOut(req', memory')
<1>0. req \in Seq(Fetch) /\ Len(req) <= ReqEntries /\ memory \subseteq Fetch /\ OnceOut(req, memory)
  BY DEF TexInv, TexTypeOK
<1>1. CASE UNCHANGED <<req, memory>>
  BY <1>0, <1>1
<1>2. CASE req # <<>> /\ req' = Tail(req) /\ memory' = memory \union {Head(req)}
  <2>1. PICK Q \in Nat : Q = Len(req) - 1
    BY <1>0, <1>2
  <2>2. /\ req' \in Seq(Fetch) /\ Len(req') = Q /\ \A n \in 1 .. Q : req'[n] = req[n + 1]
        /\ Head(req) = req[1] /\ req[1] \in Fetch
    BY <1>0, <1>2, <2>1, HeadTailProperties
  <2>3. Len(req) = Q + 1
    BY <1>0, <2>1
  <2>4. Out(req', memory') = Out(req, memory)
    <3>1. {req[n] : n \in 1 .. Q + 1} = {req[1]} \cup {req'[n] : n \in 1 .. Q}
      <4>1. ASSUME NEW n \in 1 .. Q + 1, n # 1 PROVE req[n] \in {req'[m] : m \in 1 .. Q}
        <5>1. n - 1 \in 1 .. Q /\ (n - 1) + 1 = n
          BY <4>1
        <5>. QED
          BY <2>2, <5>1
      <4>2. \A n \in 1 .. Q : n + 1 \in 1 .. Q + 1 /\ req'[n] = req[n + 1]
        BY <2>2
      <4>. QED
        BY <4>1, <4>2
    <3>. QED
      BY <1>2, <2>2, <2>3, <3>1 DEF Out
  <2>5. OnceOut(req', memory')
    <3>1. \A k \in 1 .. Q : k + 1 \in 1 .. Q + 1 /\ k + 1 # 1 /\ 1 \in 1 .. Q + 1
      OBVIOUS
    <3>2. \A k \in 1 .. Q : req'[k] \notin memory'
      BY <1>0, <1>2, <2>2, <2>3, <3>1 DEF OnceOut
    <3>3. ASSUME NEW k \in 1 .. Q, NEW l \in 1 .. Q, req'[k] = req'[l] PROVE k = l
      <4>1. k + 1 = l + 1
        BY <1>0, <2>2, <2>3, <3>1, <3>3 DEF OnceOut
      <4>. QED
        BY <4>1
    <3>. QED
      BY <2>2, <3>2, <3>3 DEF OnceOut
  <2>. QED
    BY <1>0, <1>2, <2>1, <2>2, <2>4, <2>5, TexSizes
<1>. QED
  BY <1>1, <1>2 DEF SendRequest

(* The head of the fragment FIFO retires.                                  *)
LEMMA RetireKeepsTex ==
  ASSUME TexInv, RetireFragment, UNCHANGED <<asked, tags, rob, slotOf>>
  PROVE  /\ frag' \in Seq(FragEntry) /\ Len(frag') <= FragEntries
         /\ res' \in Seq(Fetch) /\ Len(res') <= ResEntries
         /\ cache' \in [Line -> Texel \union {NoBlock}] /\ tail' \in Slot /\ num' \in 0 .. RobEntries
         /\ InTurn(Len(asked), frag', res')
         /\ num' = Nth(frag', Len(frag'))
         /\ InSlots(frag', asked, rob, tail', slotOf)
         /\ KeepsPromise(frag', asked, cache', tags)
         /\ \A x \in Out(req, memory) : Awaited(frag', rob, slotOf, x)
<1>0. frag \in Seq(FragEntry) /\ frag # <<>> /\ res \in Seq(Fetch) /\ Len(res) < ResEntries
  BY DEF TexInv, TexTypeOK, RetireFragment, MayRetire
<1>1. PICK F \in Nat, R \in Nat, A \in Nat : F = Len(frag) - 1 /\ R = Len(res) /\ A = Len(asked)
  <2>1. Len(frag) - 1 \in Nat
    BY <1>0
  <2>2. Len(res) \in Nat
    BY <1>0
  <2>3. Len(asked) \in Nat
    BY DEF TexInv, TexTypeOK
  <2>. QED
    BY <2>1, <2>2, <2>3
<1>2. Len(frag) = F + 1
  BY <1>0, <1>1
<1>3. PICK e : e = Head(frag)
  OBVIOUS
<1>4. /\ frag' \in Seq(FragEntry) /\ Len(frag') = F /\ \A n \in 1 .. F : frag'[n] = frag[n + 1]
      /\ e = frag[1] /\ e \in FragEntry
  BY <1>0, <1>1, <1>3, HeadTailProperties DEF RetireFragment
<1>5. /\ e.miss \in BOOLEAN /\ e.line \in Line /\ e.fetch \in Fetch
      /\ e.miss => rob[tail].ready
      /\ res' = Append(res, e.fetch)
      /\ IF e.miss
         THEN /\ cache' = [cache EXCEPT ![rob[tail].line] = rob[tail].block]
              /\ tail' = (tail + 1) % RobEntries
              /\ num' = num - 1
         ELSE UNCHANGED <<cache, tail, num>>
  BY <1>3, <1>4 DEF RetireFragment, MayRetire, FragEntry
<1>6. /\ res' \in Seq(Fetch) /\ Len(res') = R + 1 /\ res'[R + 1] = e.fetch
      /\ \A n \in 1 .. R : res'[n] = res[n]
  BY <1>0, <1>1, <1>5, AppendProperties
<1>7. /\ cache \in [Line -> Texel \union {NoBlock}] /\ tail \in Slot /\ num \in 0 .. RobEntries
      /\ num = Nth(frag, F + 1) /\ RobEntries \in Nat \ {0}
      /\ R + (F + 1) <= A
      /\ \A n \in 1 .. F + 1 : frag[n].fetch = A - (F + 1) + n
      /\ \A n \in 1 .. R : res[n] = A - (R + (F + 1)) + n
  BY <1>1, <1>2, TexSizes DEF TexInv, TexTypeOK, InTurn
<1>8. InTurn(A, frag', res')
  <2>1. ASSUME NEW n \in 1 .. F PROVE frag'[n].fetch = A - F + n
    <3>1. n + 1 \in 1 .. F + 1
      OBVIOUS
    <3>2. frag[n + 1].fetch = A - (F + 1) + (n + 1)
      BY <1>7, <3>1
    <3>3. A - (F + 1) + (n + 1) = A - F + n
      OBVIOUS
    <3>. QED
      BY <1>4, <3>2, <3>3
  <2>2. \A n \in 1 .. R + 1 : res'[n] = A - (R + 1 + F) + n
    <3>1. res'[R + 1] = A - (R + 1 + F) + (R + 1)
      BY <1>4, <1>6, <1>7
    <3>2. \A n \in 1 .. R : res'[n] = A - (R + 1 + F) + n
      BY <1>6, <1>7
    <3>. QED
      BY <3>1, <3>2
  <2>3. R + 1 + F <= A
    BY <1>7
  <2>. QED
    BY <1>4, <1>6, <2>1, <2>2, <2>3 DEF InTurn
<1>9. Nth(frag, 1) = IF e.miss THEN 1 ELSE 0
  <2>1. Nth(frag, 0 + 1) = Nth(frag, 0) + (IF frag[0 + 1].miss THEN 1 ELSE 0)
    BY NthNext
  <2>. QED
    BY <1>4, <2>1, NthNone
<1>10. \A n \in 0 .. F : Nth(frag, n + 1) = Nth(frag', n) + (IF e.miss THEN 1 ELSE 0)
  <2>1. PICK g : g = frag'
    OBVIOUS
  <2>2. \A m \in 1 .. F : g[m] = frag[m + 1]
    BY <1>4, <2>1
  <2>3. \A n \in 0 .. F : Nth(frag, n + 1) = Nth(g, n) + (IF frag[1].miss THEN 1 ELSE 0)
    BY <2>2, NthTail
  <2>. QED
    BY <1>4, <2>1, <2>3
<1>11. ASSUME e.miss
       PROVE  /\ rob[tail].fetch = e.fetch /\ rob[tail].line = e.line
              /\ rob[tail].block = BlockOf(frag, asked, 1) /\ slotOf[e.fetch] = tail
              /\ num \in 1 .. RobEntries
  <2>1. 1 \in 1 .. Len(frag) /\ frag[1].miss
    BY <1>2, <1>4, <1>11
  <2>2. Claimed(frag, asked, rob, tail, slotOf, 1) /\ num \in 1 .. RobEntries
    BY <2>1, SlotFacts
  <2>3. SlotAt(tail, Nth(frag, 1) - 1) = tail
    BY <1>7, <1>9, <1>11, SlotAtZero
  <2>. QED
    BY <1>4, <2>2, <2>3 DEF Claimed
<1>12. /\ tail' = IF e.miss THEN SlotAt(tail, 1) ELSE tail
       /\ tail' \in Slot
       /\ num' = Nth(frag', F) /\ num' \in 0 .. RobEntries
  <2>1. (tail + 1) % RobEntries = SlotAt(tail, 1) /\ SlotAt(tail, 1) \in Slot
    <3>1. 1 \in 0 .. RobEntries
      BY <1>7
    <3>. QED
      BY <1>7, <3>1, SlotAtIs
  <2>2. num = Nth(frag', F) + (IF e.miss THEN 1 ELSE 0) /\ Nth(frag', F) \in 0 .. F
    BY <1>7, <1>10, NthNat
  <2>. QED
    BY <1>5, <1>7, <1>11, <2>1, <2>2
<1>13. cache' \in [Line -> Texel \union {NoBlock}]
  <2>1. CASE e.miss
    <3>1. rob[tail].block \in Texel \union {NoBlock}
      BY <1>7 DEF TexInv, TexTypeOK, RobEntry, Unused
    <3>. QED
      BY <1>5, <1>7, <2>1, <3>1
  <2>2. CASE ~e.miss
    BY <1>5, <1>7, <2>2
  <2>. QED
    BY <2>1, <2>2
<1>14. InSlots(frag', asked, rob, tail', slotOf)
  <2>. SUFFICES ASSUME NEW n \in 1 .. F, frag'[n].miss
                PROVE  Claimed(frag', asked, rob, tail', slotOf, n)
    BY <1>4 DEF InSlots
  <2>1. n + 1 \in 1 .. Len(frag) /\ frag[n + 1].miss /\ frag'[n] = frag[n + 1]
    BY <1>2, <1>4
  <2>2. /\ Claimed(frag, asked, rob, tail, slotOf, n + 1)
        /\ Nth(frag, n + 1) - 1 \in 0 .. num - 1
    BY <2>1, SlotFacts
  <2>3. Nth(frag, n + 1) = Nth(frag', n) + (IF e.miss THEN 1 ELSE 0) /\ Nth(frag', n) \in 0 .. n
    BY <1>10, NthNat
  <2>4. SlotAt(tail', Nth(frag', n) - 1) = SlotAt(tail, Nth(frag, n + 1) - 1)
    <3>1. CASE ~e.miss
      BY <1>12, <2>3, <3>1
    <3>2. CASE e.miss
      <4>1. PICK k : k = Nth(frag', n) - 1
        OBVIOUS
      <4>2. Nth(frag', n) > 0
        <5>1. PICK g : g = frag'
          OBVIOUS
        <5>2. 0 \in Nat /\ n \in Nat \ {0} /\ 0 < n /\ g[n].miss
          BY <2>1, <5>1
        <5>3. Nth(g, 0) < Nth(g, n) /\ 0 < Nth(g, n)
          BY <5>2, NthMiss
        <5>. QED
          BY <2>3, <5>1, <5>3
      <4>3. k \in Nat /\ k + 1 = Nth(frag, n + 1) - 1 /\ k + 1 <= RobEntries
        BY <1>7, <2>2, <2>3, <3>2, <4>1, <4>2
      <4>4. SlotAt(SlotAt(tail, 1), k) = SlotAt(tail, k + 1)
        BY <1>7, <4>3, SlotAtNext
      <4>. QED
        BY <1>12, <3>2, <4>1, <4>3, <4>4
    <3>. QED
      BY <3>1, <3>2
  <2>5. BlockOf(frag', asked, n) = BlockOf(frag, asked, n + 1)
    BY <2>1 DEF BlockOf
  <2>. QED
    BY <2>1, <2>2, <2>4, <2>5 DEF Claimed
<1>15. KeepsPromise(frag', asked, cache', tags)
  <2>1. ASSUME NEW i \in Line
        PROVE  \A n \in 0 .. F : Prom(frag', asked, cache', i, n) = Prom(frag, asked, cache, i, n + 1)
    <3>1. Brings(frag, i, 1) <=> e.miss /\ e.line = i
      BY <1>4 DEF Brings
    <3>2. cache'[i] = IF Brings(frag, i, 1) THEN BlockOf(frag, asked, 1) ELSE cache[i]
      BY <1>5, <1>7, <1>11, <3>1
    <3>3. PICK g, d : g = frag' /\ d = cache'
      OBVIOUS
    <3>4. Shifted(frag, g, F)
      BY <1>4, <3>3 DEF Shifted
    <3>5. Written(frag, asked, cache, d, i)
      BY <3>2, <3>3 DEF Written
    <3>6. \A n \in 0 .. F : Prom(g, asked, d, i, n) = Prom(frag, asked, cache, i, n + 1)
      BY <3>4, <3>5, PromTail
    <3>. QED
      BY <3>3, <3>6
  <2>2. ASSUME NEW i \in Line PROVE tags[i] = Prom(frag', asked, cache', i, F)
    <3>1. tags[i] = Prom(frag, asked, cache, i, F + 1)
      BY <1>2 DEF TexInv, KeepsPromise
    <3>. QED
      BY <2>1, <3>1
  <2>3. ASSUME NEW n \in 1 .. F PROVE Prom(frag', asked, cache', frag'[n].line, n) = BlockOf(frag', asked, n)
    <3>1. n + 1 \in 1 .. Len(frag) /\ frag'[n] = frag[n + 1]
      BY <1>2, <1>4
    <3>2. frag'[n].line \in Line
      <4>1. frag'[n] \in FragEntry
        BY <1>4
      <4>. QED
        BY <4>1 DEF FragEntry
    <3>3. Prom(frag, asked, cache, frag[n + 1].line, n + 1) = BlockOf(frag, asked, n + 1)
      BY <3>1 DEF TexInv, KeepsPromise
    <3>4. BlockOf(frag', asked, n) = BlockOf(frag, asked, n + 1)
      BY <3>1 DEF BlockOf
    <3>. QED
      BY <2>1, <3>1, <3>2, <3>3, <3>4
  <2>. QED
    BY <1>4, <2>2, <2>3 DEF KeepsPromise
<1>16. ASSUME NEW x \in Out(req, memory) PROVE Awaited(frag', rob, slotOf, x)
  <2>1. PICK n \in 1 .. Len(frag) : frag[n].miss /\ frag[n].fetch = x /\ ~rob[slotOf[x]].ready
    BY AwaitedSlot
  <2>2. n # 1
    BY <1>4, <1>5, <1>11, <2>1
  <2>3. n - 1 \in 1 .. F /\ frag'[n - 1] = frag[n]
    <3>1. PICK m \in 1 .. F : m + 1 = n
      <4>1. n - 1 \in 1 .. F /\ (n - 1) + 1 = n
        BY <1>2, <2>1, <2>2
      <4>. QED
        BY <4>1
    <3>2. m = n - 1
      BY <3>1
    <3>. QED
      BY <1>4, <3>1, <3>2
  <2>. QED
    BY <1>4, <2>1, <2>3 DEF Awaited
<1>17. F <= FragEntries /\ R + 1 <= ResEntries
  <2>1. F + 1 <= FragEntries
    BY <1>2 DEF TexInv, TexTypeOK
  <2>. QED
    BY <1>0, <1>1, <2>1, TexSizes
<1>. QED
  BY <1>1, <1>4, <1>6, <1>8, <1>12, <1>13, <1>14, <1>15, <1>16, <1>17

LEMMA CycleKeepsTex ==
  ASSUME TexInv, NEW free, tex_cycle(free)
  PROVE  TexInv'
<1>1. SendRequest(free) /\ UNCHANGED <<asked, tags, rob, slotOf>>
  BY DEF tex_cycle
<1>2. /\ req' \in Seq(Fetch) /\ Len(req') <= ReqEntries /\ memory' \subseteq Fetch
      /\ Out(req', memory') = Out(req, memory) /\ OnceOut(req', memory')
  BY <1>1, SendKeepsTex
<1>3. CASE RetireFragment
  <2>1. /\ frag' \in Seq(FragEntry) /\ Len(frag') <= FragEntries
        /\ res' \in Seq(Fetch) /\ Len(res') <= ResEntries
        /\ cache' \in [Line -> Texel \union {NoBlock}] /\ tail' \in Slot /\ num' \in 0 .. RobEntries
        /\ InTurn(Len(asked), frag', res')
        /\ num' = Nth(frag', Len(frag'))
        /\ InSlots(frag', asked, rob, tail', slotOf)
        /\ KeepsPromise(frag', asked, cache', tags)
        /\ \A x \in Out(req, memory) : Awaited(frag', rob, slotOf, x)
    BY <1>1, <1>3, RetireKeepsTex
  <2>2. TexTypeOK'
    BY <1>1, <1>2, <2>1 DEF TexInv, TexTypeOK
  <2>. QED
    BY <1>1, <1>2, <2>1, <2>2 DEF TexInv
<1>4. CASE UNCHANGED <<res, frag, cache, tail, num>>
  <2>1. TexTypeOK'
    BY <1>1, <1>2, <1>4 DEF TexInv, TexTypeOK
  <2>. QED
    BY <1>1, <1>2, <1>4, <2>1 DEF TexInv
<1>. QED
  BY <1>3, <1>4 DEF tex_cycle

LEMMA FillKeepsTex ==
  ASSUME TexInv, NEW f \in Fetch, tex_fill(f)
  PROVE  TexInv'
<1>1. /\ f \in memory /\ memory' = memory \ {f} /\ rob' = [rob EXCEPT ![slotOf[f]].ready = TRUE]
      /\ UNCHANGED <<asked, tags, frag, req, tail, num, slotOf, cache, res>>
  BY DEF tex_fill
<1>2. PICK h : h = slotOf[f]
  OBVIOUS
<1>3. f \in Out(req, memory)
  BY <1>1 DEF Out
<1>4. PICK n \in 1 .. Len(frag) : /\ frag[n].miss /\ frag[n].fetch = f
                                  /\ h = SlotAt(tail, Nth(frag, n) - 1)
  BY <1>2, <1>3, AwaitedSlot
<1>5. h \in Slot /\ rob[h].fetch = f
  BY <1>4, SlotFacts DEF Claimed
<1>6. rob \in [Slot -> RobEntry \union {Unused}] /\ rob' = [rob EXCEPT ![h].ready = TRUE]
  BY <1>1, <1>2 DEF TexInv, TexTypeOK
<1>7. rob[h] \in RobEntry
  <2>1. f # 0
    BY DEF Fetch
  <2>. QED
    BY <1>5, <1>6, <2>1 DEF Unused
<1>8. /\ rob' \in [Slot -> RobEntry \union {Unused}]
      /\ \A s \in Slot \ {h} : rob'[s] = rob[s]
      /\ rob'[h].fetch = rob[h].fetch /\ rob'[h].line = rob[h].line /\ rob'[h].block = rob[h].block
  <2>1. PICK r : r = [rob[h] EXCEPT !.ready = TRUE]
    OBVIOUS
  <2>2. r \in RobEntry /\ r.fetch = rob[h].fetch /\ r.line = rob[h].line /\ r.block = rob[h].block
    BY <1>7, <2>1 DEF RobEntry
  <2>3. rob' = [rob EXCEPT ![h] = r]
    BY <1>6, <2>1
  <2>. QED
    BY <1>5, <1>6, <2>2, <2>3
<1>9. TexTypeOK'
  BY <1>1, <1>8 DEF TexInv, TexTypeOK
<1>10. InSlots(frag, asked, rob', tail, slotOf)
  <2>. SUFFICES ASSUME NEW m \in 1 .. Len(frag), frag[m].miss
                PROVE  Claimed(frag, asked, rob', tail, slotOf, m)
    BY DEF InSlots
  <2>1. PICK s \in Slot : s = SlotAt(tail, Nth(frag, m) - 1)
    BY SlotFacts
  <2>2. Claimed(frag, asked, rob, tail, slotOf, m)
    BY SlotFacts
  <2>3. rob'[s].fetch = rob[s].fetch /\ rob'[s].line = rob[s].line /\ rob'[s].block = rob[s].block
    BY <1>8
  <2>. QED
    BY <2>1, <2>2, <2>3 DEF Claimed
<1>11. ASSUME NEW x \in Out(req, memory'), x # f PROVE Awaited(frag, rob', slotOf, x)
  <2>1. x \in Out(req, memory)
    BY <1>1 DEF Out
  <2>2. PICK m \in 1 .. Len(frag) : /\ frag[m].miss /\ frag[m].fetch = x /\ ~rob[slotOf[x]].ready
                                    /\ slotOf[x] = SlotAt(tail, Nth(frag, m) - 1)
    BY <2>1, AwaitedSlot
  <2>3. slotOf[x] # h
    BY <1>4, <1>11, <2>2, SlotsApart
  <2>4. slotOf[x] \in Slot
    BY <2>2, SlotFacts
  <2>5. rob'[slotOf[x]] = rob[slotOf[x]]
    BY <1>8, <2>3, <2>4
  <2>. QED
    BY <2>2, <2>5 DEF Awaited
<1>12. f \notin Out(req, memory')
  BY <1>1 DEF TexInv, OnceOut, Out
<1>13. OnceOut(req, memory')
  BY <1>1 DEF TexInv, OnceOut
<1>14. \A x \in Out(req, memory') : Awaited(frag, rob', slotOf, x)
  BY <1>11, <1>12
<1>. QED
  BY <1>1, <1>9, <1>10, <1>13, <1>14 DEF TexInv

LEMMA NextAccessKeepsTex ==
  ASSUME TexInv, tex_next_access
  PROVE  TexInv'
<1>1. /\ res # <<>> /\ res' = Tail(res) /\ res \in Seq(Fetch) /\ Len(res) <= ResEntries
      /\ UNCHANGED <<asked, tags, frag, req, rob, tail, num, slotOf, memory, cache>>
  BY DEF tex_next_access, TexInv, TexTypeOK
<1>2. PICK R \in Nat, F \in Nat, A \in Nat : R = Len(res) - 1 /\ F = Len(frag) /\ A = Len(asked)
  <2>1. Len(res) - 1 \in Nat
    BY <1>1
  <2>2. Len(frag) \in Nat /\ Len(asked) \in Nat
    BY DEF TexInv, TexTypeOK
  <2>. QED
    BY <2>1, <2>2
<1>3. Len(res) = R + 1
  BY <1>1, <1>2
<1>4. res' \in Seq(Fetch) /\ Len(res') = R /\ \A n \in 1 .. R : res'[n] = res[n + 1]
  BY <1>1, <1>2, HeadTailProperties
<1>5. TexTypeOK'
  <2>1. R <= ResEntries
    BY <1>1, <1>3, TexSizes
  <2>. QED
    BY <1>1, <1>4, <2>1 DEF TexInv, TexTypeOK
<1>6. InTurn(A, frag, res')
  <2>1. /\ (R + 1) + F <= A /\ \A n \in 1 .. F : frag[n].fetch = A - F + n
        /\ \A n \in 1 .. R + 1 : res[n] = A - ((R + 1) + F) + n
    BY <1>2, <1>3 DEF TexInv, InTurn
  <2>2. \A n \in 1 .. R : res'[n] = A - (R + F) + n
    BY <1>4, <2>1
  <2>3. R + F <= A
    BY <2>1
  <2>. QED
    BY <1>2, <1>4, <2>1, <2>2, <2>3 DEF InTurn
<1>. QED
  BY <1>1, <1>2, <1>5, <1>6 DEF TexInv

LEMMA TexStep == TexInv /\ [TexNext]_texVars => TexInv'
<1> SUFFICES ASSUME TexInv, [TexNext]_texVars PROVE TexInv'
  OBVIOUS
<1>1. CASE UNCHANGED texVars
  BY <1>1 DEF texVars, TexInv, TexTypeOK
<1>2. CASE TexNext
  BY <1>2, HitKeepsTex, MissKeepsTex, CycleKeepsTex, FillKeepsTex, NextAccessKeepsTex DEF TexNext, tex_access
<1>. QED
  BY <1>1, <1>2

LEMMA TexInvGives == TexInv => PromisesKept
<1> SUFFICES ASSUME TexInv PROVE PromisesKept
  OBVIOUS
<1>1. PICK F \in Nat, R \in Nat, A \in Nat : F = Len(frag) /\ R = Len(res) /\ A = Len(asked)
  BY DEF TexInv, TexTypeOK
<1>2. \A n : MissesTo(n) = Nth(frag, n)
  BY DEF MissesTo, Nth
<1>3. RobInStep
  <2>. SUFFICES ASSUME NEW n \in 1 .. F, frag[n].miss
                PROVE  LET r == rob[(tail + MissesTo(n) - 1) % RobEntries]
                       IN  /\ r.fetch = frag[n].fetch
                           /\ r.line = frag[n].line
                           /\ r.block = asked[frag[n].fetch]
    BY <1>1, <1>2 DEF RobInStep, TexInv
  <2>1. PICK k : k = Nth(frag, n) - 1
    OBVIOUS
  <2>2. k \in 0 .. num - 1 /\ num \in 1 .. RobEntries /\ Claimed(frag, asked, rob, tail, slotOf, n)
    BY <1>1, <2>1, SlotFacts
  <2>3. tail \in Slot /\ k \in 0 .. RobEntries
    BY <2>2, TexSizes DEF TexInv, TexTypeOK
  <2>4. (tail + k) % RobEntries = SlotAt(tail, k)
    BY <2>3, SlotAtIs
  <2>5. tail + MissesTo(n) - 1 = tail + k
    <3>1. Nth(frag, n) \in 0 .. n /\ tail \in Nat
      BY <2>3, NthNat, TexSizes DEF Slot
    <3>. QED
      BY <1>2, <2>1, <3>1
  <2>. QED
    BY <2>1, <2>2, <2>4, <2>5 DEF Claimed, BlockOf
<1>4. TagsPromiseData
  <2>1. \A i, n : Promised(i, n) = Prom(frag, asked, cache, i, n)
    BY DEF Promised, Prom, Brings, BlockOf, Youngest
  <2>. QED
    BY <2>1 DEF TagsPromiseData, TexInv, KeepsPromise, BlockOf
<1>5. AnswerFindsSlot
  <2>. SUFFICES ASSUME NEW f \in Out(req, memory)
                PROVE  num > 0 /\ slotOf[f] \in Slot /\ rob[slotOf[f]].fetch = f /\ ~rob[slotOf[f]].ready
    BY DEF AnswerFindsSlot, Out
  <2>1. PICK n \in 1 .. Len(frag) : /\ frag[n].miss /\ frag[n].fetch = f /\ ~rob[slotOf[f]].ready
                                    /\ slotOf[f] = SlotAt(tail, Nth(frag, n) - 1)
    BY AwaitedSlot
  <2>2. num \in 1 .. RobEntries
    BY <2>1, SlotFacts
  <2>3. num > 0
    BY <2>2, TexSizes
  <2>. QED
    BY <2>1, <2>3, SlotFacts DEF Claimed
<1>6. InOrder
  <2>1. PICK g : g = [n \in 1 .. Len(frag) |-> frag[n].fetch]
    OBVIOUS
  <2>2. g \in Seq(Fetch) /\ Len(g) = F /\ \A n \in 1 .. F : g[n] = frag[n].fetch
    <3>1. \A n \in 1 .. F : frag[n].fetch \in Fetch
      <4>1. \A n \in 1 .. F : frag[n] \in FragEntry
        BY <1>1 DEF TexInv, TexTypeOK
      <4>. QED
        BY <4>1 DEF FragEntry
    <3>. QED
      BY <1>1, <2>1, <3>1
  <2>3. res \in Seq(Fetch)
    BY DEF TexInv, TexTypeOK
  <2>4. /\ Len(Pending) = R + F
        /\ \A n \in 1 .. R + F : Pending[n] = IF n <= R THEN res[n] ELSE g[n - R]
    <3>1. Pending = res \o g
      BY <2>1 DEF Pending
    <3>2. /\ Len(res \o g) = Len(res) + Len(g)
          /\ \A n \in 1 .. Len(res) + Len(g) : (res \o g)[n] = IF n <= Len(res) THEN res[n] ELSE g[n - Len(res)]
      BY <2>2, <2>3, ConcatProperties
    <3>. QED
      BY <1>1, <2>2, <3>1, <3>2
  <2>5. /\ \A n \in 1 .. F : frag[n].fetch = A - F + n
        /\ \A n \in 1 .. R : res[n] = A - (R + F) + n
    BY <1>1 DEF TexInv, InTurn
  <2>6. ASSUME NEW n \in 1 .. R + F PROVE Pending[n] = A - (R + F) + n
    <3>1. CASE n <= R
      <4>1. n \in 1 .. R
        BY <3>1
      <4>2. Pending[n] = res[n]
        BY <2>4, <3>1
      <4>. QED
        BY <2>5, <4>1, <4>2
    <3>2. CASE ~(n <= R)
      <4>1. PICK m \in 1 .. F : m = n - R
        BY <3>2
      <4>2. Pending[n] = g[m]
        BY <2>4, <3>2, <4>1
      <4>3. g[m] = A - F + m
        BY <2>2, <2>5
      <4>. QED
        BY <4>1, <4>2, <4>3
    <3>. QED
      BY <3>1, <3>2
  <2>. QED
    BY <1>1, <2>4, <2>6 DEF InOrder
<1>. QED
  BY <1>3, <1>4, <1>5, <1>6 DEF PromisesKept, TexInv

(* Whatever the sizes of the FIFOs, whatever line a miss takes and in      *)
(* whatever order memory answers: what the tags promised is in the data    *)
(* when it is read, every answer finds its slot, and fetches leave in the  *)
(* order in which they came.                                               *)
THEOREM PromisesAlwaysKept == TexSpec => []PromisesKept
<1>1. TexInit => TexInv
  BY TexInitOK
<1>2. TexInv /\ [TexNext]_texVars => TexInv'
  BY TexStep
<1>. QED
  BY <1>1, <1>2, TexInvGives, PTL DEF TexSpec

-----------------------------------------------------------------------------
(* Sums.  What f counts of the elements of S, one by one, *)
Units(f, S) == UNION {{x} \X (1 .. f[x]) : x \in S}

(* is finite, as any finite family of finite sets. *)
LEMMA FamilyFinite ==
  ASSUME NEW S, IsFiniteSet(S), NEW D, \A x \in S : IsFiniteSet(D[x])
  PROVE  IsFiniteSet(UNION {{x} \X D[x] : x \in S})
<1> DEFINE T == {{x} \X D[x] : x \in S}
           g == [x \in S |-> {x} \X D[x]]
<1>1. g \in Surjection(S, T)
  BY DEF Surjection
<1>2. IsFiniteSet(T)
  BY <1>1, FS_Surjection
<1>3. ASSUME NEW U \in T PROVE IsFiniteSet(U)
  <2>1. PICK x \in S : U = {x} \X D[x]
    OBVIOUS
  <2>2. IsFiniteSet({x}) /\ IsFiniteSet(D[x])
    BY FS_Singleton
  <2>. QED
    BY <2>1, <2>2, FS_Product
<1>. QED
  BY <1>2, <1>3, FS_UNION

LEMMA UnitsFinite ==
  ASSUME NEW S, IsFiniteSet(S), NEW f, \A x \in S : f[x] \in Nat
  PROVE  IsFiniteSet(Units(f, S)) /\ Total(f, S) \in Nat /\ Total(f, S) = Cardinality(Units(f, S))
<1> DEFINE D == [x \in S |-> 1 .. f[x]]
<1>1. \A x \in S : IsFiniteSet(D[x])
  <2> SUFFICES ASSUME NEW x \in S PROVE IsFiniteSet(1 .. f[x])
    OBVIOUS
  <2>1. f[x] \in Int /\ 1 \in Int
    OBVIOUS
  <2>. QED
    BY <2>1, FS_Interval
<1> HIDE DEF D
<1>2. IsFiniteSet(UNION {{x} \X D[x] : x \in S})
  BY <1>1, FamilyFinite
<1>3. Units(f, S) = UNION {{x} \X D[x] : x \in S}
  BY DEF Units, D
<1>4. IsFiniteSet(Units(f, S))
  BY <1>2, <1>3
<1>5. Total(f, S) = Cardinality(Units(f, S))
  BY DEF Total, Units
<1>. QED
  BY <1>4, <1>5, FS_CardinalityType

LEMMA TotalSame ==
  ASSUME NEW S, NEW f, NEW g, \A x \in S : f[x] = g[x]
  PROVE  Total(f, S) = Total(g, S)
<1>1. Units(f, S) = Units(g, S)
  BY DEF Units
<1>. QED
  BY <1>1 DEF Units, Total

LEMMA TotalZero ==
  ASSUME NEW S, NEW f, \A x \in S : f[x] = 0
  PROVE  Total(f, S) = 0
<1>1. \A x \in S : {x} \X (1 .. f[x]) = {}
  OBVIOUS
<1>2. UNION {{x} \X (1 .. f[x]) : x \in S} = {}
  BY <1>1
<1>. QED
  BY <1>2, FS_EmptySet DEF Total

LEMMA TotalSplit ==
  ASSUME NEW S, IsFiniteSet(S), NEW f, \A x \in S : f[x] \in Nat, NEW i \in S
  PROVE  /\ Total(f, S) \in Nat /\ Total(f, S \ {i}) \in Nat
         /\ Total(f, S) = Total(f, S \ {i}) + f[i]
<1> DEFINE R == S \ {i}
           A == Units(f, R)
           B == {i} \X (1 .. f[i])
<1>1. IsFiniteSet(R)
  BY FS_RemoveElement
<1>2. IsFiniteSet(A) /\ Total(f, R) \in Nat /\ Total(f, R) = Cardinality(A)
  BY <1>1, UnitsFinite
<1>3. Total(f, S) \in Nat /\ Total(f, S) = Cardinality(Units(f, S))
  BY UnitsFinite
<1>4. f[i] \in Nat /\ f[i] \in Int /\ 1 \in Int
  OBVIOUS
<1>5. IsFiniteSet(1 .. f[i]) /\ Cardinality(1 .. f[i]) = IF 1 > f[i] THEN 0 ELSE f[i] - 1 + 1
  BY <1>4, FS_Interval
<1>6. Cardinality(1 .. f[i]) = f[i]
  BY <1>4, <1>5
<1>7. IsFiniteSet({i}) /\ Cardinality({i}) = 1
  BY FS_Singleton
<1>8. IsFiniteSet(B) /\ Cardinality(B) = 1 * f[i]
  <2>1. /\ IsFiniteSet({i} \X (1 .. f[i]))
        /\ Cardinality({i} \X (1 .. f[i])) = Cardinality({i}) * Cardinality(1 .. f[i])
    BY <1>5, <1>7, FS_Product
  <2>. QED
    BY <1>6, <1>7, <2>1
<1>9. Units(f, S) = A \cup B
  BY DEF Units
<1>10. A \cap B = {}
  <2> SUFFICES ASSUME NEW x \in A, x \in B PROVE FALSE
    OBVIOUS
  <2>1. PICK y \in R : x \in {y} \X (1 .. f[y])
    BY DEF Units
  <2>2. x[1] = y /\ x[1] = i
    BY <2>1
  <2>. QED
    BY <2>2
<1> HIDE DEF A, B, R
<1>11. Cardinality(A \cup B) = Cardinality(A) + Cardinality(B) - Cardinality(A \cap B)
  BY <1>2, <1>8, FS_Union
<1>12. Cardinality(A \cap B) = 0
  BY <1>10, FS_EmptySet
<1>13. Total(f, S) = Total(f, R) + f[i]
  BY <1>2, <1>3, <1>4, <1>8, <1>9, <1>11, <1>12
<1>. QED
  BY <1>2, <1>3, <1>13 DEF R

(* If only what is counted of i changes, so much changes the sum. *)
LEMMA SumStep ==
  ASSUME NEW S, IsFiniteSet(S), NEW f, NEW g, NEW i,
         \A x \in S : f[x] \in Nat /\ g[x] \in Nat,
         \A x \in S : x # i => f[x] = g[x]
  PROVE  /\ Total(f, S) \in Nat /\ Total(g, S) \in Nat
         /\ Total(g, S) = Total(f, S) + (IF i \in S THEN g[i] - f[i] ELSE 0)
<1>1. CASE i \in S
  <2>1. /\ Total(f, S) \in Nat /\ Total(f, S \ {i}) \in Nat
        /\ Total(f, S) = Total(f, S \ {i}) + f[i]
    BY <1>1, TotalSplit
  <2>2. /\ Total(g, S) \in Nat /\ Total(g, S \ {i}) \in Nat
        /\ Total(g, S) = Total(g, S \ {i}) + g[i]
    BY <1>1, TotalSplit
  <2>3. Total(f, S \ {i}) = Total(g, S \ {i})
    BY TotalSame
  <2>4. f[i] \in Nat /\ g[i] \in Nat
    BY <1>1
  <2>. QED
    BY <1>1, <2>1, <2>2, <2>3, <2>4
<1>2. CASE i \notin S
  <2>1. Total(f, S) = Total(g, S)
    BY <1>2, TotalSame
  <2>2. Total(f, S) \in Nat
    BY UnitsFinite
  <2>. QED
    BY <1>2, <2>1, <2>2
<1>. QED
  BY <1>1, <1>2

(* Likewise for the number of the elements of S that are in T. *)
LEMMA CountStep ==
  ASSUME NEW S, IsFiniteSet(S), NEW T, NEW U, T \subseteq S, U \subseteq S, NEW i,
         \A x \in S : x # i => (x \in T <=> x \in U)
  PROVE  /\ Cardinality(T) \in Nat /\ Cardinality(U) \in Nat
         /\ Cardinality(U) = Cardinality(T) + (IF i \in U THEN 1 ELSE 0) - (IF i \in T THEN 1 ELSE 0)
<1>1. IsFiniteSet(T) /\ IsFiniteSet(U)
  BY FS_Subset
<1>2. T \ {i} = U \ {i}
  OBVIOUS
<1>3. Cardinality(T) \in Nat /\ Cardinality(U) \in Nat
  BY <1>1, FS_CardinalityType
<1>4. Cardinality(T \ {i}) = IF i \in T THEN Cardinality(T) - 1 ELSE Cardinality(T)
  BY <1>1, FS_RemoveElement
<1>5. Cardinality(U \ {i}) = IF i \in U THEN Cardinality(U) - 1 ELSE Cardinality(U)
  BY <1>1, FS_RemoveElement
<1>6. Cardinality(U) - (IF i \in U THEN 1 ELSE 0) = Cardinality(T) - (IF i \in T THEN 1 ELSE 0)
  <2>1. Cardinality(T \ {i}) = Cardinality(T) - (IF i \in T THEN 1 ELSE 0)
    BY <1>3, <1>4
  <2>2. Cardinality(U \ {i}) = Cardinality(U) - (IF i \in U THEN 1 ELSE 0)
    BY <1>3, <1>5
  <2>. QED
    BY <1>2, <2>1, <2>2
<1>. QED
  BY <1>3, <1>6

-----------------------------------------------------------------------------
(* How often x is in a queue. *)
One(p) == IF p THEN 1 ELSE 0

LEMMA InSeqNat ==
  ASSUME NEW S, NEW s \in Seq(S), NEW x
  PROVE  /\ InSeq(s, x) \in Nat /\ IsFiniteSet({n \in DOMAIN s : s[n] = x})
         /\ InSeq(s, x) = Cardinality({n \in DOMAIN s : s[n] = x})
         /\ s # <<>> => InSeq(s, Head(s)) > 0
<1> DEFINE D(y) == {n \in DOMAIN s : s[n] = y}
<1>1. DOMAIN s = 1 .. Len(s) /\ Len(s) \in Nat
  BY LenProperties
<1>2. IsFiniteSet(1 .. Len(s))
  <2>1. 1 \in Int /\ Len(s) \in Int
    BY <1>1
  <2>. QED
    BY <2>1, FS_Interval
<1>3. ASSUME NEW y PROVE IsFiniteSet(D(y)) /\ Cardinality(D(y)) \in Nat /\ InSeq(s, y) = Cardinality(D(y))
  <2>1. D(y) \in SUBSET (1 .. Len(s))
    BY <1>1
  <2>2. IsFiniteSet(D(y))
    BY <1>2, <2>1, FS_Subset
  <2>. QED
    BY <2>2, FS_CardinalityType DEF InSeq
<1>4. ASSUME s # <<>> PROVE InSeq(s, Head(s)) > 0
  <2>1. Len(s) # 0
    BY <1>4, EmptySeq
  <2>2. 1 \in DOMAIN s /\ s[1] = Head(s)
    BY <1>1, <1>4, <2>1, HeadTailProperties
  <2>3. D(Head(s)) # {}
    BY <2>2
  <2>4. Cardinality(D(Head(s))) # 0
    BY <1>3, <2>3, FS_EmptySet
  <2>5. InSeq(s, Head(s)) = Cardinality(D(Head(s))) /\ Cardinality(D(Head(s))) \in Nat
    BY <1>3
  <2>. QED
    BY <2>4, <2>5
<1>. QED
  BY <1>3, <1>4

LEMMA InSeqAppend ==
  ASSUME NEW S, NEW s \in Seq(S), NEW e \in S, NEW x
  PROVE  InSeq(Append(s, e), x) = InSeq(s, x) + One(e = x)
<1> DEFINE t == Append(s, e)
           D == {n \in DOMAIN s : s[n] = x}
           E == {n \in DOMAIN t : t[n] = x}
           l == Len(s) + 1
<1>1. /\ t \in Seq(S) /\ Len(t) = l /\ \A n \in 1 .. Len(s) : t[n] = s[n]
      /\ t[l] = e
  BY AppendProperties
<1>2. DOMAIN s = 1 .. Len(s) /\ Len(s) \in Nat /\ DOMAIN t = 1 .. l
  BY <1>1, LenProperties
<1>3. IsFiniteSet(D) /\ InSeq(s, x) = Cardinality(D) /\ InSeq(s, x) \in Nat
  BY InSeqNat
<1>4. InSeq(t, x) = Cardinality(E)
  BY DEF InSeq
<1>5. E = IF e = x THEN D \cup {l} ELSE D
  BY <1>1, <1>2
<1>6. l \notin D
  BY <1>2
<1>7. Cardinality(D \cup {l}) = Cardinality(D) + 1
  BY <1>3, <1>6, FS_AddElement
<1> HIDE DEF t, D, E, l
<1>8. InSeq(t, x) = InSeq(s, x) + One(e = x)
  BY <1>3, <1>4, <1>5, <1>7 DEF One
<1>. QED
  BY <1>8 DEF t

LEMMA InSeqTail ==
  ASSUME NEW S, NEW s \in Seq(S), s # <<>>, NEW x
  PROVE  InSeq(Tail(s), x) = InSeq(s, x) - One(Head(s) = x)
<1> DEFINE t == Tail(s)
           D == {n \in DOMAIN s : s[n] = x}
           E == {n \in DOMAIN t : t[n] = x}
           F == D \ {1}
           g == [n \in E |-> n + 1]
<1>1. /\ t \in Seq(S) /\ Len(t) = Len(s) - 1 /\ Head(s) = s[1]
      /\ \A n \in 1 .. Len(t) : t[n] = s[n + 1]
  BY HeadTailProperties
<1>2. DOMAIN s = 1 .. Len(s) /\ Len(s) \in Nat /\ DOMAIN t = 1 .. Len(t) /\ Len(t) \in Nat
  BY <1>1, LenProperties
<1>3. IsFiniteSet(D) /\ InSeq(s, x) = Cardinality(D) /\ InSeq(s, x) \in Nat
  BY InSeqNat
<1>4. IsFiniteSet(E) /\ InSeq(t, x) = Cardinality(E) /\ InSeq(t, x) \in Nat
  BY <1>1, InSeqNat
<1>5. ASSUME NEW m \in F PROVE \E n \in E : g[n] = m
  <2>1. m \in 2 .. Len(s) /\ s[m] = x
    BY <1>2
  <2>2. m - 1 \in 1 .. Len(t) /\ t[m - 1] = s[(m - 1) + 1] /\ (m - 1) + 1 = m
    BY <1>1, <1>2, <2>1
  <2>3. m - 1 \in E /\ g[m - 1] = m
    BY <1>2, <2>1, <2>2
  <2>. QED
    BY <2>3
<1>6. ASSUME NEW n \in E PROVE n + 1 \in F /\ n \in Nat
  BY <1>1, <1>2
<1>7. g \in Bijection(E, F)
  <2>1. g \in [E -> F]
    BY <1>6
  <2>2. \A m, n \in E : g[m] = g[n] => m = n
    BY <1>6
  <2>. QED
    BY <1>5, <2>1, <2>2 DEF Bijection, Injection, Surjection, IsInjective
<1>8. ExistsBijection(E, F)
  BY <1>7 DEF ExistsBijection
<1>9. Cardinality(F) = Cardinality(E)
  BY <1>4, <1>8, FS_Bijection
<1>10. Cardinality(F) = IF 1 \in D THEN Cardinality(D) - 1 ELSE Cardinality(D)
  BY <1>3, FS_RemoveElement
<1>11. 1 \in D <=> Head(s) = x
  <2>1. Len(s) # 0
    BY EmptySeq
  <2>. QED
    BY <1>1, <1>2, <2>1
<1> HIDE DEF t, D, E, F, g
<1>12. InSeq(t, x) = InSeq(s, x) - One(Head(s) = x)
  BY <1>3, <1>4, <1>9, <1>10, <1>11 DEF One
<1>. QED
  BY <1>12 DEF t

-----------------------------------------------------------------------------
(* Where an instruction is: besides in the collector, at the dispatch      *)
(* register, in the pipeline, at the writeback, and, of what bypasses, in  *)
(* the buffer before it.                                                   *)
AtReg(i) == dispatch.inst = i
InPipe(i) == \E s \in Stage : pipe[s] = i
IsBack(i) == nextWb = i
AtNext(i) == nextGlobal = i

(* A load, or an atomic, whose accesses leave the core, and how many of    *)
(* them are still to be written back.                                      *)
Books(i) == is_load(i) /\ P(i).space # "shared"
OutOf(i) == InFlight(i) + Left(i)

Live(i) == i \in collected \/ InUnit(i) \/ InFlight(i) > 0

CacheName == {"tex", "const", "L1D"}

Typed ==
  /\ prog \in Programs /\ pc \in [Warp -> Nat \ {0}]
  /\ retired \subseteq exited /\ exited \subseteq Warp /\ collected \subseteq Inst
  /\ dispatch \in [inst : Inst \union {None}, left : Nat]
  /\ pipe \in [Stage -> Inst \union {None}]
  /\ mem \in [Inst -> Nat] /\ fifo \in Seq(Inst) /\ Len(fifo) <= ResponseSize
  /\ ready \in [CacheName -> Seq(Inst)]
  /\ nextGlobal \in Inst \union {None} /\ nextWb \in Inst \union {None}
  /\ arb \in Client /\ piece \in 1 .. 5 /\ reserved \in [Warp -> SUBSET Reg]

TypedCounts ==
  /\ pending \in [Warp -> [Reg -> Nat]]
  /\ stores \in [Warp -> Nat] /\ atomics \in [Warp -> Nat] /\ inPipe \in [Warp -> Nat]

(* What is not issued is nowhere; what waits in the collector has nothing  *)
(* on its way, nor has, while it is in the unit, what is for the shared    *)
(* memory; barriers never have.                                            *)
PlaceOK(i) ==
  /\ Live(i) => i[2] < pc[i[1]]
  /\ i \in collected => ~AtReg(i) /\ ~InPipe(i) /\ InFlight(i) = 0
  /\ AtReg(i) => ~InPipe(i) /\ Left(i) <= P(i).n /\ (Left(i) = 0 => InFlight(i) = 0)
  /\ InPipe(i) => is_load(i) /\ P(i).space = "shared"
  /\ P(i).space = "shared" => Away(i) = 0 /\ (AtReg(i) \/ InPipe(i) => ~IsBack(i))
  /\ P(i).op = "membar" => Away(i) = 0
  /\ IsBack(i) => is_load(i)
  /\ AtNext(i) => is_load(i) /\ P(i).bypass

AllPlaced == \A i \in Inst : PlaceOK(i)

(* No instruction is in two stages, and what a cache answers it was given. *)
PipeApart == \A s, t \in Stage : pipe[s] = pipe[t] /\ pipe[s] # None => s = t

ReadyOK ==
  \A c \in CacheName : \A n \in DOMAIN ready[c] : is_load(ready[c][n]) /\ ~P(ready[c][n]).bypass

(* Two that write one register are not on their way together, so what is   *)
(* pending of a register is what is out of the one that writes it.         *)
OneWriter ==
  \A i, j \in Inst : Live(i) /\ Live(j) /\ i[1] = j[1] /\ i # j => P(i).dst \cap P(j).dst = {}

PendingIs ==
  /\ \A i \in Inst : Books(i) /\ OutOf(i) > 0 => \A r \in P(i).dst : pending[i[1]][r] = OutOf(i)
  /\ \A w \in Warp, r \in Reg :
       (\A i \in Inst : i[1] = w /\ Books(i) /\ r \in P(i).dst => OutOf(i) = 0) => pending[w][r] = 0

RegInv == ReleasedWhenBack /\ OneWriter /\ PendingIs

(* A warp that has exited issues no more, and its atomics are done.        *)
ExitedQuiet == \A w \in exited : pc[w] > Len(prog[w]) /\ atomics[w] = 0

LdstInv ==
  /\ Typed /\ TypedCounts /\ AllPlaced /\ PipeApart /\ ReadyOK
  /\ RegInv /\ Counted /\ RetiredIsClean /\ ExitedQuiet

-----------------------------------------------------------------------------
(* The instructions, of which there are finitely many. *)
LEMMA InstIs ==
  ASSUME prog \in Programs, NEW i \in Inst
  PROVE  /\ i[1] \in Warp /\ i[2] \in Nat /\ i[2] \in DOMAIN prog[i[1]] /\ i = <<i[1], i[2]>>
         /\ P(i) \in Instruction /\ MayRun(P(i)) /\ i # None
<1>1. PICK w \in Warp : i \in {w} \X DOMAIN prog[w]
  BY DEF Inst
<1>2. i[1] = w /\ i[2] \in DOMAIN prog[w] /\ i = <<w, i[2]>>
  BY <1>1
<1>3. prog[w] \in Seq(Instruction) /\ \A k \in DOMAIN prog[w] : MayRun(prog[w][k])
  BY LdstAssumption
<1>4. i[2] \in 1 .. Len(prog[w]) /\ prog[w][i[2]] \in Instruction /\ i[2] \in Nat
  BY <1>2, <1>3, LenProperties, ElementOfSeq
<1>5. i # None
  BY <1>2, <1>4, LdstAssumption
<1>. QED
  BY <1>2, <1>3, <1>4, <1>5 DEF P

LEMMA FieldsOf ==
  ASSUME prog \in Programs, NEW i \in Inst
  PROVE  /\ P(i).op \in {"load", "store", "atomic", "membar"}
         /\ P(i).space \in {"shared", "tex", "const", "global"}
         /\ P(i).bypass \in BOOLEAN /\ P(i).n \in Nat /\ P(i).dst \subseteq Reg
         /\ is_load(i) <=> P(i).op \in {"load", "atomic"}
         /\ P(i).op = "atomic" => P(i).space = "shared" \/ (P(i).space = "global" /\ P(i).bypass)
         /\ P(i).op = "load" => P(i).dst # {}
         /\ P(i).op \in {"store", "membar"} => P(i).dst = {} /\ P(i).space \in {"shared", "global"}
         /\ P(i).op = "membar" => P(i).n = 0
<1>1. P(i) \in Instruction /\ MayRun(P(i))
  BY InstIs
<1>. QED
  BY <1>1 DEF Instruction, MayRun, is_load

LEMMA InstFinite ==
  ASSUME prog \in Programs
  PROVE  IsFiniteSet(Inst) /\ \A S \in SUBSET Inst : IsFiniteSet(S)
<1> DEFINE D == [w \in Warp |-> DOMAIN prog[w]]
<1>1. IsFiniteSet(Warp)
  BY LdstAssumption
<1>2. \A w \in Warp : IsFiniteSet(D[w])
  <2> SUFFICES ASSUME NEW w \in Warp PROVE IsFiniteSet(DOMAIN prog[w])
    OBVIOUS
  <2>1. prog[w] \in Seq(Instruction)
    BY LdstAssumption
  <2>2. DOMAIN prog[w] = 1 .. Len(prog[w]) /\ 1 \in Int /\ Len(prog[w]) \in Int
    BY <2>1, LenProperties
  <2>. QED
    BY <2>2, FS_Interval
<1> HIDE DEF D
<1>3. IsFiniteSet(UNION {{w} \X D[w] : w \in Warp})
  BY <1>1, <1>2, FamilyFinite
<1>4. Inst = UNION {{w} \X D[w] : w \in Warp}
  BY DEF Inst, D
<1>. QED
  BY <1>3, <1>4, FS_Subset

(* A program does not change. *)
LEMMA Fixed ==
  ASSUME prog' = prog
  PROVE  /\ Inst' = Inst
         /\ \A i : P(i)' = P(i) /\ (is_load(i)' <=> is_load(i)) /\ (Books(i)' <=> Books(i))
<1>1. Inst' = Inst
  BY DEF Inst
<1>2. ASSUME NEW i PROVE P(i)' = P(i)
  BY DEF P
<1>. QED
  BY <1>1, <1>2 DEF is_load, Books

(* The numbers of an instruction. *)
Numbers ==
  \A i \in Inst :
    /\ Away(i) \in Nat /\ Left(i) \in Nat /\ InFlight(i) \in Nat /\ OutOf(i) \in Nat
    /\ AtomicsOut(i) \in Nat
    /\ InFlight(i) = Away(i) + One(IsBack(i)) /\ OutOf(i) = InFlight(i) + Left(i)
    /\ Live(i) <=> i \in collected \/ AtReg(i) \/ InPipe(i) \/ InFlight(i) > 0
    /\ InUnit(i) <=> AtReg(i) \/ InPipe(i)
    /\ ~AtReg(i) => Left(i) = 0
    /\ AtomicsOut(i) = IF P(i).space = "shared" \/ i \in collected
                       THEN IF i \in collected \/ InUnit(i) THEN P(i).n ELSE 0
                       ELSE Away(i) + Left(i)
    /\ Away(i) = mem[i] + InSeq(fifo, i) + One(AtNext(i))
                  + InSeq(ready.tex, i) + InSeq(ready.const, i) + InSeq(ready.L1D, i)
    /\ AtNext(i) => Away(i) > 0
    /\ mem[i] > 0 => Away(i) > 0
    /\ InSeq(fifo, i) > 0 => Away(i) > 0
    /\ \A c \in CacheName : InSeq(ready[c], i) > 0 => Away(i) > 0

LEMMA NumbersAre == Typed => Numbers
<1> SUFFICES ASSUME Typed, NEW i \in Inst
             PROVE  Numbers!(i)
  BY DEF Numbers
<1>1. mem[i] \in Nat /\ InSeq(fifo, i) \in Nat
  BY InSeqNat DEF Typed
<1>2. ready.tex \in Seq(Inst) /\ ready.const \in Seq(Inst) /\ ready.L1D \in Seq(Inst)
      /\ ready.tex = ready["tex"] /\ ready.const = ready["const"] /\ ready.L1D = ready["L1D"]
  BY DEF Typed, CacheName
<1>3. InSeq(ready.tex, i) \in Nat /\ InSeq(ready.const, i) \in Nat /\ InSeq(ready.L1D, i) \in Nat
  BY <1>2, InSeqNat
<1>4. Away(i) = mem[i] + InSeq(fifo, i) + One(AtNext(i))
                  + InSeq(ready.tex, i) + InSeq(ready.const, i) + InSeq(ready.L1D, i)
  BY DEF Away, One, AtNext
<1>5. One(AtNext(i)) \in {0, 1} /\ (AtNext(i) => One(AtNext(i)) = 1) /\ One(IsBack(i)) \in {0, 1}
  BY DEF One
<1>6. Away(i) \in Nat /\ (AtNext(i) => Away(i) > 0) /\ (mem[i] > 0 => Away(i) > 0)
      /\ (InSeq(fifo, i) > 0 => Away(i) > 0)
      /\ \A c \in CacheName : InSeq(ready[c], i) > 0 => Away(i) > 0
  BY <1>1, <1>2, <1>3, <1>4, <1>5 DEF CacheName
<1>7. Left(i) \in Nat /\ (~AtReg(i) => Left(i) = 0)
  BY DEF Typed, Left, AtReg
<1>8. InFlight(i) = Away(i) + One(IsBack(i))
  BY DEF InFlight, IsBack, One
<1>9. P(i).n \in Nat
  BY FieldsOf DEF Typed
<1>10. InUnit(i) <=> AtReg(i) \/ InPipe(i)
  BY DEF InUnit, AtReg, InPipe
<1>11. InFlight(i) \in Nat /\ OutOf(i) \in Nat /\ OutOf(i) = InFlight(i) + Left(i)
  BY <1>5, <1>6, <1>7, <1>8 DEF OutOf
<1>12. Live(i) <=> i \in collected \/ AtReg(i) \/ InPipe(i) \/ InFlight(i) > 0
  BY <1>10 DEF Live
<1>13. AtomicsOut(i) = IF P(i).space = "shared" \/ i \in collected
                       THEN IF i \in collected \/ InUnit(i) THEN P(i).n ELSE 0
                       ELSE Away(i) + Left(i)
  BY DEF AtomicsOut
<1>14. AtomicsOut(i) \in Nat
  BY <1>6, <1>7, <1>9, <1>13
<1>. QED
  BY <1>4, <1>6, <1>7, <1>8, <1>10, <1>11, <1>12, <1>13, <1>14

LEMMA NumbersNext == Typed' => Numbers'
BY NumbersAre, PTL

-----------------------------------------------------------------------------
(* A step leaves an instruction where it is, or moves just one.            *)
Same(j) ==
  /\ j \in collected' <=> j \in collected
  /\ AtReg(j)' <=> AtReg(j)
  /\ InPipe(j)' <=> InPipe(j)
  /\ Away(j)' = Away(j)
  /\ IsBack(j)' <=> IsBack(j)
  /\ Left(j)' = Left(j)
  /\ AtNext(j)' => AtNext(j)

OthersSame(i) == \A j \in Inst : j # i => Same(j)

Onward == prog' = prog /\ \A w \in Warp : pc[w] \in Nat /\ pc'[w] \in Nat /\ pc'[w] >= pc[w]

LEMMA SameMore ==
  ASSUME prog' = prog, Numbers, Numbers', NEW j \in Inst, Same(j)
  PROVE  /\ InFlight(j)' = InFlight(j) /\ OutOf(j)' = OutOf(j) /\ AtomicsOut(j)' = AtomicsOut(j)
         /\ InUnit(j)' <=> InUnit(j)
         /\ Live(j)' <=> Live(j)
<1>0. Inst' = Inst /\ P(j)' = P(j)
  BY Fixed
<1>1. One(IsBack(j))' = One(IsBack(j))
  BY DEF Same, One
<1>2. InFlight(j) = Away(j) + One(IsBack(j)) /\ InFlight(j)' = Away(j)' + One(IsBack(j))'
  BY <1>0 DEF Numbers
<1>3. InFlight(j)' = InFlight(j)
  BY <1>1, <1>2 DEF Same
<1>4. OutOf(j) = InFlight(j) + Left(j) /\ OutOf(j)' = InFlight(j)' + Left(j)'
  BY <1>0 DEF Numbers
<1>5. OutOf(j)' = OutOf(j)
  BY <1>3, <1>4 DEF Same
<1>6. InUnit(j)' <=> InUnit(j)
  BY <1>0 DEF Numbers, Same
<1>7. /\ Live(j) <=> j \in collected \/ AtReg(j) \/ InPipe(j) \/ InFlight(j) > 0
      /\ Live(j)' <=> j \in collected' \/ AtReg(j)' \/ InPipe(j)' \/ InFlight(j)' > 0
  BY <1>0 DEF Numbers
<1>8. Live(j)' <=> Live(j)
  BY <1>3, <1>7 DEF Same
<1>9. /\ AtomicsOut(j) = IF P(j).space = "shared" \/ j \in collected
                         THEN IF j \in collected \/ InUnit(j) THEN P(j).n ELSE 0
                         ELSE Away(j) + Left(j)
      /\ AtomicsOut(j)' = IF P(j)'.space = "shared" \/ j \in collected'
                          THEN IF j \in collected' \/ InUnit(j)' THEN P(j)'.n ELSE 0
                          ELSE Away(j)' + Left(j)'
  BY <1>0 DEF Numbers
<1>10. AtomicsOut(j)' = AtomicsOut(j)
  BY <1>0, <1>6, <1>9 DEF Same
<1>. QED
  BY <1>3, <1>5, <1>6, <1>8, <1>10

LEMMA PlaceKept ==
  ASSUME Onward, Typed, Numbers, Numbers', NEW j \in Inst, Same(j), PlaceOK(j)
  PROVE  PlaceOK(j)'
<1>1. P(j)' = P(j) /\ (is_load(j)' <=> is_load(j))
  BY Fixed DEF Onward
<1>2. InFlight(j)' = InFlight(j) /\ (Live(j)' <=> Live(j))
  BY SameMore DEF Onward
<1>3. j[1] \in Warp /\ j[2] \in Nat
  BY InstIs DEF Typed
<1>4. Live(j)' => j[2] < pc'[j[1]]
  BY <1>2, <1>3 DEF Onward, PlaceOK
<1>. QED
  BY <1>1, <1>2, <1>4 DEF PlaceOK, Same

-----------------------------------------------------------------------------
(* The registers follow the one instruction that moves. *)
RegsFollow(i) ==
  \A v \in Warp, r \in Reg :
    /\ r \in reserved'[v] <=> IF v = i[1] /\ r \in P(i).dst THEN Live(i)' ELSE r \in reserved[v]
    /\ pending'[v][r] = IF v = i[1] /\ r \in P(i).dst /\ Books(i) THEN OutOf(i)' ELSE pending[v][r]

(* An instruction on its way holds its registers,                          *)
LEMMA HeldRegs ==
  ASSUME Typed, Numbers, RegInv, NEW i \in Inst, Live(i), NEW r \in P(i).dst
  PROVE  /\ r \in reserved[i[1]]
         /\ Books(i) => pending[i[1]][r] = OutOf(i)
<1>1. i[1] \in Warp /\ r \in Reg
  BY InstIs, FieldsOf DEF Typed
<1>2. r \in reserved[i[1]]
  BY <1>1 DEF RegInv, ReleasedWhenBack, Live
<1>3. ASSUME Books(i), OutOf(i) = 0 PROVE pending[i[1]][r] = 0
  <2> SUFFICES ASSUME NEW j \in Inst, j[1] = i[1], Books(j), r \in P(j).dst PROVE OutOf(j) = 0
    BY <1>1 DEF RegInv, PendingIs
  <2>1. CASE j = i
    BY <1>3, <2>1
  <2>2. CASE j # i
    <3>1. ~Live(j)
      BY <2>2 DEF RegInv, OneWriter
    <3>. QED
      BY <3>1 DEF Numbers
  <2>. QED
    BY <2>1, <2>2
<1>4. OutOf(i) \in Nat
  BY DEF Numbers
<1>5. ASSUME Books(i), OutOf(i) # 0 PROVE pending[i[1]][r] = OutOf(i)
  BY <1>4, <1>5 DEF RegInv, PendingIs
<1>. QED
  BY <1>2, <1>3, <1>5

(* and a register that is free is not pending.                             *)
LEMMA FreeRegs ==
  ASSUME Typed, Numbers, RegInv, NEW w \in Warp, NEW r \in Reg, r \notin reserved[w]
  PROVE  pending[w][r] = 0
<1> SUFFICES ASSUME NEW j \in Inst, j[1] = w, r \in P(j).dst PROVE OutOf(j) = 0
  BY DEF RegInv, PendingIs
<1>1. ~Live(j)
  BY HeldRegs
<1>. QED
  BY <1>1 DEF Numbers

LEMMA RegsStep ==
  ASSUME prog' = prog, Typed, Numbers, Numbers', RegInv, NEW i \in Inst,
         OthersSame(i), RegsFollow(i),
         Live(i) \/ (Live(i)' /\ P(i).dst \cap reserved[i[1]] = {})
  PROVE  RegInv'
<1>0. Inst' = Inst /\ \A j : P(j)' = P(j) /\ (Books(j)' <=> Books(j))
  BY Fixed
<1>1. \A j \in Inst : j[1] \in Warp /\ P(j).dst \subseteq Reg
  BY InstIs, FieldsOf DEF Typed
<1>2. \A j \in Inst : j # i => OutOf(j)' = OutOf(j) /\ (Live(j)' <=> Live(j))
  BY SameMore DEF OthersSame
<1>3. \A j \in Inst : j # i /\ Live(j) /\ j[1] = i[1] => P(j).dst \cap P(i).dst = {}
  <2> SUFFICES ASSUME NEW j \in Inst, j # i, Live(j), j[1] = i[1], NEW r \in P(j).dst, r \in P(i).dst
               PROVE  FALSE
    OBVIOUS
  <2>1. r \in reserved[i[1]]
    BY HeldRegs
  <2>2. Live(i)
    BY <2>1
  <2>. QED
    BY <2>2 DEF RegInv, OneWriter
<1>4. OneWriter'
  <2>1. \A j, k \in Inst : Live(j)' /\ Live(k)' /\ j[1] = k[1] /\ j # k => P(j).dst \cap P(k).dst = {}
    BY <1>2, <1>3 DEF RegInv, OneWriter
  <2>. QED
    BY <1>0, <2>1 DEF OneWriter
<1>5. ASSUME NEW w \in Warp, NEW r \in Reg
      PROVE  r \in reserved'[w] <=> \E j \in Inst : j[1] = w /\ r \in P(j).dst /\ Live(j)'
  <2>1. CASE w = i[1] /\ r \in P(i).dst
    <3>1. r \in reserved'[w] <=> Live(i)'
      BY <2>1 DEF RegsFollow
    <3>. QED
      BY <1>2, <1>3, <2>1, <3>1
  <2>2. CASE ~(w = i[1] /\ r \in P(i).dst)
    <3>1. r \in reserved'[w] <=> r \in reserved[w]
      BY <2>2 DEF RegsFollow
    <3>2. r \in reserved[w] <=> \E j \in Inst : j[1] = w /\ r \in P(j).dst /\ Live(j)
      BY DEF RegInv, ReleasedWhenBack, Live
    <3>. QED
      BY <1>2, <2>2, <3>1, <3>2
  <2>. QED
    BY <2>1, <2>2
<1>6. ReleasedWhenBack'
  BY <1>0, <1>5 DEF ReleasedWhenBack, Live
<1>7. ASSUME NEW j \in Inst, Books(j), OutOf(j)' > 0, NEW r \in P(j).dst
      PROVE  pending'[j[1]][r] = OutOf(j)'
  <2>0. j[1] \in Warp /\ r \in Reg
    BY <1>1
  <2>1. CASE j = i
    BY <1>7, <2>0, <2>1 DEF RegsFollow
  <2>2. CASE j # i
    <3>1. OutOf(j) > 0 /\ Live(j)
      BY <1>2, <1>7, <2>2 DEF Numbers
    <3>2. ~(j[1] = i[1] /\ r \in P(i).dst)
      BY <1>3, <2>2, <3>1
    <3>3. pending'[j[1]][r] = pending[j[1]][r]
      BY <2>0, <3>2 DEF RegsFollow
    <3>4. pending[j[1]][r] = OutOf(j)
      BY <1>7, <3>1 DEF RegInv, PendingIs
    <3>. QED
      BY <1>2, <2>2, <3>3, <3>4
  <2>. QED
    BY <2>1, <2>2
<1>8. ASSUME NEW w \in Warp, NEW r \in Reg,
             \A j \in Inst : j[1] = w /\ Books(j) /\ r \in P(j).dst => OutOf(j)' = 0
      PROVE  pending'[w][r] = 0
  <2>1. CASE w = i[1] /\ r \in P(i).dst /\ Books(i)
    BY <1>8, <2>1 DEF RegsFollow
  <2>2. CASE ~(w = i[1] /\ r \in P(i).dst /\ Books(i))
    <3>1. pending'[w][r] = pending[w][r]
      BY <2>2 DEF RegsFollow
    <3>2. \A j \in Inst : j[1] = w /\ Books(j) /\ r \in P(j).dst => OutOf(j) = 0
      BY <1>2, <1>8, <2>2
    <3>. QED
      BY <3>1, <3>2 DEF RegInv, PendingIs
  <2>. QED
    BY <2>1, <2>2
<1>9. PendingIs'
  BY <1>0, <1>7, <1>8 DEF PendingIs
<1>. QED
  BY <1>4, <1>6, <1>9 DEF RegInv

-----------------------------------------------------------------------------
(* So do the counters of its warp. *)
Here(i) == i \in collected \/ InUnit(i)

CountsFollow(i) ==
  \A v \in Warp :
    /\ stores'[v] = stores[v]
         + (IF v = i[1] /\ P(i).op = "store" THEN InFlight(i)' - InFlight(i) ELSE 0)
    /\ inPipe'[v] = inPipe[v]
         + (IF v = i[1] THEN One(Here(i)') - One(Here(i)) ELSE 0)
    /\ atomics'[v] = atomics[v]
         + (IF v = i[1] /\ P(i).op = "atomic" THEN AtomicsOut(i)' - AtomicsOut(i) ELSE 0)

LEMMA CountsStep ==
  ASSUME prog' = prog, Typed, Numbers, Numbers', Counted, NEW i \in Inst,
         OthersSame(i), CountsFollow(i)
  PROVE  Counted' /\ \A v \in Warp : stores'[v] \in Nat /\ inPipe'[v] \in Nat /\ atomics'[v] \in Nat
<1>0. Inst' = Inst /\ \A j : P(j)' = P(j)
  BY Fixed
<1>1. \A j \in Inst : j # i => InFlight(j)' = InFlight(j) /\ AtomicsOut(j)' = AtomicsOut(j)
                               /\ (Here(j)' <=> Here(j))
  BY SameMore DEF OthersSame, Same, Here
<1>2. \A S \in SUBSET Inst : IsFiniteSet(S)
  BY InstFinite DEF Typed
<1>3. \A j \in Inst : InFlight(j) \in Nat /\ InFlight(j)' \in Nat
                      /\ AtomicsOut(j) \in Nat /\ AtomicsOut(j)' \in Nat
  BY <1>0 DEF Numbers
<1> SUFFICES ASSUME NEW v \in Warp
             PROVE  /\ stores'[v] \in Nat /\ inPipe'[v] \in Nat /\ atomics'[v] \in Nat
                    /\ stores'[v] = Total([j \in Inst |-> InFlight(j)'],
                                          {j \in Inst : j[1] = v /\ P(j).op = "store"})
                    /\ inPipe'[v] = Cardinality({j \in Inst : j[1] = v /\ Here(j)'})
                    /\ atomics'[v] = Total([j \in Inst |-> AtomicsOut(j)'],
                                           {j \in Inst : j[1] = v /\ P(j).op = "atomic"})
  <2> SUFFICES ASSUME NEW v \in Warp
               PROVE  /\ stores'[v] = Total([j \in Inst' |-> InFlight(j)'],
                                            {j \in {k \in Inst' : k[1] = v} : P(j)'.op = "store"})
                      /\ inPipe'[v] = Cardinality({j \in {k \in Inst' : k[1] = v} : j \in collected' \/ InUnit(j)'})
                      /\ atomics'[v] = Total([j \in Inst' |-> AtomicsOut(j)'],
                                             {j \in {k \in Inst' : k[1] = v} : P(j)'.op = "atomic"})
    BY DEF Counted
  <2>1. /\ {j \in {k \in Inst' : k[1] = v} : P(j)'.op = "store"}
             = {j \in Inst : j[1] = v /\ P(j).op = "store"}
        /\ {j \in {k \in Inst' : k[1] = v} : P(j)'.op = "atomic"}
             = {j \in Inst : j[1] = v /\ P(j).op = "atomic"}
    BY <1>0
  <2>2. {j \in {k \in Inst' : k[1] = v} : j \in collected' \/ InUnit(j)'} = {j \in Inst : j[1] = v /\ Here(j)'}
    BY <1>0 DEF Here
  <2>3. /\ [j \in Inst' |-> InFlight(j)'] = [j \in Inst |-> InFlight(j)']
        /\ [j \in Inst' |-> AtomicsOut(j)'] = [j \in Inst |-> AtomicsOut(j)']
    BY <1>0
  <2>. QED
    BY <2>1, <2>2, <2>3
<1>4. stores'[v] \in Nat /\ stores'[v] = Total([j \in Inst |-> InFlight(j)'],
                                               {j \in Inst : j[1] = v /\ P(j).op = "store"})
  <2> DEFINE S == {j \in Inst : j[1] = v /\ P(j).op = "store"}
             f == [j \in Inst |-> InFlight(j)]
             g == [j \in Inst |-> InFlight(j)']
  <2>1. IsFiniteSet(S)
    BY <1>2
  <2>2. (\A x \in S : f[x] \in Nat /\ g[x] \in Nat) /\ \A x \in S : x # i => f[x] = g[x]
    BY <1>1, <1>3
  <2>3. stores[v] = Total(f, S)
    <3>1. S = {j \in {k \in Inst : k[1] = v} : P(j).op = "store"}
      OBVIOUS
    <3>. QED
      BY <3>1 DEF Counted
  <2>4. i \in S <=> v = i[1] /\ P(i).op = "store"
    OBVIOUS
  <2>5. f[i] = InFlight(i) /\ g[i] = InFlight(i)'
    OBVIOUS
  <2> HIDE DEF S, f, g
  <2>6. Total(f, S) \in Nat /\ Total(g, S) \in Nat
        /\ Total(g, S) = Total(f, S) + (IF i \in S THEN g[i] - f[i] ELSE 0)
    BY <2>1, <2>2, SumStep
  <2>7. stores'[v] = Total(g, S)
    BY <2>3, <2>4, <2>5, <2>6 DEF CountsFollow
  <2>. QED
    BY <2>6, <2>7 DEF g, S
<1>5. atomics'[v] \in Nat /\ atomics'[v] = Total([j \in Inst |-> AtomicsOut(j)'],
                                                 {j \in Inst : j[1] = v /\ P(j).op = "atomic"})
  <2> DEFINE S == {j \in Inst : j[1] = v /\ P(j).op = "atomic"}
             f == [j \in Inst |-> AtomicsOut(j)]
             g == [j \in Inst |-> AtomicsOut(j)']
  <2>1. IsFiniteSet(S)
    BY <1>2
  <2>2. (\A x \in S : f[x] \in Nat /\ g[x] \in Nat) /\ \A x \in S : x # i => f[x] = g[x]
    BY <1>1, <1>3
  <2>3. atomics[v] = Total(f, S)
    <3>1. S = {j \in {k \in Inst : k[1] = v} : P(j).op = "atomic"}
      OBVIOUS
    <3>. QED
      BY <3>1 DEF Counted
  <2>4. i \in S <=> v = i[1] /\ P(i).op = "atomic"
    OBVIOUS
  <2>5. f[i] = AtomicsOut(i) /\ g[i] = AtomicsOut(i)'
    OBVIOUS
  <2> HIDE DEF S, f, g
  <2>6. Total(f, S) \in Nat /\ Total(g, S) \in Nat
        /\ Total(g, S) = Total(f, S) + (IF i \in S THEN g[i] - f[i] ELSE 0)
    BY <2>1, <2>2, SumStep
  <2>7. atomics'[v] = Total(g, S)
    BY <2>3, <2>4, <2>5, <2>6 DEF CountsFollow
  <2>. QED
    BY <2>6, <2>7 DEF g, S
<1>6. inPipe'[v] \in Nat /\ inPipe'[v] = Cardinality({j \in Inst : j[1] = v /\ Here(j)'})
  <2> DEFINE S == {j \in Inst : j[1] = v}
             T == {j \in Inst : j[1] = v /\ Here(j)}
             U == {j \in Inst : j[1] = v /\ Here(j)'}
  <2>1. IsFiniteSet(S) /\ T \subseteq S /\ U \subseteq S
    BY <1>2
  <2>2. \A x \in S : x # i => (x \in T <=> x \in U)
    BY <1>1
  <2>3. inPipe[v] = Cardinality(T)
    <3>1. T = {j \in {k \in Inst : k[1] = v} : j \in collected \/ InUnit(j)}
      BY DEF Here
    <3>. QED
      BY <3>1 DEF Counted
  <2>4. (i \in T <=> v = i[1] /\ Here(i)) /\ (i \in U <=> v = i[1] /\ Here(i)')
    OBVIOUS
  <2> HIDE DEF S, T, U
  <2>5. /\ Cardinality(T) \in Nat /\ Cardinality(U) \in Nat
        /\ Cardinality(U) = Cardinality(T) + (IF i \in U THEN 1 ELSE 0) - (IF i \in T THEN 1 ELSE 0)
    BY <2>1, <2>2, CountStep
  <2>6. inPipe'[v] = Cardinality(U)
    BY <2>3, <2>4, <2>5 DEF CountsFollow, One
  <2>. QED
    BY <2>5, <2>6 DEF U
<1>. QED
  BY <1>4, <1>5, <1>6

LEMMA CleanStep ==
  ASSUME prog' = prog, Numbers, Numbers', RetiredIsClean, retired' = retired, NEW i \in Inst,
         OthersSame(i), i[1] \notin retired \/ ~Live(i)'
  PROVE  RetiredIsClean'
<1>0. Inst' = Inst /\ \A j : P(j)' = P(j)
  BY Fixed
<1> SUFFICES ASSUME NEW j \in Inst, j[1] \in retired
             PROVE  /\ j \notin collected' /\ ~InUnit(j)'
                    /\ InFlight(j)' = 0 \/ (P(j).dst = {} /\ IsBack(j)' /\ InFlight(j)' = 1)
  BY <1>0 DEF RetiredIsClean, IsBack
<1>1. CASE j = i
  <2>1. ~Live(i)' /\ InFlight(i)' \in Nat
    BY <1>0, <1>1 DEF Numbers
  <2>. QED
    BY <1>1, <2>1 DEF Live
<1>2. CASE j # i
  <2>1. Same(j)
    BY <1>2 DEF OthersSame
  <2>2. InFlight(j)' = InFlight(j) /\ (InUnit(j)' <=> InUnit(j)) /\ (IsBack(j)' <=> IsBack(j))
        /\ (j \in collected' <=> j \in collected)
    BY <2>1, SameMore DEF Same
  <2>3. /\ j \notin collected /\ ~InUnit(j)
        /\ InFlight(j) = 0 \/ (P(j).dst = {} /\ IsBack(j) /\ InFlight(j) = 1)
    BY DEF RetiredIsClean, IsBack
  <2>. QED
    BY <2>2, <2>3
<1>. QED
  BY <1>1, <1>2

-----------------------------------------------------------------------------
(* What a step that moves one instruction has to show for the invariant,   *)
CountsAre ==
  /\ pending' \in [Warp -> [Reg -> Int]]
  /\ stores' \in [Warp -> Int] /\ atomics' \in [Warp -> Int] /\ inPipe' \in [Warp -> Int]

MovesOne(i) ==
  /\ Onward /\ Typed' /\ exited' = exited /\ retired' = retired
  /\ OthersSame(i) /\ PlaceOK(i)' /\ RegsFollow(i) /\ CountsFollow(i) /\ CountsAre
  /\ Live(i) \/ (Live(i)' /\ P(i).dst \cap reserved[i[1]] = {})
  /\ i[1] \notin retired \/ ~Live(i)'
  /\ \A v \in exited : atomics'[v] <= atomics[v]
  /\ PipeApart' /\ ReadyOK'

LEMMA Moved == ASSUME LdstInv, NEW i \in Inst, MovesOne(i) PROVE LdstInv'
<1>1. Typed /\ Numbers /\ Typed' /\ Numbers' /\ prog' = prog
  BY NumbersAre, NumbersNext DEF LdstInv, MovesOne, Onward
<1>2. Inst' = Inst
  BY <1>1, Fixed
<1>3. AllPlaced'
  <2> SUFFICES ASSUME NEW j \in Inst PROVE PlaceOK(j)'
    BY <1>2 DEF AllPlaced
  <2>1. CASE j = i
    BY <2>1 DEF MovesOne
  <2>2. CASE j # i
    <3>1. Same(j) /\ PlaceOK(j) /\ Onward
      BY <2>2 DEF MovesOne, OthersSame, LdstInv, AllPlaced
    <3>. QED
      BY <1>1, <3>1, PlaceKept
  <2>. QED
    BY <2>1, <2>2
<1>4. RegInv'
  BY <1>1, RegsStep DEF LdstInv, MovesOne
<1>5. Counted' /\ \A v \in Warp : stores'[v] \in Nat /\ inPipe'[v] \in Nat /\ atomics'[v] \in Nat
  BY <1>1, CountsStep DEF LdstInv, MovesOne
<1>6. RetiredIsClean'
  BY <1>1, CleanStep DEF LdstInv, MovesOne
<1>7. TypedCounts'
  <2>1. ASSUME NEW v \in Warp, NEW r \in Reg PROVE pending'[v][r] \in Nat
    <3>1. pending[v][r] \in Nat /\ OutOf(i)' \in Nat
      BY <1>1, <1>2 DEF LdstInv, TypedCounts, Numbers
    <3>. QED
      BY <3>1 DEF MovesOne, RegsFollow
  <2>2. pending' \in [Warp -> [Reg -> Nat]]
    BY <2>1 DEF MovesOne, CountsAre
  <2>3. stores' \in [Warp -> Nat] /\ atomics' \in [Warp -> Nat] /\ inPipe' \in [Warp -> Nat]
    BY <1>5 DEF MovesOne, CountsAre
  <2>. QED
    BY <2>2, <2>3 DEF TypedCounts
<1>8. ExitedQuiet'
  <2> SUFFICES ASSUME NEW w \in exited PROVE pc'[w] > Len(prog[w]) /\ atomics'[w] = 0
    BY <1>1 DEF ExitedQuiet, MovesOne
  <2>1. w \in Warp /\ pc[w] > Len(prog[w]) /\ atomics[w] = 0 /\ prog[w] \in Seq(Instruction)
    BY <1>1, LdstAssumption DEF LdstInv, ExitedQuiet, Typed
  <2>2. atomics'[w] <= atomics[w] /\ atomics'[w] \in Nat
    BY <1>5, <2>1 DEF MovesOne
  <2>3. pc'[w] >= pc[w] /\ pc[w] \in Nat /\ pc'[w] \in Nat /\ Len(prog[w]) \in Nat
    BY <2>1, LenProperties DEF MovesOne, Onward
  <2>. QED
    BY <2>1, <2>2, <2>3
<1>. QED
  BY <1>1, <1>3, <1>4, <1>5, <1>6, <1>7, <1>8 DEF LdstInv, MovesOne

(* and one that moves none.                                                *)
LEMMA NoneMoved ==
  ASSUME LdstInv, Onward, Typed', \A j \in Inst : Same(j), UNCHANGED counts
  PROVE  AllPlaced' /\ RegInv' /\ Counted' /\ TypedCounts'
         /\ (retired' = retired => RetiredIsClean')
<1>1. Typed /\ Numbers /\ Numbers' /\ prog' = prog
  BY NumbersAre, NumbersNext DEF LdstInv, Onward
<1>2. Inst' = Inst /\ \A j : P(j)' = P(j) /\ (Books(j)' <=> Books(j))
  BY <1>1, Fixed
<1>3. \A j \in Inst : /\ InFlight(j)' = InFlight(j) /\ OutOf(j)' = OutOf(j) /\ AtomicsOut(j)' = AtomicsOut(j)
                      /\ (InUnit(j)' <=> InUnit(j)) /\ (Live(j)' <=> Live(j))
                      /\ (j \in collected' <=> j \in collected) /\ (IsBack(j)' <=> IsBack(j))
  BY <1>1, SameMore DEF Same
<1>4. AllPlaced'
  BY <1>1, <1>2, PlaceKept DEF LdstInv, AllPlaced
<1>5. RegInv'
  <2>1. reserved' = reserved /\ pending' = pending
    BY DEF counts
  <2>2. OneWriter'
    BY <1>2, <1>3 DEF LdstInv, RegInv, OneWriter
  <2>3. PendingIs'
    BY <1>2, <1>3, <2>1 DEF LdstInv, RegInv, PendingIs
  <2>4. ReleasedWhenBack'
    <3> SUFFICES ASSUME NEW w \in Warp, NEW r \in Reg
                 PROVE  r \in reserved[w] <=>
                          \E j \in Inst : j[1] = w /\ r \in P(j).dst /\ Live(j)'
      BY <1>2, <2>1 DEF ReleasedWhenBack, Live
    <3>1. r \in reserved[w] <=> \E j \in Inst : j[1] = w /\ r \in P(j).dst /\ Live(j)
      BY DEF LdstInv, RegInv, ReleasedWhenBack, Live
    <3>. QED
      BY <1>3, <3>1
  <2>. QED
    BY <2>2, <2>3, <2>4 DEF RegInv
<1>6. Counted'
  <2> SUFFICES ASSUME NEW v \in Warp
               PROVE  /\ stores'[v] = Total([j \in Inst' |-> InFlight(j)'],
                                            {j \in {k \in Inst' : k[1] = v} : P(j)'.op = "store"})
                      /\ inPipe'[v] = Cardinality({j \in {k \in Inst' : k[1] = v} : j \in collected' \/ InUnit(j)'})
                      /\ atomics'[v] = Total([j \in Inst' |-> AtomicsOut(j)'],
                                             {j \in {k \in Inst' : k[1] = v} : P(j)'.op = "atomic"})
    BY DEF Counted
  <2>1. /\ {j \in {k \in Inst' : k[1] = v} : P(j)'.op = "store"}
             = {j \in {k \in Inst : k[1] = v} : P(j).op = "store"}
        /\ {j \in {k \in Inst' : k[1] = v} : P(j)'.op = "atomic"}
             = {j \in {k \in Inst : k[1] = v} : P(j).op = "atomic"}
        /\ {j \in {k \in Inst' : k[1] = v} : j \in collected' \/ InUnit(j)'}
             = {j \in {k \in Inst : k[1] = v} : j \in collected \/ InUnit(j)}
    BY <1>2, <1>3
  <2>2. /\ [j \in Inst' |-> InFlight(j)'] = [j \in Inst |-> InFlight(j)]
        /\ [j \in Inst' |-> AtomicsOut(j)'] = [j \in Inst |-> AtomicsOut(j)]
    BY <1>2, <1>3
  <2>3. stores' = stores /\ inPipe' = inPipe /\ atomics' = atomics
    BY DEF counts
  <2>4. /\ stores[v] = Total([j \in Inst |-> InFlight(j)],
                             {j \in {k \in Inst : k[1] = v} : P(j).op = "store"})
        /\ inPipe[v] = Cardinality({j \in {k \in Inst : k[1] = v} : j \in collected \/ InUnit(j)})
        /\ atomics[v] = Total([j \in Inst |-> AtomicsOut(j)],
                              {j \in {k \in Inst : k[1] = v} : P(j).op = "atomic"})
    BY DEF LdstInv, Counted
  <2>. QED
    BY <2>1, <2>2, <2>3, <2>4
<1>7. TypedCounts'
  BY DEF LdstInv, TypedCounts, counts
<1>8. ASSUME retired' = retired PROVE RetiredIsClean'
  BY <1>2, <1>3, <1>8 DEF LdstInv, RetiredIsClean, IsBack
<1>. QED
  BY <1>4, <1>5, <1>6, <1>7, <1>8

(* A step that moves none and lets the warps be.                           *)
MovesNone ==
  /\ Onward /\ Typed' /\ exited' = exited /\ retired' = retired
  /\ \A j \in Inst : Same(j)
  /\ UNCHANGED counts
  /\ PipeApart' /\ ReadyOK'

LEMMA Still == ASSUME LdstInv, MovesNone PROVE LdstInv'
<1>1. AllPlaced' /\ RegInv' /\ Counted' /\ TypedCounts' /\ RetiredIsClean'
  BY NoneMoved DEF MovesNone
<1>2. ExitedQuiet'
  <2> SUFFICES ASSUME NEW w \in exited PROVE pc'[w] > Len(prog[w]) /\ atomics[w] = 0
    BY DEF ExitedQuiet, MovesNone, Onward, counts
  <2>1. w \in Warp /\ pc[w] > Len(prog[w]) /\ atomics[w] = 0 /\ prog[w] \in Seq(Instruction)
    BY LdstAssumption DEF LdstInv, ExitedQuiet, Typed
  <2>2. pc'[w] >= pc[w] /\ pc[w] \in Nat /\ pc'[w] \in Nat /\ Len(prog[w]) \in Nat
    BY <2>1, LenProperties DEF MovesNone, Onward
  <2>. QED
    BY <2>1, <2>2
<1>. QED
  BY <1>1, <1>2 DEF LdstInv, MovesNone

-----------------------------------------------------------------------------
(* What lies where a step does not reach. *)
LEMMA Frame ==
  /\ UNCHANGED cacheVars => \A j : Away(j)' = Away(j) /\ (AtNext(j)' <=> AtNext(j))
  /\ UNCHANGED dispatch => \A j : (AtReg(j)' <=> AtReg(j)) /\ Left(j)' = Left(j)
  /\ UNCHANGED pipe => \A j : InPipe(j)' <=> InPipe(j)
  /\ UNCHANGED nextWb => \A j : IsBack(j)' <=> IsBack(j)
<1>1. ASSUME UNCHANGED cacheVars, NEW j PROVE Away(j)' = Away(j) /\ (AtNext(j)' <=> AtNext(j))
  <2>1. mem' = mem /\ fifo' = fifo /\ ready' = ready /\ nextGlobal' = nextGlobal
    BY <1>1 DEF cacheVars
  <2>. QED
    BY <2>1 DEF Away, AtNext, InSeq
<1>2. ASSUME UNCHANGED dispatch, NEW j PROVE (AtReg(j)' <=> AtReg(j)) /\ Left(j)' = Left(j)
  BY <1>2 DEF AtReg, Left
<1>3. ASSUME UNCHANGED pipe, NEW j PROVE InPipe(j)' <=> InPipe(j)
  BY <1>3 DEF InPipe
<1>4. ASSUME UNCHANGED nextWb, NEW j PROVE IsBack(j)' <=> IsBack(j)
  BY <1>4 DEF IsBack
<1>. QED
  BY <1>1, <1>2, <1>3, <1>4

(* An instruction that the unit still has to do with is of a living warp.  *)
LEMMA NotRetired ==
  ASSUME LdstInv, NEW i \in Inst, i \in collected \/ AtReg(i) \/ InPipe(i) \/ Away(i) > 0
  PROVE  i[1] \notin retired
<1>1. Numbers
  BY NumbersAre DEF LdstInv
<1> SUFFICES ASSUME i[1] \in retired PROVE FALSE
  OBVIOUS
<1>2. i \notin collected /\ ~AtReg(i) /\ ~InPipe(i)
  BY <1>1 DEF LdstInv, RetiredIsClean, Numbers
<1>3. InFlight(i) = 0 \/ (IsBack(i) /\ InFlight(i) = 1)
  BY DEF LdstInv, RetiredIsClean, IsBack
<1>4. InFlight(i) = Away(i) + One(IsBack(i)) /\ Away(i) \in Nat
  BY <1>1 DEF Numbers
<1>5. Away(i) = 0
  BY <1>3, <1>4 DEF One
<1>. QED
  BY <1>2, <1>5

(* The registers of an instruction that stays on its way, or has none.     *)
LEMMA RegsStay ==
  ASSUME LdstInv, NEW i \in Inst, Live(i), reserved' = reserved, pending' = pending,
         P(i).dst = {} \/ (Live(i)' /\ (Books(i) => OutOf(i)' = OutOf(i)))
  PROVE  RegsFollow(i)
<1>1. Numbers /\ Typed /\ RegInv
  BY NumbersAre DEF LdstInv
<1>2. CASE P(i).dst = {}
  BY <1>2 DEF RegsFollow
<1>3. CASE Live(i)' /\ (Books(i) => OutOf(i)' = OutOf(i))
  <2>1. \A r \in P(i).dst : r \in reserved[i[1]] /\ (Books(i) => pending[i[1]][r] = OutOf(i))
    BY <1>1, HeldRegs
  <2>. QED
    BY <1>3, <2>1 DEF RegsFollow
<1>. QED
  BY <1>2, <1>3

LEMMA CountsStay ==
  ASSUME LdstInv, stores' = stores, atomics' = atomics, inPipe' = inPipe, NEW i \in Inst,
         P(i).op = "store" => InFlight(i)' = InFlight(i) /\ InFlight(i) \in Int,
         P(i).op = "atomic" => AtomicsOut(i)' = AtomicsOut(i) /\ AtomicsOut(i) \in Int,
         Here(i)' <=> Here(i)
  PROVE  CountsFollow(i)
<1>1. \A v \in Warp : stores[v] \in Int /\ atomics[v] \in Int /\ inPipe[v] \in Int
  BY DEF LdstInv, TypedCounts
<1>. QED
  BY <1>1 DEF CountsFollow, One

-----------------------------------------------------------------------------
(* The warps. *)
LEMMA IssueKeeps == ASSUME LdstInv, NEW w \in Warp, Issue(w) PROVE LdstInv'
<1> DEFINE i == <<w, pc[w]>>
<1>1. Typed /\ Numbers /\ TypedCounts /\ prog' = prog
  BY NumbersAre DEF LdstInv, Issue
<1>2. Inst' = Inst /\ \A j : P(j)' = P(j) /\ (Books(j)' <=> Books(j)) /\ (is_load(j)' <=> is_load(j))
  BY <1>1, Fixed
<1>3. i \in Inst /\ i[1] = w /\ i[2] = pc[w]
  <2>1. prog[w] \in Seq(Instruction) /\ pc[w] \in Nat \ {0} /\ pc[w] <= Len(prog[w])
    BY <1>1, LdstAssumption DEF Typed, Issue
  <2>2. pc[w] \in DOMAIN prog[w]
    BY <2>1, LenProperties
  <2>. QED
    BY <2>2 DEF Inst
<1>4. PICK k \in Inst : k = i
  BY <1>3
<1>5. k[1] = w /\ k[2] = pc[w] /\ pc[w] \in Nat
  BY <1>1, <1>3, <1>4 DEF Typed
<1>6. /\ (P(k).dst \union P(k).src) \cap reserved[w] = {}
      /\ collected' = collected \union {k}
      /\ reserved' = [reserved EXCEPT ![w] = @ \union P(k).dst]
      /\ atomics' = [atomics EXCEPT ![w] = @ + (IF P(k).op = "atomic" THEN P(k).n ELSE 0)]
      /\ pc' = [pc EXCEPT ![w] = @ + 1]
      /\ inPipe' = [inPipe EXCEPT ![w] = @ + 1]
      /\ UNCHANGED <<exited, retired, dispatch, pipe, cacheVars, wbVars, pending, stores, piece>>
  BY <1>4 DEF Issue
<1> HIDE DEF i
<1>7. ~Live(k) /\ PlaceOK(k)
  BY <1>5 DEF LdstInv, AllPlaced, PlaceOK
<1>8. Onward
  BY <1>1, <1>6 DEF Onward, Typed
<1>9. Typed'
  <2>1. collected' \subseteq Inst' /\ reserved' \in [Warp -> SUBSET Reg] /\ pc' \in [Warp -> Nat \ {0}]
    <3>1. P(k).dst \subseteq Reg
      BY <1>1, FieldsOf DEF Typed
    <3>. QED
      BY <1>1, <1>2, <1>6, <3>1 DEF Typed
  <2>. QED
    BY <1>1, <1>2, <1>6, <2>1 DEF Typed, cacheVars, wbVars
<1>10. Numbers'
  BY <1>9, NumbersNext
<1>11. \A j : /\ Away(j)' = Away(j) /\ (AtNext(j)' <=> AtNext(j)) /\ (AtReg(j)' <=> AtReg(j))
              /\ Left(j)' = Left(j) /\ (InPipe(j)' <=> InPipe(j)) /\ (IsBack(j)' <=> IsBack(j))
  BY <1>6, Frame DEF wbVars
<1>12. OthersSame(k)
  BY <1>6, <1>11 DEF OthersSame, Same
<1>13. /\ ~AtReg(k) /\ ~InPipe(k) /\ InFlight(k) = 0 /\ Left(k) = 0 /\ OutOf(k) = 0
       /\ k \notin collected /\ ~InUnit(k) /\ Away(k) = 0 /\ ~IsBack(k) /\ ~AtNext(k)
  BY <1>1, <1>7 DEF Numbers, One
<1>14. InFlight(k)' = Away(k)' + One(IsBack(k))' /\ OutOf(k)' = InFlight(k)' + Left(k)'
       /\ (Live(k)' <=> k \in collected' \/ AtReg(k)' \/ InPipe(k)' \/ InFlight(k)' > 0)
       /\ (InUnit(k)' <=> AtReg(k)' \/ InPipe(k)')
  BY <1>2, <1>10 DEF Numbers
<1>15. InFlight(k)' = 0 /\ OutOf(k)' = 0 /\ Live(k)' /\ k \in collected' /\ ~InUnit(k)'
  BY <1>6, <1>11, <1>13, <1>14 DEF One
<1>16. PlaceOK(k)'
  BY <1>2, <1>5, <1>6, <1>1, <1>11, <1>13, <1>15 DEF PlaceOK, Typed
<1>17. RegsFollow(k)
  <2> SUFFICES ASSUME NEW v \in Warp, NEW r \in Reg
               PROVE  /\ r \in reserved'[v] <=> IF v = w /\ r \in P(k).dst THEN TRUE ELSE r \in reserved[v]
                      /\ pending[v][r] = IF v = w /\ r \in P(k).dst /\ Books(k) THEN 0 ELSE pending[v][r]
    BY <1>5, <1>6, <1>15 DEF RegsFollow
  <2>1. r \in reserved'[v] <=> IF v = w /\ r \in P(k).dst THEN TRUE ELSE r \in reserved[v]
    BY <1>1, <1>6 DEF Typed
  <2>2. v = w /\ r \in P(k).dst => pending[v][r] = 0
    BY <1>1, <1>6, FreeRegs DEF LdstInv
  <2>. QED
    BY <2>1, <2>2
<1>18. CountsFollow(k) /\ CountsAre
  <2>1. AtomicsOut(k) = 0
    BY <1>1, <1>13 DEF Numbers
  <2>2. AtomicsOut(k)' = P(k).n /\ P(k).n \in Nat
    BY <1>1, <1>2, <1>10, <1>15, FieldsOf DEF Numbers, Typed
  <2>3. Here(k)' /\ ~Here(k)
    BY <1>13, <1>15 DEF Here
  <2>. QED
    BY <1>1, <1>5, <1>6, <1>13, <1>15, <2>1, <2>2, <2>3 DEF CountsFollow, CountsAre, One, TypedCounts
<1>19. w \notin retired /\ w \notin exited
  BY <1>1 DEF Issue, waiting, Typed
<1>20. \A v \in exited : atomics'[v] <= atomics[v]
  BY <1>1, <1>6, <1>19 DEF Typed, TypedCounts
<1>21. PipeApart' /\ ReadyOK'
  BY <1>2, <1>6 DEF LdstInv, PipeApart, ReadyOK, cacheVars
<1>. QED
  BY <1>5, <1>6, <1>8, <1>9, <1>12, <1>15, <1>16, <1>17, <1>18, <1>19, <1>20, <1>21, Moved DEF MovesOne

LEMMA ExitKeeps == ASSUME LdstInv, NEW w \in Warp, Exit(w) PROVE LdstInv'
<1>1. Typed /\ TypedCounts /\ prog' = prog /\ exited' = exited \union {w}
      /\ UNCHANGED <<pc, retired, collected, dispatch, pipe, cacheVars, wbVars, counts, piece>>
  BY DEF LdstInv, Exit
<1>2. Inst' = Inst /\ \A j : P(j)' = P(j) /\ (is_load(j)' <=> is_load(j))
  BY <1>1, Fixed
<1>3. Onward
  BY <1>1 DEF Onward, Typed
<1>4. Typed'
  BY <1>1, <1>2 DEF Typed, cacheVars, wbVars, counts
<1>5. \A j \in Inst : Same(j)
  BY <1>1, Frame DEF Same, wbVars
<1>6. AllPlaced' /\ RegInv' /\ Counted' /\ TypedCounts' /\ RetiredIsClean'
  BY <1>1, <1>3, <1>4, <1>5, NoneMoved
<1>7. ExitedQuiet'
  <2>1. atomics[w] = 0 /\ pc[w] > Len(prog[w])
    BY <1>1 DEF Exit, waiting, TypedCounts
  <2>. QED
    BY <1>1, <2>1 DEF LdstInv, ExitedQuiet, counts
<1>8. PipeApart' /\ ReadyOK'
  BY <1>1, <1>2 DEF LdstInv, PipeApart, ReadyOK, cacheVars
<1>. QED
  BY <1>4, <1>6, <1>7, <1>8 DEF LdstInv

(* A sum that is 0 has nothing to count. *)
LEMMA NothingOut ==
  ASSUME Numbers, prog \in Programs, NEW S \in SUBSET Inst, NEW f, \A j \in Inst : f[j] \in Nat,
         Total(f, S) = 0, NEW i \in S
  PROVE  f[i] = 0
<1>1. IsFiniteSet(S)
  BY InstFinite
<1>2. Total(f, S \ {i}) \in Nat /\ Total(f, S) = Total(f, S \ {i}) + f[i]
  BY <1>1, TotalSplit
<1>. QED
  BY <1>2

LEMMA DoneIsClean ==
  ASSUME LdstInv, NEW w \in Warp, HardwareDone(w), NEW i \in Inst, i[1] = w
  PROVE  /\ i \notin collected /\ ~InUnit(i)
         /\ InFlight(i) = 0 \/ (P(i).dst = {} /\ IsBack(i) /\ InFlight(i) = 1)
<1>1. Typed /\ Numbers /\ RegInv /\ Counted /\ PlaceOK(i)
  BY NumbersAre DEF LdstInv, AllPlaced
<1>2. w \in exited /\ stores[w] = 0 /\ inPipe[w] = 0 /\ reserved[w] = {} /\ atomics[w] = 0
  BY DEF HardwareDone, LdstInv, ExitedQuiet
<1>3. \A S \in SUBSET Inst : IsFiniteSet(S)
  BY <1>1, InstFinite DEF Typed
<1>4. i \notin collected /\ ~InUnit(i)
  <2> DEFINE H == {j \in {k \in Inst : k[1] = w} : j \in collected \/ InUnit(j)}
  <2>1. Cardinality(H) = 0
    BY <1>1, <1>2 DEF Counted
  <2>2. IsFiniteSet(H)
    BY <1>3
  <2> HIDE DEF H
  <2>3. H = {}
    BY <2>1, <2>2, FS_EmptySet
  <2>. QED
    BY <2>3 DEF H
<1>5. /\ InFlight(i) = Away(i) + One(IsBack(i)) /\ Away(i) \in Nat /\ Left(i) = 0
      /\ Live(i) <=> InFlight(i) > 0
  BY <1>1, <1>4 DEF Numbers
<1>6. ASSUME P(i).dst # {} PROVE InFlight(i) = 0
  <2>1. ~Live(i)
    BY <1>1, <1>2, <1>6, HeldRegs
  <2>. QED
    BY <1>1, <1>5, <2>1 DEF Numbers
<1>7. ASSUME P(i).op = "store" PROVE InFlight(i) = 0
  <2> DEFINE f == [j \in Inst |-> InFlight(j)]
             S == {j \in {k \in Inst : k[1] = w} : P(j).op = "store"}
  <2>1. Total(f, S) = 0
    BY <1>1, <1>2 DEF Counted
  <2>2. i \in S /\ S \in SUBSET Inst /\ f[i] = InFlight(i)
    BY <1>7
  <2>3. \A j \in Inst : f[j] \in Nat
    BY <1>1 DEF Numbers
  <2> HIDE DEF f, S
  <2>9. prog \in Programs
    BY <1>1 DEF Typed
  <2>4. f[i] = 0
    BY <1>1, <2>1, <2>2, <2>3, <2>9, NothingOut
  <2>. QED
    BY <2>2, <2>4
<1>8. ASSUME P(i).op = "atomic" PROVE Away(i) = 0
  <2> DEFINE f == [j \in Inst |-> AtomicsOut(j)]
             S == {j \in {k \in Inst : k[1] = w} : P(j).op = "atomic"}
  <2>1. Total(f, S) = 0
    BY <1>1, <1>2 DEF Counted
  <2>2. i \in S /\ S \in SUBSET Inst /\ f[i] = AtomicsOut(i)
    BY <1>8
  <2>3. \A j \in Inst : f[j] \in Nat
    BY <1>1 DEF Numbers
  <2> HIDE DEF f, S
  <2>9. prog \in Programs
    BY <1>1 DEF Typed
  <2>4. f[i] = 0
    BY <1>1, <2>1, <2>2, <2>3, <2>9, NothingOut
  <2>5. AtomicsOut(i) = 0
    BY <2>2, <2>4
  <2>6. CASE P(i).space = "shared"
    BY <1>1, <2>6 DEF PlaceOK
  <2>7. CASE P(i).space # "shared"
    BY <1>1, <1>4, <1>5, <2>5, <2>7 DEF Numbers
  <2>. QED
    BY <2>6, <2>7
<1>9. P(i).op = "membar" => InFlight(i) = 0
  <2>1. P(i).op = "membar" => ~is_load(i)
    BY <1>1, FieldsOf DEF Typed
  <2>. QED
    BY <1>1, <1>5, <2>1 DEF PlaceOK, One
<1>10. P(i).op = "load" => P(i).dst # {}
  BY <1>1, FieldsOf DEF Typed
<1>11. P(i).op \in {"load", "store", "atomic", "membar"}
  BY <1>1, FieldsOf DEF Typed
<1>12. Away(i) = 0 => InFlight(i) = 0 \/ (IsBack(i) /\ InFlight(i) = 1)
  BY <1>5 DEF One
<1>. QED
  BY <1>4, <1>6, <1>7, <1>8, <1>9, <1>10, <1>11, <1>12

LEMMA RetireKeeps == ASSUME LdstInv, NEW w \in Warp, Retire(w) PROVE LdstInv'
<1>1. Typed /\ TypedCounts /\ prog' = prog /\ retired' = retired \union {w} /\ w \in exited
      /\ UNCHANGED <<pc, exited, collected, dispatch, pipe, cacheVars, wbVars, counts, piece>>
  BY DEF LdstInv, Retire, HardwareDone
<1>2. Inst' = Inst /\ \A j : P(j)' = P(j) /\ (is_load(j)' <=> is_load(j))
  BY <1>1, Fixed
<1>3. Onward
  BY <1>1 DEF Onward, Typed
<1>4. Typed'
  BY <1>1, <1>2 DEF Typed, cacheVars, wbVars, counts
<1>5. \A j \in Inst : Same(j)
  BY <1>1, Frame DEF Same, wbVars
<1>6. AllPlaced' /\ RegInv' /\ Counted' /\ TypedCounts'
  BY <1>1, <1>3, <1>4, <1>5, NoneMoved
<1>7. ExitedQuiet'
  BY <1>1 DEF LdstInv, ExitedQuiet, counts
<1>8. PipeApart' /\ ReadyOK'
  BY <1>1, <1>2 DEF LdstInv, PipeApart, ReadyOK, cacheVars
<1>9. RetiredIsClean'
  <2> SUFFICES ASSUME NEW j \in Inst, j[1] \in retired \union {w}
               PROVE  /\ j \notin collected' /\ ~InUnit(j)'
                      /\ InFlight(j)' = 0 \/ (P(j).dst = {} /\ IsBack(j)' /\ InFlight(j)' = 1)
    BY <1>1, <1>2 DEF RetiredIsClean, IsBack
  <2>1. /\ j \notin collected /\ ~InUnit(j)
        /\ InFlight(j) = 0 \/ (P(j).dst = {} /\ IsBack(j) /\ InFlight(j) = 1)
    <3>1. CASE j[1] \in retired
      BY <3>1 DEF LdstInv, RetiredIsClean, IsBack
    <3>2. CASE j[1] = w
      BY <3>2, DoneIsClean DEF Retire
    <3>. QED
      BY <3>1, <3>2
  <2>2. Numbers /\ Numbers'
    BY <1>1, <1>4, NumbersAre, NumbersNext
  <2>3. InFlight(j)' = InFlight(j) /\ (InUnit(j)' <=> InUnit(j)) /\ Same(j)
    BY <1>1, <1>5, <2>2, SameMore
  <2>. QED
    BY <2>1, <2>3 DEF Same
<1>. QED
  BY <1>4, <1>6, <1>7, <1>8, <1>9 DEF LdstInv

(* The operand collector, and the memory. *)
LEMMA EnterKeeps == ASSUME LdstInv, NEW i \in Inst, Enter(i) PROVE LdstInv'
<1>1. Typed /\ Numbers /\ TypedCounts /\ prog' = prog /\ PlaceOK(i)
  BY NumbersAre DEF LdstInv, Enter, AllPlaced
<1>2. Inst' = Inst /\ \A j : P(j)' = P(j) /\ (Books(j)' <=> Books(j)) /\ (is_load(j)' <=> is_load(j))
  BY <1>1, Fixed
<1>3. /\ i \in collected /\ dispatch.inst = None /\ collected' = collected \ {i}
      /\ dispatch' = [inst |-> i, left |-> P(i).n]
      /\ pending' = [pending EXCEPT ![i[1]] = [r \in Reg |->
                      @[r] + IF is_load(i) /\ P(i).space # "shared" /\ r \in P(i).dst THEN P(i).n ELSE 0]]
      /\ UNCHANGED <<pc, exited, retired, pipe, cacheVars, wbVars, reserved, stores, atomics, inPipe, piece>>
  BY DEF Enter
<1>4. i[1] \in Warp /\ P(i).n \in Nat /\ P(i).dst \subseteq Reg /\ \A j \in Inst : j # None
  BY <1>1, InstIs, FieldsOf DEF Typed
<1>5. Onward
  BY <1>1, <1>3 DEF Onward, Typed
<1>6. Typed'
  <2>1. dispatch' \in [inst : Inst \union {None}, left : Nat] /\ collected' \subseteq Inst
    BY <1>1, <1>3, <1>4 DEF Typed
  <2>. QED
    BY <1>1, <1>2, <1>3, <2>1 DEF Typed, cacheVars, wbVars
<1>7. Numbers'
  BY <1>6, NumbersNext
<1>8. \A j : /\ Away(j)' = Away(j) /\ (AtNext(j)' <=> AtNext(j))
             /\ (InPipe(j)' <=> InPipe(j)) /\ (IsBack(j)' <=> IsBack(j))
  BY <1>3, Frame DEF wbVars
<1>9. \A j \in Inst : ~AtReg(j) /\ (AtReg(j)' <=> j = i) /\ Left(j) = 0
                      /\ Left(j)' = (IF j = i THEN P(i).n ELSE 0)
  BY <1>3, <1>4 DEF AtReg, Left
<1>10. OthersSame(i)
  BY <1>3, <1>8, <1>9 DEF OthersSame, Same
<1>11. /\ ~InPipe(i) /\ InFlight(i) = 0 /\ OutOf(i) = 0 /\ Live(i) /\ ~InUnit(i) /\ Away(i) = 0 /\ ~IsBack(i)
       /\ ~AtNext(i)
  BY <1>1, <1>3, <1>9 DEF Numbers, PlaceOK, One
<1>12. InFlight(i)' = Away(i)' + One(IsBack(i))' /\ OutOf(i)' = InFlight(i)' + Left(i)'
       /\ (Live(i)' <=> i \in collected' \/ AtReg(i)' \/ InPipe(i)' \/ InFlight(i)' > 0)
       /\ (InUnit(i)' <=> AtReg(i)' \/ InPipe(i)')
  BY <1>2, <1>7 DEF Numbers
<1>13. InFlight(i)' = 0 /\ OutOf(i)' = P(i).n /\ Live(i)' /\ i \notin collected' /\ InUnit(i)'
  BY <1>3, <1>4, <1>8, <1>9, <1>11, <1>12 DEF One
<1>14. PlaceOK(i)'
  <2>1. i[2] < pc'[i[1]]
    BY <1>1, <1>3, <1>11 DEF PlaceOK
  <2>. QED
    BY <1>2, <1>3, <1>4, <1>8, <1>9, <1>11, <1>13, <2>1 DEF PlaceOK
<1>15. RegsFollow(i)
  <2>1. \A r \in P(i).dst : r \in reserved[i[1]] /\ (Books(i) => pending[i[1]][r] = 0)
    BY <1>1, <1>11, HeldRegs DEF LdstInv
  <2> SUFFICES ASSUME NEW v \in Warp, NEW r \in Reg
               PROVE  /\ r \in reserved[v] <=> IF v = i[1] /\ r \in P(i).dst THEN TRUE ELSE r \in reserved[v]
                      /\ pending'[v][r] = IF v = i[1] /\ r \in P(i).dst /\ Books(i) THEN P(i).n ELSE pending[v][r]
    BY <1>3, <1>13 DEF RegsFollow
  <2>2. pending[v][r] \in Nat
    BY <1>1 DEF TypedCounts
  <2>3. pending'[v][r] = IF v = i[1] /\ r \in P(i).dst /\ Books(i)
                         THEN pending[v][r] + P(i).n ELSE pending[v][r]
    BY <1>1, <1>3, <1>4, <2>2 DEF Books, TypedCounts
  <2>. QED
    BY <1>4, <2>1, <2>2, <2>3
<1>16. AtomicsOut(i) = P(i).n /\ AtomicsOut(i)' = P(i).n
  <2>1. AtomicsOut(i) = P(i).n
    BY <1>1, <1>3 DEF Numbers
  <2>2. AtomicsOut(i)' = IF P(i).space = "shared" \/ i \in collected'
                         THEN IF i \in collected' \/ InUnit(i)' THEN P(i).n ELSE 0
                         ELSE Away(i)' + Left(i)'
    BY <1>2, <1>7 DEF Numbers
  <2>. QED
    BY <1>4, <1>8, <1>9, <1>11, <1>13, <2>1, <2>2
<1>17. CountsFollow(i)
  <2>1. Here(i)' /\ Here(i)
    BY <1>3, <1>13 DEF Here
  <2>. QED
    BY <1>3, <1>4, <1>11, <1>13, <1>16, <2>1, CountsStay
<1>18. CountsAre
  <2>1. pending' \in [Warp -> [Reg -> Int]]
    BY <1>1, <1>3, <1>4 DEF TypedCounts
  <2>. QED
    BY <1>1, <1>3, <2>1 DEF CountsAre, TypedCounts
<1>19. i[1] \notin retired
  BY <1>3, NotRetired
<1>20. \A v \in exited : atomics'[v] <= atomics[v]
  BY <1>1, <1>3 DEF Typed, TypedCounts
<1>21. PipeApart' /\ ReadyOK'
  BY <1>2, <1>3 DEF LdstInv, PipeApart, ReadyOK, cacheVars
<1>. QED
  BY <1>3, <1>5, <1>6, <1>10, <1>11, <1>14, <1>15, <1>17, <1>18, <1>19, <1>20, <1>21, Moved DEF MovesOne

LEMMA AnswerKeeps == ASSUME LdstInv, NEW i \in Inst, Answer(i) PROVE LdstInv'
<1>1. Typed /\ Numbers /\ prog' = prog
  BY NumbersAre DEF LdstInv, Answer, warpVars
<1>2. Inst' = Inst /\ \A j : P(j)' = P(j) /\ (is_load(j)' <=> is_load(j))
  BY <1>1, Fixed
<1>3. /\ mem[i] > 0 /\ Len(fifo) < ResponseSize /\ mem' = [mem EXCEPT ![i] = @ - 1]
      /\ fifo' = Append(fifo, i)
      /\ UNCHANGED <<warpVars, dispatch, pipe, ready, nextGlobal, wbVars, counts, piece>>
  BY DEF Answer
<1>4. Onward
  BY <1>1, <1>3 DEF Onward, Typed, warpVars
<1>5. Typed'
  <2>1. fifo' \in Seq(Inst) /\ Len(fifo') = Len(fifo) + 1
    BY <1>1, <1>3, AppendProperties DEF Typed
  <2>2. Len(fifo) \in Nat /\ ResponseSize \in Nat
    BY <1>1, LenProperties, LdstAssumption DEF Typed
  <2>3. Len(fifo') <= ResponseSize
    BY <1>3, <2>1, <2>2
  <2>4. mem' \in [Inst -> Nat]
    BY <1>1, <1>3 DEF Typed
  <2>. QED
    BY <1>1, <1>2, <1>3, <2>1, <2>3, <2>4 DEF Typed, warpVars, wbVars, counts
<1>6. Numbers'
  BY <1>5, NumbersNext
<1>7. \A j \in Inst : Away(j)' = Away(j) /\ (AtNext(j)' <=> AtNext(j))
  <2> SUFFICES ASSUME NEW j \in Inst PROVE Away(j)' = Away(j) /\ (AtNext(j)' <=> AtNext(j))
    OBVIOUS
  <2>9. fifo \in Seq(Inst)
    BY <1>1 DEF Typed
  <2>1. InSeq(fifo', j) = InSeq(fifo, j) + One(i = j) /\ InSeq(fifo, j) \in Nat
    <3>1. InSeq(Append(fifo, i), j) = InSeq(fifo, j) + One(i = j)
      BY <2>9, InSeqAppend
    <3>2. InSeq(fifo, j) \in Nat
      BY <2>9, InSeqNat
    <3>. QED
      BY <1>3, <3>1, <3>2
  <2>2. mem'[j] = mem[j] - One(i = j) /\ mem[j] \in Nat
    BY <1>1, <1>3 DEF Typed, One
  <2>3. One(i = j) \in {0, 1}
    BY DEF One
  <2>4. (AtNext(j)' <=> AtNext(j)) /\ ready' = ready /\ One(AtNext(j))' = One(AtNext(j))
    BY <1>3 DEF AtNext, One
  <2>5. ready.tex \in Seq(Inst) /\ ready.const \in Seq(Inst) /\ ready.L1D \in Seq(Inst)
    BY <1>1 DEF Typed, CacheName
  <2>6. /\ Away(j) = mem[j] + InSeq(fifo, j) + One(AtNext(j))
                       + InSeq(ready.tex, j) + InSeq(ready.const, j) + InSeq(ready.L1D, j)
        /\ Away(j)' = mem'[j] + InSeq(fifo', j) + One(AtNext(j))'
                       + InSeq(ready'.tex, j) + InSeq(ready'.const, j) + InSeq(ready'.L1D, j)
    BY <1>1, <1>2, <1>6 DEF Numbers
  <2>7. InSeq(ready.tex, j) \in Nat /\ InSeq(ready.const, j) \in Nat /\ InSeq(ready.L1D, j) \in Nat
    BY <2>5, InSeqNat
  <2>8. One(AtNext(j)) \in {0, 1}
    BY DEF One
  <2>. QED
    BY <2>1, <2>2, <2>3, <2>4, <2>6, <2>7, <2>8
<1>8. \A j \in Inst : Same(j)
  BY <1>3, <1>7, Frame DEF Same, wbVars, warpVars
<1>9. PipeApart' /\ ReadyOK'
  BY <1>2, <1>3 DEF LdstInv, PipeApart, ReadyOK
<1>. QED
  BY <1>3, <1>4, <1>5, <1>8, <1>9, Still DEF MovesNone, warpVars

-----------------------------------------------------------------------------
(* The writeback: what is pending of a register is what is out of the      *)
(* instruction, so that the register is free with the last of it.          *)
LEMMA WroteBackKeeps ==
  ASSUME LdstInv, WroteBack,
         UNCHANGED <<warpVars, cacheVars, arb, stores, atomics, inPipe, dispatch, pipe>>, piece' \in 1 .. 5
  PROVE  LdstInv'
<1>1. Typed /\ Numbers /\ TypedCounts /\ prog' = prog
  BY NumbersAre DEF LdstInv, warpVars
<1>2. Inst' = Inst /\ \A j : P(j)' = P(j) /\ (Books(j)' <=> Books(j)) /\ (is_load(j)' <=> is_load(j))
  BY <1>1, Fixed
<1>3. PICK i \in Inst : i = nextWb
  BY <1>1 DEF WroteBack, Typed
<1>4. /\ reserved' = [reserved EXCEPT ![i[1]] = @ \ Released(i)]
      /\ pending' = IF P(i).space = "shared" THEN pending ELSE CountedDown(i)
      /\ nextWb' = None
  BY <1>3 DEF WroteBack
<1>5. i[1] \in Warp /\ P(i).dst \subseteq Reg /\ PlaceOK(i) /\ \A j \in Inst : j # None
  BY <1>1, InstIs, FieldsOf DEF LdstInv, AllPlaced, Typed
<1>6. Onward
  BY <1>1 DEF Onward, Typed, warpVars
<1>7. Typed'
  <2>1. reserved' \in [Warp -> SUBSET Reg]
    BY <1>1, <1>4, <1>5 DEF Typed
  <2>. QED
    BY <1>1, <1>2, <1>4, <2>1 DEF Typed, cacheVars, warpVars
<1>8. Numbers'
  BY <1>7, NumbersNext
<1>9. \A j : /\ Away(j)' = Away(j) /\ (AtNext(j)' <=> AtNext(j)) /\ (AtReg(j)' <=> AtReg(j))
             /\ Left(j)' = Left(j) /\ (InPipe(j)' <=> InPipe(j))
  BY Frame
<1>10. \A j \in Inst : ~IsBack(j)' /\ (IsBack(j) <=> j = i)
  BY <1>3, <1>4, <1>5 DEF IsBack
<1>11. OthersSame(i)
  BY <1>9, <1>10 DEF OthersSame, Same, warpVars
<1>12. /\ InFlight(i) = Away(i) + 1 /\ InFlight(i)' = Away(i) /\ Away(i) \in Nat /\ Left(i) \in Nat
       /\ OutOf(i) = InFlight(i) + Left(i) /\ OutOf(i)' = InFlight(i)' + Left(i)
       /\ Live(i) /\ i \notin collected /\ is_load(i)
       /\ (Live(i)' <=> AtReg(i) \/ InPipe(i) \/ InFlight(i)' > 0)
  <2>1. InFlight(i) = Away(i) + One(IsBack(i)) /\ InFlight(i)' = Away(i)' + One(IsBack(i)')
    BY <1>1, <1>2, <1>8 DEF Numbers, One
  <2>2. One(IsBack(i)) = 1 /\ One(IsBack(i)') = 0
    BY <1>10 DEF One
  <2>3. /\ OutOf(i) = InFlight(i) + Left(i) /\ OutOf(i)' = InFlight(i)' + Left(i)'
        /\ Away(i) \in Nat /\ Left(i) \in Nat
        /\ (Live(i) <=> i \in collected \/ AtReg(i) \/ InPipe(i) \/ InFlight(i) > 0)
        /\ (Live(i)' <=> i \in collected' \/ AtReg(i)' \/ InPipe(i)' \/ InFlight(i)' > 0)
    BY <1>1, <1>2, <1>8 DEF Numbers
  <2>4. InFlight(i) = Away(i) + 1 /\ InFlight(i)' = Away(i)
    BY <1>9, <2>1, <2>2, <2>3
  <2>5. i \notin collected /\ is_load(i)
    BY <1>5, <1>10, <2>3, <2>4 DEF PlaceOK
  <2>. QED
    BY <1>9, <2>3, <2>4, <2>5 DEF warpVars
<1>13. PlaceOK(i)'
  BY <1>2, <1>5, <1>9, <1>10, <1>12 DEF PlaceOK, warpVars
<1>14. RegsFollow(i) /\ pending' \in [Warp -> [Reg -> Int]]
  <2>1. CASE P(i).space = "shared"
    <3>1. ~Live(i)'
      BY <1>5, <1>10, <1>12, <2>1 DEF PlaceOK
    <3>2. ~Books(i) /\ pending' = pending /\ Released(i) = P(i).dst
      BY <1>4, <2>1 DEF Books, Released
    <3>3. \A v \in Warp, r \in Reg :
            r \in reserved'[v] <=> IF v = i[1] THEN r \in reserved[v] /\ r \notin P(i).dst ELSE r \in reserved[v]
      BY <1>1, <1>4, <1>5, <3>2 DEF Typed
    <3>4. pending' \in [Warp -> [Reg -> Int]]
      BY <1>1, <3>2 DEF TypedCounts
    <3>. QED
      BY <3>1, <3>2, <3>3, <3>4 DEF RegsFollow
  <2>2. CASE P(i).space # "shared"
    <3>1. Books(i) /\ OutOf(i)' = OutOf(i) - 1 /\ OutOf(i) \in Nat
      BY <1>12, <2>2 DEF Books
    <3>2. Live(i)' <=> OutOf(i)' > 0
      <4>1. AtReg(i) => Left(i) > 0
        BY <1>5, <1>12 DEF PlaceOK
      <4>2. ~InPipe(i)
        BY <1>5, <2>2 DEF PlaceOK
      <4>3. ~AtReg(i) => Left(i) = 0
        BY <1>1 DEF Numbers
      <4>. QED
        BY <1>12, <4>1, <4>2, <4>3
    <3>3. \A r \in P(i).dst : r \in reserved[i[1]] /\ pending[i[1]][r] = OutOf(i)
      BY <1>1, <1>12, <3>1, HeldRegs DEF LdstInv
    <3>4. \A r \in P(i).dst : r \in Released(i) <=> OutOf(i) = 1
      BY <2>2, <3>3 DEF Released
    <3>5. pending' = [pending EXCEPT ![i[1]] = [r \in Reg |-> IF r \in P(i).dst THEN @[r] - 1 ELSE @[r]]]
      BY <1>4, <2>2 DEF CountedDown
    <3>6. \A v \in Warp, r \in Reg :
            pending'[v][r] = IF v = i[1] /\ r \in P(i).dst THEN pending[v][r] - 1 ELSE pending[v][r]
      BY <1>1, <1>5, <3>5 DEF TypedCounts
    <3>7. pending' \in [Warp -> [Reg -> Int]]
      BY <1>1, <1>5, <3>5 DEF TypedCounts
    <3>8. Released(i) \subseteq P(i).dst
      BY DEF Released
    <3>9. \A v \in Warp, r \in Reg :
            r \in reserved'[v] <=> IF v = i[1] THEN r \in reserved[v] /\ r \notin Released(i) ELSE r \in reserved[v]
      BY <1>1, <1>4, <1>5 DEF Typed
    <3>10. Live(i)' <=> OutOf(i) # 1
      BY <1>12, <3>1, <3>2
    <3>11. \A v \in Warp, r \in Reg :
             r \in reserved'[v] <=> IF v = i[1] /\ r \in P(i).dst THEN Live(i)' ELSE r \in reserved[v]
      BY <3>3, <3>4, <3>8, <3>9, <3>10
    <3>12. \A v \in Warp, r \in Reg :
             pending'[v][r] = IF v = i[1] /\ r \in P(i).dst /\ Books(i) THEN OutOf(i)' ELSE pending[v][r]
      BY <3>1, <3>3, <3>6
    <3>. QED
      BY <3>7, <3>11, <3>12 DEF RegsFollow
  <2>. QED
    BY <2>1, <2>2
<1>15. CountsFollow(i) /\ CountsAre
  <2>1. P(i).op # "store"
    BY <1>1, <1>12, FieldsOf DEF Typed
  <2>2. (InUnit(i)' <=> InUnit(i)) /\ AtomicsOut(i) \in Nat
    BY <1>1, <1>2, <1>8, <1>9 DEF Numbers
  <2>3. /\ AtomicsOut(i) = IF P(i).space = "shared" \/ i \in collected
                           THEN IF i \in collected \/ InUnit(i) THEN P(i).n ELSE 0
                           ELSE Away(i) + Left(i)
        /\ AtomicsOut(i)' = IF P(i).space = "shared" \/ i \in collected'
                            THEN IF i \in collected' \/ InUnit(i)' THEN P(i).n ELSE 0
                            ELSE Away(i)' + Left(i)'
    BY <1>1, <1>2, <1>8 DEF Numbers
  <2>4. AtomicsOut(i)' = AtomicsOut(i)
    BY <1>9, <2>2, <2>3 DEF warpVars
  <2>5. Here(i)' <=> Here(i)
    BY <2>2 DEF Here, warpVars
  <2>6. CountsFollow(i)
    BY <2>1, <2>2, <2>4, <2>5, CountsStay
  <2>. QED
    BY <1>1, <1>14, <2>6 DEF CountsAre, TypedCounts
<1>16. i[1] \notin retired \/ ~Live(i)'
  <2> SUFFICES ASSUME i[1] \in retired PROVE ~Live(i)'
    OBVIOUS
  <2>1. InFlight(i) = 1 /\ ~InUnit(i)
    BY <1>12 DEF LdstInv, RetiredIsClean
  <2>2. ~AtReg(i) /\ ~InPipe(i)
    BY <1>1, <2>1 DEF Numbers
  <2>. QED
    BY <1>12, <2>1, <2>2
<1>17. \A v \in exited : atomics'[v] <= atomics[v]
  BY <1>1 DEF Typed, TypedCounts
<1>18. PipeApart' /\ ReadyOK'
  BY <1>2 DEF LdstInv, PipeApart, ReadyOK, cacheVars
<1>. QED
  BY <1>6, <1>7, <1>11, <1>12, <1>13, <1>14, <1>15, <1>16, <1>17, <1>18, Moved DEF MovesOne, warpVars

(* A step that changes none of what the invariant speaks of.               *)
LEMMA NothingKeeps ==
  ASSUME LdstInv, UNCHANGED <<warpVars, cacheVars, wbVars, counts, dispatch, pipe>>, piece' \in 1 .. 5
  PROVE  LdstInv'
<1>1. Typed /\ prog' = prog
  BY DEF LdstInv, warpVars
<1>2. Inst' = Inst /\ \A j : P(j)' = P(j) /\ (is_load(j)' <=> is_load(j))
  BY <1>1, Fixed
<1>3. Onward
  BY <1>1 DEF Onward, Typed, warpVars
<1>4. Typed'
  BY <1>1, <1>2 DEF Typed, cacheVars, warpVars, wbVars, counts
<1>5. \A j \in Inst : Same(j)
  BY Frame DEF Same, wbVars, warpVars
<1>6. PipeApart' /\ ReadyOK'
  BY <1>2 DEF LdstInv, PipeApart, ReadyOK, cacheVars
<1>. QED
  BY <1>3, <1>4, <1>5, <1>6, Still DEF MovesNone, warpVars

LEMMA WriteOutKeeps == ASSUME LdstInv, WriteOut PROVE LdstInv'
<1>1. piece' \in 1 .. 5
  BY DEF WriteOut
<1>2. CASE WroteBack
  BY <1>1, <1>2, WroteBackKeeps DEF WriteOut
<1>3. CASE UNCHANGED <<nextWb, reserved, pending>>
  BY <1>1, <1>3, NothingKeeps DEF WriteOut, wbVars, counts
<1>. QED
  BY <1>2, <1>3 DEF WriteOut

-----------------------------------------------------------------------------
(* What comes from a cache or from the buffer to the writeback.            *)
LEMMA TakenKeeps ==
  ASSUME LdstInv, Typed', PipeApart', ReadyOK', NEW i \in Inst, nextWb = None, nextWb' = i,
         is_load(i), Away(i) > 0,
         \A j \in Inst : Away(j)' = Away(j) - One(i = j) /\ (AtNext(j)' => AtNext(j)),
         atomics' = IF P(i).op = "atomic" THEN [atomics EXCEPT ![i[1]] = @ - 1] ELSE atomics,
         UNCHANGED <<warpVars, pending, reserved, stores, inPipe, dispatch, pipe>>
  PROVE  LdstInv'
<1>1. Typed /\ Numbers /\ TypedCounts /\ prog' = prog /\ Numbers'
  BY NumbersAre, NumbersNext DEF LdstInv, warpVars
<1>2. Inst' = Inst /\ \A j : P(j)' = P(j) /\ (Books(j)' <=> Books(j)) /\ (is_load(j)' <=> is_load(j))
  BY <1>1, Fixed
<1>3. i[1] \in Warp /\ PlaceOK(i) /\ \A j \in Inst : j # None
  BY <1>1, InstIs DEF LdstInv, AllPlaced, Typed
<1>4. Onward
  BY <1>1 DEF Onward, Typed, warpVars
<1>5. \A j : /\ (AtReg(j)' <=> AtReg(j)) /\ Left(j)' = Left(j) /\ (InPipe(j)' <=> InPipe(j))
  BY Frame
<1>6. \A j \in Inst : ~IsBack(j) /\ (IsBack(j)' <=> j = i)
  BY <1>3 DEF IsBack
<1>7. \A j \in Inst : j # i => Away(j)' = Away(j)
  BY <1>1 DEF Numbers, One
<1>8. OthersSame(i)
  BY <1>5, <1>6, <1>7 DEF OthersSame, Same, warpVars
<1>9. Away(i)' = Away(i) - 1 /\ Away(i) \in Nat
  BY <1>1 DEF Numbers, One
<1>10. /\ InFlight(i) = Away(i) /\ InFlight(i)' = Away(i)
       /\ OutOf(i) = InFlight(i) + Left(i) /\ OutOf(i)' = InFlight(i)' + Left(i)'
       /\ Left(i) \in Nat
       /\ (Live(i) <=> i \in collected \/ AtReg(i) \/ InPipe(i) \/ InFlight(i) > 0)
       /\ (Live(i)' <=> i \in collected' \/ AtReg(i)' \/ InPipe(i)' \/ InFlight(i)' > 0)
  <2>1. InFlight(i) = Away(i) + One(IsBack(i)) /\ InFlight(i)' = Away(i)' + One(IsBack(i)')
    BY <1>1, <1>2 DEF Numbers, One
  <2>2. One(IsBack(i)) = 0 /\ One(IsBack(i)') = 1
    BY <1>6 DEF One
  <2>3. InFlight(i) = Away(i) /\ InFlight(i)' = Away(i)
    BY <1>9, <2>1, <2>2
  <2>. QED
    BY <1>1, <1>2, <2>3 DEF Numbers
<1>11. Live(i) /\ Live(i)' /\ OutOf(i)' = OutOf(i) /\ i \notin collected /\ i \notin collected'
  BY <1>3, <1>5, <1>10 DEF PlaceOK, warpVars
<1>12. P(i).space # "shared" /\ P(i).op # "membar" /\ P(i).op # "store"
  BY <1>1, <1>3, <1>9, FieldsOf DEF PlaceOK, Typed
<1>13. PlaceOK(i)'
  BY <1>2, <1>3, <1>5, <1>6, <1>10, <1>11, <1>12 DEF PlaceOK, warpVars
<1>14. RegsFollow(i)
  BY <1>11, RegsStay
<1>15. CountsFollow(i) /\ CountsAre
  <2>1. AtomicsOut(i) = Away(i) + Left(i) /\ AtomicsOut(i)' = Away(i)' + Left(i)'
    BY <1>1, <1>2, <1>11, <1>12 DEF Numbers
  <2>2. AtomicsOut(i)' - AtomicsOut(i) = 0 - 1
    BY <1>5, <1>9, <1>10, <2>1
  <2>3. Here(i)' <=> Here(i)
    BY <1>1, <1>2, <1>5, <1>11 DEF Here, Numbers
  <2>4. \A v \in Warp : atomics'[v] = atomics[v]
         + (IF v = i[1] /\ P(i).op = "atomic" THEN AtomicsOut(i)' - AtomicsOut(i) ELSE 0)
    BY <1>1, <1>3, <2>2 DEF TypedCounts
  <2>. QED
    BY <1>1, <1>3, <1>12, <2>3, <2>4 DEF CountsFollow, CountsAre, One, TypedCounts
<1>16. i[1] \notin retired
  BY NotRetired
<1>17. \A v \in exited : atomics'[v] <= atomics[v]
  BY <1>1, <1>3 DEF Typed, TypedCounts
<1>. QED
  BY <1>4, <1>8, <1>11, <1>13, <1>14, <1>15, <1>16, <1>17, Moved DEF MovesOne, warpVars

(* What comes from the end of the pipeline.                                *)
LEMMA FromPipeKeeps ==
  ASSUME LdstInv, Typed', NEW i \in Inst, nextWb = None, nextWb' = i, pipe[0] = i,
         pipe' = [pipe EXCEPT ![0] = None],
         inPipe' = [inPipe EXCEPT ![i[1]] = @ - 1],
         atomics' = IF P(i).op = "atomic" THEN [atomics EXCEPT ![i[1]] = @ - P(i).n] ELSE atomics,
         UNCHANGED <<warpVars, cacheVars, pending, reserved, stores, dispatch>>
  PROVE  LdstInv'
<1>1. Typed /\ Numbers /\ TypedCounts /\ prog' = prog /\ Numbers'
  BY NumbersAre, NumbersNext DEF LdstInv, warpVars
<1>2. Inst' = Inst /\ \A j : P(j)' = P(j) /\ (Books(j)' <=> Books(j)) /\ (is_load(j)' <=> is_load(j))
  BY <1>1, Fixed
<1>3. i[1] \in Warp /\ PlaceOK(i) /\ P(i).n \in Nat /\ \A j \in Inst : j # None
  BY <1>1, InstIs, FieldsOf DEF LdstInv, AllPlaced, Typed
<1>4. Onward
  BY <1>1 DEF Onward, Typed, warpVars
<1>5. \A j : /\ (AtReg(j)' <=> AtReg(j)) /\ Left(j)' = Left(j)
             /\ Away(j)' = Away(j) /\ (AtNext(j)' <=> AtNext(j))
  BY Frame
<1>6. \A j \in Inst : ~IsBack(j) /\ (IsBack(j)' <=> j = i)
  BY <1>3 DEF IsBack
<1>7. InPipe(i) /\ \A s \in Stage : pipe[s] = i => s = 0
  BY <1>3 DEF InPipe, Stage, LdstInv, PipeApart
<1>8. \A s \in Stage : pipe'[s] = IF s = 0 THEN None ELSE pipe[s]
  BY <1>1 DEF Typed, Stage
<1>9. \A j \in Inst : InPipe(j)' <=> InPipe(j) /\ j # i
  <2> SUFFICES ASSUME NEW j \in Inst PROVE (\E s \in Stage : pipe'[s] = j) <=> (\E s \in Stage : pipe[s] = j) /\ j # i
    BY DEF InPipe, Stage
  <2>. QED
    BY <1>3, <1>7, <1>8
<1>10. OthersSame(i)
  BY <1>5, <1>6, <1>9 DEF OthersSame, Same, warpVars
<1>11. /\ is_load(i) /\ P(i).space = "shared" /\ ~AtReg(i) /\ i \notin collected /\ Away(i) = 0
       /\ ~AtNext(i) /\ ~InPipe(i)'
  BY <1>1, <1>3, <1>7, <1>9 DEF PlaceOK, Numbers
<1>12. /\ InFlight(i) = 0 /\ InFlight(i)' = 1 /\ Live(i) /\ Live(i)' /\ ~Books(i) /\ InUnit(i) /\ ~InUnit(i)'
       /\ i \notin collected' /\ P(i).op # "membar" /\ P(i).op # "store"
  <2>1. InFlight(i) = Away(i) + One(IsBack(i)) /\ InFlight(i)' = Away(i)' + One(IsBack(i)')
    BY <1>1, <1>2 DEF Numbers, One
  <2>2. One(IsBack(i)) = 0 /\ One(IsBack(i)') = 1
    BY <1>6 DEF One
  <2>3. InFlight(i) = 0 /\ InFlight(i)' = 1
    BY <1>5, <1>11, <2>1, <2>2
  <2>4. P(i).op # "membar" /\ P(i).op # "store"
    BY <1>1, <1>11, FieldsOf DEF Typed
  <2>. QED
    BY <1>1, <1>2, <1>5, <1>7, <1>11, <2>3, <2>4 DEF Numbers, Books, warpVars
<1>13. PlaceOK(i)'
  BY <1>2, <1>3, <1>5, <1>6, <1>9, <1>11, <1>12 DEF PlaceOK, warpVars
<1>14. RegsFollow(i)
  BY <1>12, RegsStay
<1>15. CountsFollow(i) /\ CountsAre
  <2>1. AtomicsOut(i) = P(i).n /\ AtomicsOut(i)' = 0
    BY <1>1, <1>2, <1>11, <1>12 DEF Numbers
  <2>2. Here(i) /\ ~Here(i)'
    BY <1>12 DEF Here
  <2>. QED
    BY <1>1, <1>3, <1>12, <2>1, <2>2 DEF CountsFollow, CountsAre, One, TypedCounts
<1>16. i[1] \notin retired
  BY <1>7, NotRetired
<1>17. \A v \in exited : atomics'[v] <= atomics[v]
  <2>1. \A v \in Warp : /\ atomics[v] \in Nat
                         /\ \/ atomics'[v] = atomics[v]
                            \/ atomics'[v] = atomics[v] - P(i).n
    BY <1>1, <1>3 DEF TypedCounts
  <2>2. exited \subseteq Warp
    BY <1>1 DEF Typed
  <2>. QED
    BY <1>3, <2>1, <2>2
<1>18. PipeApart' /\ ReadyOK'
  <2>1. PipeApart'
    BY <1>8 DEF LdstInv, PipeApart
  <2>. QED
    BY <1>2, <2>1 DEF LdstInv, ReadyOK, cacheVars
<1>. QED
  BY <1>4, <1>10, <1>12, <1>13, <1>14, <1>15, <1>16, <1>17, <1>18, Moved DEF MovesOne, warpVars

LEMMA ServedOffers == ASSUME NEW c \in Served PROVE c \in Client /\ Offer(c) # None
<1>1. PICK n \in 0 .. 4 : (n + arb) % 5 \in Offering /\ c = (n + arb) % 5
  BY DEF Served
<1>. QED
  BY <1>1 DEF Offering

LEMMA CacheIs ==
  /\ DOMAIN Cache = CacheName
  /\ Cache["tex"] = 1 /\ Cache["const"] = 2 /\ Cache["L1D"] = 4
BY DEF Cache, CacheName

LEMMA ServeKeeps ==
  ASSUME LdstInv, NEW c \in Served, nextWb = None, Serve(c), piece' \in 1 .. 5,
         UNCHANGED <<warpVars, mem, fifo, pending, reserved, stores, dispatch>>
  PROVE  LdstInv'
<1>1. Typed /\ Numbers /\ TypedCounts /\ prog' = prog
  BY NumbersAre DEF LdstInv, warpVars
<1>2. Inst' = Inst /\ \A j : P(j)' = P(j) /\ (Books(j)' <=> Books(j)) /\ (is_load(j)' <=> is_load(j))
  BY <1>1, Fixed
<1>3. c \in Client /\ Offer(c) # None
  BY ServedOffers
<1>4. arb' \in Client
  BY <1>3 DEF Serve, NextArb, Client
<1>5. ready \in [CacheName -> Seq(Inst)]
  BY <1>1 DEF Typed
<1>6. \A d \in CacheName : ready'[d] = IF Cache[d] = c THEN Tail(ready[d]) ELSE ready[d]
  BY CacheIs DEF Serve
<1>7. DOMAIN ready' = CacheName
  BY CacheIs DEF Serve
<1>8. CASE c = 0
  <2>1. PICK i \in Inst : i = pipe[0]
    BY <1>1, <1>3, <1>8 DEF Offer, Typed, Stage
  <2>2. /\ Offer(c) = i /\ nextWb' = i /\ inPipe' = [inPipe EXCEPT ![i[1]] = @ - 1]
        /\ pipe' = [pipe EXCEPT ![0] = None] /\ nextGlobal' = nextGlobal
        /\ atomics' = AtomicsDone(0, i)
    BY <1>8, <2>1 DEF Serve, Offer
  <2>3. \A d \in CacheName : ready'[d] = ready[d]
    BY <1>6, <1>8, CacheIs DEF CacheName
  <2>4. ready' = ready
    BY <1>5, <1>7, <2>3 DEF Serve
  <2>5. atomics' = IF P(i).op = "atomic" THEN [atomics EXCEPT ![i[1]] = @ - P(i).n] ELSE atomics
    BY <2>2 DEF AtomicsDone
  <2>6. Typed'
    BY <1>1, <1>2, <1>4, <2>2, <2>4 DEF Typed, warpVars, Stage
  <2>. QED
    BY <2>1, <2>2, <2>4, <2>5, <2>6, FromPipeKeeps DEF cacheVars
<1>9. CASE c = 3
  <2>1. PICK i \in Inst : i = nextGlobal
    BY <1>1, <1>3, <1>9 DEF Offer, Typed
  <2>2. /\ Offer(c) = i /\ nextWb' = i /\ inPipe' = inPipe /\ pipe' = pipe /\ nextGlobal' = None
        /\ atomics' = AtomicsDone(3, i)
    BY <1>9, <2>1 DEF Serve, Offer
  <2>3. \A d \in CacheName : ready'[d] = ready[d]
    BY <1>6, <1>9, CacheIs DEF CacheName
  <2>4. ready' = ready
    BY <1>5, <1>7, <2>3 DEF Serve
  <2>5. atomics' = IF P(i).op = "atomic" THEN [atomics EXCEPT ![i[1]] = @ - 1] ELSE atomics
    BY <2>2 DEF AtomicsDone
  <2>6. Typed'
    BY <1>1, <1>2, <1>4, <2>2, <2>4 DEF Typed, warpVars
  <2>7. Numbers'
    BY <2>6, NumbersNext
  <2>8. \A j \in Inst : j # None
    BY <1>1, InstIs DEF Typed
  <2>9. ASSUME NEW j \in Inst PROVE Away(j)' = Away(j) - One(i = j) /\ (AtNext(j)' => AtNext(j))
    <3>1. ~AtNext(j)' /\ (AtNext(j) <=> i = j)
      BY <2>1, <2>2, <2>8 DEF AtNext
    <3>2. One(AtNext(j))' = 0 /\ One(AtNext(j)) = One(i = j)
      BY <3>1 DEF One
    <3>3. /\ Away(j) = mem[j] + InSeq(fifo, j) + One(AtNext(j))
                         + InSeq(ready.tex, j) + InSeq(ready.const, j) + InSeq(ready.L1D, j)
          /\ Away(j)' = mem'[j] + InSeq(fifo', j) + One(AtNext(j))'
                         + InSeq(ready'.tex, j) + InSeq(ready'.const, j) + InSeq(ready'.L1D, j)
      BY <1>1, <1>2, <2>7 DEF Numbers
    <3>4. /\ mem[j] \in Nat /\ InSeq(fifo, j) \in Nat /\ One(i = j) \in Nat
          /\ InSeq(ready.tex, j) \in Nat /\ InSeq(ready.const, j) \in Nat /\ InSeq(ready.L1D, j) \in Nat
      BY <1>1, InSeqNat DEF Typed, CacheName, One
    <3>. QED
      BY <2>4, <3>1, <3>2, <3>3, <3>4
  <2>10. is_load(i) /\ Away(i) > 0
    BY <1>1, <2>1 DEF LdstInv, AllPlaced, PlaceOK, AtNext, Numbers
  <2>11. PipeApart' /\ ReadyOK'
    BY <1>2, <2>2, <2>4 DEF LdstInv, PipeApart, ReadyOK
  <2>. QED
    BY <2>2, <2>5, <2>6, <2>9, <2>10, <2>11, TakenKeeps
<1>10. CASE c \in {1, 2, 4}
  <2>1. PICK d \in CacheName : Cache[d] = c /\ \A e \in CacheName : Cache[e] = c => e = d
    BY <1>10, CacheIs DEF CacheName
  <2>2. ready[d] # <<>> /\ Offer(c) = Head(ready[d])
    BY <1>3, <1>5, <1>10, <2>1, CacheIs DEF Offer, CacheName
  <2>3. ready[d] \in Seq(Inst) /\ Len(ready[d]) \in Nat /\ Len(ready[d]) # 0
    BY <1>5, <2>2, LenProperties, EmptySeq
  <2>4. /\ Head(ready[d]) \in Inst /\ Head(ready[d]) = ready[d][1] /\ Tail(ready[d]) \in Seq(Inst)
        /\ Len(Tail(ready[d])) = Len(ready[d]) - 1
        /\ \A n \in 1 .. Len(Tail(ready[d])) : Tail(ready[d])[n] = ready[d][n + 1]
        /\ 1 \in DOMAIN ready[d] /\ DOMAIN ready[d] = 1 .. Len(ready[d])
        /\ DOMAIN Tail(ready[d]) = 1 .. Len(Tail(ready[d]))
    BY <2>2, <2>3, HeadTailProperties, LenProperties
  <2>5. PICK i \in Inst : i = Head(ready[d])
    BY <2>4
  <2>6. /\ Offer(c) = i /\ nextWb' = i /\ inPipe' = inPipe /\ pipe' = pipe /\ nextGlobal' = nextGlobal
        /\ atomics' = AtomicsDone(c, i)
    BY <1>10, <2>2, <2>5 DEF Serve
  <2>7. is_load(i) /\ ~P(i).bypass
    BY <2>4, <2>5 DEF LdstInv, ReadyOK
  <2>8. InSeq(ready[d], i) > 0
    BY <2>2, <2>3, <2>5, InSeqNat
  <2>9. Away(i) > 0
    BY <1>1, <2>8 DEF Numbers
  <2>10. P(i).op # "atomic"
    <3>1. P(i).space # "shared"
      BY <1>1, <2>9 DEF LdstInv, AllPlaced, PlaceOK, Numbers
    <3>. QED
      BY <1>1, <2>7, <3>1, FieldsOf DEF Typed
  <2>11. atomics' = IF P(i).op = "atomic" THEN [atomics EXCEPT ![i[1]] = @ - 1] ELSE atomics
    BY <2>6, <2>10 DEF AtomicsDone
  <2>12. ready' \in [CacheName -> Seq(Inst)]
    <3>1. \A e \in CacheName : ready'[e] \in Seq(Inst)
      BY <1>5, <1>6, <2>1, <2>4
    <3>. QED
      BY <1>7, <3>1 DEF Serve
  <2>13. Typed'
    BY <1>1, <1>2, <1>4, <2>6, <2>12 DEF Typed, warpVars
  <2>14. Numbers'
    BY <2>13, NumbersNext
  <2>15. ASSUME NEW j \in Inst PROVE Away(j)' = Away(j) - One(i = j) /\ (AtNext(j)' => AtNext(j))
    <3>1. (AtNext(j)' <=> AtNext(j)) /\ One(AtNext(j))' = One(AtNext(j))
      BY <2>6 DEF AtNext, One
    <3>2. InSeq(Tail(ready[d]), j) = InSeq(ready[d], j) - One(i = j)
      BY <2>2, <2>3, <2>5, InSeqTail
    <3>3. \A e \in CacheName : InSeq(ready'[e], j) = IF e = d THEN InSeq(ready[e], j) - One(i = j) ELSE InSeq(ready[e], j)
      BY <1>6, <2>1, <3>2
    <3>4. /\ Away(j) = mem[j] + InSeq(fifo, j) + One(AtNext(j))
                         + InSeq(ready["tex"], j) + InSeq(ready["const"], j) + InSeq(ready["L1D"], j)
          /\ Away(j)' = mem[j] + InSeq(fifo, j) + One(AtNext(j))
                         + InSeq(ready'["tex"], j) + InSeq(ready'["const"], j) + InSeq(ready'["L1D"], j)
      BY <1>1, <1>2, <2>14, <3>1 DEF Numbers
    <3>5. /\ mem[j] \in Nat /\ InSeq(fifo, j) \in Nat /\ One(i = j) \in Nat /\ One(AtNext(j)) \in Nat
          /\ \A e \in CacheName : InSeq(ready[e], j) \in Nat
      BY <1>1, InSeqNat DEF Typed, One
    <3>6. d \in {"tex", "const", "L1D"}
      BY <2>1 DEF CacheName
    <3>. QED
      BY <3>1, <3>3, <3>4, <3>5, <3>6 DEF CacheName
  <2>16. PipeApart' /\ ReadyOK'
    <3>1. PipeApart'
      BY <2>6 DEF LdstInv, PipeApart
    <3>2. ASSUME NEW e \in CacheName, NEW n \in DOMAIN ready'[e]
          PROVE  is_load(ready'[e][n]) /\ ~P(ready'[e][n]).bypass
      <4>1. CASE e # d
        BY <1>6, <2>1, <3>2, <4>1 DEF LdstInv, ReadyOK
      <4>2. CASE e = d
        <5>1. ready'[e] = Tail(ready[d])
          BY <1>6, <2>1, <4>2
        <5>2. n + 1 \in DOMAIN ready[d] /\ ready'[e][n] = ready[d][n + 1]
          BY <2>3, <2>4, <3>2, <5>1
        <5>. QED
          BY <5>2 DEF LdstInv, ReadyOK
      <4>. QED
        BY <4>1, <4>2
    <3>3. ReadyOK'
      BY <1>1, <3>2 DEF ReadyOK, is_load, P, CacheName
    <3>. QED
      BY <3>1, <3>3
  <2>. QED
    BY <2>6, <2>7, <2>9, <2>11, <2>13, <2>15, <2>16, TakenKeeps
<1>. QED
  BY <1>3, <1>8, <1>9, <1>10 DEF Client

LEMMA ArbitrateKeeps == ASSUME LdstInv, Arbitrate PROVE LdstInv'
<1>1. piece' \in 1 .. 5
  BY DEF Arbitrate
<1>2. CASE UNCHANGED <<nextWb, arb, atomics, inPipe, pipe, nextGlobal, ready>>
  BY <1>1, <1>2, NothingKeeps DEF Arbitrate, wbVars, counts, cacheVars
<1>3. CASE nextWb = None /\ \E c \in Served : Serve(c)
  BY <1>1, <1>3, ServeKeeps DEF Arbitrate
<1>. QED
  BY <1>2, <1>3 DEF Arbitrate

-----------------------------------------------------------------------------
(* The pipeline moves, *)
LEMMA ShiftKeeps == ASSUME LdstInv, Shift PROVE LdstInv'
<1>1. Typed /\ prog' = prog /\ UNCHANGED <<warpVars, cacheVars, wbVars, counts, dispatch>> /\ piece' = 4
  BY DEF LdstInv, Shift, warpVars
<1>2. Inst' = Inst /\ \A j : P(j)' = P(j) /\ (is_load(j)' <=> is_load(j))
  BY <1>1, Fixed
<1>3. Onward
  BY <1>1 DEF Onward, Typed, warpVars
<1>4. pipe \in [0 .. 2 -> Inst \union {None}]
  BY <1>1 DEF Typed, Stage
<1>5. \/ /\ pipe[0] = None /\ pipe'[0] = pipe[1] /\ pipe'[1] = pipe[2] /\ pipe'[2] = None
      \/ /\ pipe[1] = None /\ pipe'[0] = pipe[0] /\ pipe'[1] = pipe[2] /\ pipe'[2] = None
      \/ pipe' = pipe
  BY <1>4 DEF Shift, Stage
<1>6. pipe' \in [0 .. 2 -> Inst \union {None}]
  BY <1>4 DEF Shift, Stage
<1>7. Typed'
  BY <1>1, <1>2, <1>6 DEF Typed, Stage, warpVars, cacheVars, wbVars, counts
<1>8. Stage = {0, 1, 2}
  BY DEF Stage
<1>9. \A j \in Inst : InPipe(j)' <=> InPipe(j)
  <2> SUFFICES ASSUME NEW j \in Inst
               PROVE  (\E s \in {0, 1, 2} : pipe'[s] = j) <=> \E s \in {0, 1, 2} : pipe[s] = j
    BY <1>8 DEF InPipe, Stage
  <2>1. j # None
    BY <1>1, InstIs DEF Typed
  <2>. QED
    BY <1>5, <2>1
<1>10. PipeApart'
  <2>1. \A s, t \in {0, 1, 2} : pipe[s] = pipe[t] /\ pipe[s] # None => s = t
    BY <1>8 DEF LdstInv, PipeApart
  <2>2. \A s, t \in {0, 1, 2} : pipe'[s] = pipe'[t] /\ pipe'[s] # None => s = t
    BY <1>5, <2>1
  <2>. QED
    BY <1>8, <2>2 DEF PipeApart, Stage
<1>11. \A j \in Inst : Same(j)
  BY <1>1, <1>9, Frame DEF Same, wbVars, warpVars
<1>12. ReadyOK'
  BY <1>1, <1>2 DEF LdstInv, ReadyOK, cacheVars
<1>. QED
  BY <1>1, <1>3, <1>7, <1>10, <1>11, <1>12, Still DEF MovesNone, warpVars

(* and what answers is taken from the FIFO.                                *)
LEMMA RespondKeeps == ASSUME LdstInv, Respond PROVE LdstInv'
<1>1. Typed /\ Numbers /\ TypedCounts /\ prog' = prog /\ piece' \in 1 .. 5
      /\ UNCHANGED <<warpVars, mem, wbVars, pending, reserved, atomics, inPipe, dispatch, pipe>>
  BY NumbersAre DEF LdstInv, Respond, warpVars
<1>2. Inst' = Inst /\ \A j : P(j)' = P(j) /\ (Books(j)' <=> Books(j)) /\ (is_load(j)' <=> is_load(j))
  BY <1>1, Fixed
<1>3. CASE UNCHANGED <<fifo, stores, nextGlobal, ready>>
  BY <1>1, <1>3, NothingKeeps DEF wbVars, counts, cacheVars
<1>4. CASE /\ fifo # <<>>
           /\ LET i == Head(fifo)
              IN  /\ fifo' = Tail(fifo)
                  /\ IF P(i).op = "store"
                     THEN /\ stores' = [stores EXCEPT ![i[1]] = @ - 1]
                          /\ UNCHANGED <<nextGlobal, ready>>
                     ELSE IF P(i).bypass
                     THEN /\ nextGlobal = None /\ nextGlobal' = i
                          /\ UNCHANGED <<stores, ready>>
                     ELSE /\ ready' = [ready EXCEPT ![CacheOf(i)] = Append(@, i)]
                          /\ UNCHANGED <<stores, nextGlobal>>
  <2>1. fifo \in Seq(Inst) /\ Len(fifo) \in Nat /\ Len(fifo) <= ResponseSize
    BY <1>1, LenProperties DEF Typed
  <2>2. Head(fifo) \in Inst /\ Tail(fifo) \in Seq(Inst) /\ Len(Tail(fifo)) = Len(fifo) - 1
    BY <1>4, <2>1, HeadTailProperties
  <2>3. PICK i \in Inst : i = Head(fifo)
    BY <2>2
  <2>4. /\ fifo # <<>> /\ fifo' = Tail(fifo)
        /\ \/ /\ P(i).op = "store" /\ stores' = [stores EXCEPT ![i[1]] = @ - 1]
              /\ UNCHANGED <<nextGlobal, ready>>
           \/ /\ P(i).op # "store" /\ P(i).bypass /\ nextGlobal = None /\ nextGlobal' = i
              /\ UNCHANGED <<stores, ready>>
           \/ /\ P(i).op # "store" /\ ~P(i).bypass
              /\ ready' = [ready EXCEPT ![CacheOf(i)] = Append(@, i)]
              /\ UNCHANGED <<stores, nextGlobal>>
    BY <1>4, <2>3
  <2>5. fifo' \in Seq(Inst) /\ Len(fifo') <= ResponseSize
    <3>1. ResponseSize \in Nat
      BY LdstAssumption
    <3>. QED
      BY <2>1, <2>2, <2>4, <3>1
  <2>6. \A j \in Inst : InSeq(fifo', j) = InSeq(fifo, j) - One(i = j)
    BY <2>1, <2>3, <2>4, InSeqTail
  <2>7. Away(i) > 0
    BY <1>1, <2>1, <2>3, <2>4, InSeqNat DEF Numbers
  <2>8. \A j \in Inst : /\ mem[j] \in Nat /\ InSeq(fifo, j) \in Nat /\ One(i = j) \in {0, 1}
                        /\ One(AtNext(j)) \in {0, 1} /\ j # None
                        /\ \A d \in CacheName : InSeq(ready[d], j) \in Nat
    BY <1>1, InSeqNat, InstIs DEF Typed, One
  <2>9. i[1] \in Warp /\ PlaceOK(i)
    BY <1>1, InstIs DEF LdstInv, AllPlaced, Typed
  <2>10. \A j : /\ (AtReg(j)' <=> AtReg(j)) /\ Left(j)' = Left(j) /\ (InPipe(j)' <=> InPipe(j))
                /\ (IsBack(j)' <=> IsBack(j)) /\ (j \in collected' <=> j \in collected)
    BY <1>1, Frame DEF wbVars, warpVars
  <2>11. Onward
    BY <1>1 DEF Onward, Typed, warpVars
  <2>12. i[1] \notin retired
    BY <2>7, NotRetired
  <2>13. P(i).op # "membar" /\ (P(i).op # "store" => is_load(i)) /\ Live(i) /\ i \notin collected
    <3>1. Live(i) /\ i \notin collected
      BY <1>1, <2>7, <2>9 DEF Numbers, PlaceOK, One
    <3>2. P(i).op # "membar"
      BY <1>1, <2>7, <2>9 DEF PlaceOK, Numbers
    <3>. QED
      BY <1>1, <3>1, <3>2, FieldsOf DEF Typed
  <2>14. CASE /\ P(i).op = "store" /\ stores' = [stores EXCEPT ![i[1]] = @ - 1]
              /\ UNCHANGED <<nextGlobal, ready>>
    <3>1. Typed'
      BY <1>1, <1>2, <2>5, <2>14 DEF Typed, warpVars, wbVars
    <3>2. Numbers'
      BY <3>1, NumbersNext
    <3>3. \A j \in Inst : Away(j)' = Away(j) - One(i = j) /\ (AtNext(j)' <=> AtNext(j))
      <4> SUFFICES ASSUME NEW j \in Inst PROVE Away(j)' = Away(j) - One(i = j) /\ (AtNext(j)' <=> AtNext(j))
        OBVIOUS
      <4>1. (AtNext(j)' <=> AtNext(j)) /\ One(AtNext(j))' = One(AtNext(j))
        BY <2>14 DEF AtNext, One
      <4>2. /\ Away(j) = mem[j] + InSeq(fifo, j) + One(AtNext(j))
                           + InSeq(ready["tex"], j) + InSeq(ready["const"], j) + InSeq(ready["L1D"], j)
            /\ Away(j)' = mem[j] + InSeq(fifo', j) + One(AtNext(j))
                           + InSeq(ready["tex"], j) + InSeq(ready["const"], j) + InSeq(ready["L1D"], j)
        BY <1>1, <1>2, <2>14, <3>2, <4>1 DEF Numbers
      <4>. QED
        BY <2>6, <2>8, <4>1, <4>2 DEF CacheName
    <3>4. OthersSame(i)
      BY <1>1, <2>10, <3>3 DEF OthersSame, Same, Numbers, One
    <3>5. InFlight(i) = Away(i) + One(IsBack(i)) /\ InFlight(i)' = Away(i) - 1 + One(IsBack(i))
          /\ Away(i) \in Nat /\ InFlight(i) \in Nat
      <4>1. InFlight(i)' = Away(i)' + One(IsBack(i)')
        BY <1>2, <3>2 DEF Numbers, One
      <4>2. One(IsBack(i)') = One(IsBack(i))
        BY <2>10 DEF One
      <4>3. Away(i)' = Away(i) - 1 /\ Away(i) \in Nat /\ One(IsBack(i)) \in {0, 1}
        BY <1>1, <3>3 DEF One, Numbers
      <4>. QED
        BY <1>1, <4>1, <4>2, <4>3 DEF Numbers
    <3>6. One(IsBack(i)) \in {0, 1}
      BY DEF One
    <3>7. Live(i)' => Live(i)
      BY <2>13
    <3>8. Left(i) = 0 => InFlight(i)' = 0 \/ ~AtReg(i)
      BY <2>7, <2>9, <3>5, <3>6 DEF PlaceOK
    <3>9. P(i).space = "shared" => FALSE
      BY <1>1, <2>7, <2>9 DEF PlaceOK, Numbers
    <3>10. PlaceOK(i)'
      BY <1>1, <1>2, <2>9, <2>10, <2>13, <3>3, <3>7, <3>8, <3>9 DEF PlaceOK, warpVars
    <3>11. P(i).dst = {} /\ ~Books(i)
      BY <1>1, <2>14, FieldsOf DEF Typed, Books
    <3>12. RegsFollow(i)
      BY <1>1, <2>13, <3>11, RegsStay
    <3>13. Here(i)' <=> Here(i)
      BY <1>1, <1>2, <2>10, <3>2 DEF Here, Numbers
    <3>14. InFlight(i)' - InFlight(i) = 0 - 1
      BY <3>5, <3>6
    <3>15. CountsFollow(i) /\ CountsAre
      BY <1>1, <2>9, <2>14, <3>13, <3>14 DEF CountsFollow, CountsAre, One, TypedCounts
    <3>16. PipeApart' /\ ReadyOK' /\ \A v \in exited : atomics'[v] <= atomics[v]
      BY <1>1, <1>2, <2>14 DEF LdstInv, PipeApart, ReadyOK, Typed, TypedCounts
    <3>. QED
      BY <1>1, <2>11, <2>12, <2>13, <3>1, <3>4, <3>10, <3>12, <3>15, <3>16, Moved DEF MovesOne, warpVars
  <2>15. CASE /\ P(i).op # "store" /\ P(i).bypass /\ nextGlobal = None /\ nextGlobal' = i
              /\ UNCHANGED <<stores, ready>>
    <3>1. Typed'
      BY <1>1, <1>2, <2>5, <2>15 DEF Typed, warpVars, wbVars
    <3>2. Numbers'
      BY <3>1, NumbersNext
    <3>3. \A j \in Inst : Away(j)' = Away(j) /\ ~AtNext(j) /\ (AtNext(j)' <=> j = i)
      <4> SUFFICES ASSUME NEW j \in Inst PROVE Away(j)' = Away(j) /\ ~AtNext(j) /\ (AtNext(j)' <=> j = i)
        OBVIOUS
      <4>1. ~AtNext(j) /\ (AtNext(j)' <=> j = i)
        BY <2>8, <2>15 DEF AtNext
      <4>2. One(AtNext(j))' = One(i = j) /\ One(AtNext(j)) = 0
        BY <4>1 DEF One
      <4>3. /\ Away(j) = mem[j] + InSeq(fifo, j) + One(AtNext(j))
                           + InSeq(ready["tex"], j) + InSeq(ready["const"], j) + InSeq(ready["L1D"], j)
            /\ Away(j)' = mem[j] + InSeq(fifo', j) + One(AtNext(j))'
                           + InSeq(ready["tex"], j) + InSeq(ready["const"], j) + InSeq(ready["L1D"], j)
        BY <1>1, <1>2, <2>15, <3>2 DEF Numbers
      <4>. QED
        BY <2>6, <2>8, <4>1, <4>2, <4>3 DEF CacheName
    <3>4. OthersSame(i)
      BY <2>10, <3>3 DEF OthersSame, Same
    <3>5. /\ InFlight(i)' = InFlight(i) /\ OutOf(i)' = OutOf(i) /\ Live(i)'
          /\ AtomicsOut(i)' = AtomicsOut(i) /\ (Here(i)' <=> Here(i))
          /\ InFlight(i) \in Nat /\ AtomicsOut(i) \in Nat
      <4>1. One(IsBack(i)') = One(IsBack(i))
        BY <2>10 DEF One
      <4>2. /\ InFlight(i) = Away(i) + One(IsBack(i)) /\ InFlight(i)' = Away(i)' + One(IsBack(i)')
            /\ OutOf(i) = InFlight(i) + Left(i) /\ OutOf(i)' = InFlight(i)' + Left(i)'
        BY <1>1, <1>2, <3>2 DEF Numbers, One
      <4>3. InFlight(i)' = InFlight(i) /\ OutOf(i)' = OutOf(i)
        BY <2>10, <3>3, <4>1, <4>2
      <4>4. Here(i)' <=> Here(i)
        BY <1>1, <1>2, <2>10, <3>2 DEF Here, Numbers
      <4>5. /\ AtomicsOut(i) = IF P(i).space = "shared" \/ i \in collected
                               THEN IF Here(i) THEN P(i).n ELSE 0
                               ELSE Away(i) + Left(i)
            /\ AtomicsOut(i)' = IF P(i).space = "shared" \/ i \in collected'
                                THEN IF Here(i)' THEN P(i).n ELSE 0
                                ELSE Away(i)' + Left(i)'
        BY <1>1, <1>2, <3>2 DEF Numbers, Here
      <4>6. AtomicsOut(i)' = AtomicsOut(i)
        BY <2>10, <3>3, <4>4, <4>5
      <4>7. Live(i)'
        BY <1>1, <1>2, <2>10, <2>13, <3>2, <4>3 DEF Numbers
      <4>. QED
        BY <1>1, <4>3, <4>4, <4>6, <4>7 DEF Numbers
    <3>10. PlaceOK(i)'
      BY <1>1, <1>2, <2>9, <2>10, <2>13, <2>15, <3>3, <3>5 DEF PlaceOK, warpVars
    <3>12. RegsFollow(i)
      BY <1>1, <2>13, <3>5, RegsStay
    <3>15. CountsFollow(i)
      BY <1>1, <2>15, <3>5, CountsStay
    <3>16. CountsAre
      BY <1>1, <2>15 DEF CountsAre, TypedCounts
    <3>17. PipeApart' /\ ReadyOK' /\ \A v \in exited : atomics'[v] <= atomics[v]
      BY <1>1, <1>2, <2>15 DEF LdstInv, PipeApart, ReadyOK, Typed, TypedCounts
    <3>. QED
      BY <1>1, <2>11, <2>12, <2>13, <3>1, <3>4, <3>10, <3>12, <3>15, <3>16, <3>17, Moved DEF MovesOne, warpVars
  <2>16. CASE /\ P(i).op # "store" /\ ~P(i).bypass
              /\ ready' = [ready EXCEPT ![CacheOf(i)] = Append(@, i)]
              /\ UNCHANGED <<stores, nextGlobal>>
    <3>1. PICK d \in CacheName : d = CacheOf(i)
      <4>1. P(i).space \in {"shared", "tex", "const", "global"}
        BY <1>1, FieldsOf DEF Typed
      <4>. QED
        BY <4>1 DEF CacheOf, CacheName
    <3>2. ready \in [CacheName -> Seq(Inst)] /\ ready[d] \in Seq(Inst)
      BY <1>1 DEF Typed
    <3>3. /\ Append(ready[d], i) \in Seq(Inst) /\ Len(Append(ready[d], i)) = Len(ready[d]) + 1
          /\ \A n \in 1 .. Len(ready[d]) : Append(ready[d], i)[n] = ready[d][n]
          /\ Append(ready[d], i)[Len(ready[d]) + 1] = i
      BY <3>2, AppendProperties
    <3>4. /\ DOMAIN ready[d] = 1 .. Len(ready[d]) /\ Len(ready[d]) \in Nat
          /\ DOMAIN Append(ready[d], i) = 1 .. Len(ready[d]) + 1
      BY <3>2, <3>3, LenProperties
    <3>5. ready' = [ready EXCEPT ![d] = Append(ready[d], i)]
      BY <2>16, <3>1
    <3>6. ready' \in [CacheName -> Seq(Inst)]
          /\ \A e \in CacheName : ready'[e] = IF e = d THEN Append(ready[d], i) ELSE ready[e]
      BY <3>2, <3>3, <3>5
    <3>7. Typed'
      BY <1>1, <1>2, <2>5, <2>16, <3>6 DEF Typed, warpVars, wbVars
    <3>8. Numbers'
      BY <3>7, NumbersNext
    <3>9. \A j \in Inst : Away(j)' = Away(j) /\ (AtNext(j)' <=> AtNext(j))
      <4> SUFFICES ASSUME NEW j \in Inst PROVE Away(j)' = Away(j) /\ (AtNext(j)' <=> AtNext(j))
        OBVIOUS
      <4>1. (AtNext(j)' <=> AtNext(j)) /\ One(AtNext(j))' = One(AtNext(j))
        BY <2>16 DEF AtNext, One
      <4>2. InSeq(Append(ready[d], i), j) = InSeq(ready[d], j) + One(i = j)
        BY <3>2, InSeqAppend
      <4>3. \A e \in CacheName : InSeq(ready'[e], j) = IF e = d THEN InSeq(ready[e], j) + One(i = j) ELSE InSeq(ready[e], j)
        BY <3>6, <4>2
      <4>4. /\ Away(j) = mem[j] + InSeq(fifo, j) + One(AtNext(j))
                           + InSeq(ready["tex"], j) + InSeq(ready["const"], j) + InSeq(ready["L1D"], j)
            /\ Away(j)' = mem[j] + InSeq(fifo', j) + One(AtNext(j))
                           + InSeq(ready'["tex"], j) + InSeq(ready'["const"], j) + InSeq(ready'["L1D"], j)
        BY <1>1, <1>2, <3>8, <4>1 DEF Numbers
      <4>5. d \in {"tex", "const", "L1D"}
        BY <3>1 DEF CacheName
      <4>. QED
        BY <2>6, <2>8, <4>1, <4>3, <4>4, <4>5 DEF CacheName
    <3>10. \A j \in Inst : Same(j)
      BY <2>10, <3>9 DEF Same
    <3>11. PipeApart'
      BY <1>1 DEF LdstInv, PipeApart
    <3>12. ASSUME NEW e \in CacheName, NEW n \in DOMAIN ready'[e]
           PROVE  is_load(ready'[e][n]) /\ ~P(ready'[e][n]).bypass
      <4>1. CASE e # d
        BY <3>6, <3>12, <4>1 DEF LdstInv, ReadyOK
      <4>2. CASE e = d /\ n = Len(ready[d]) + 1
        BY <2>13, <2>16, <3>3, <3>6, <4>2
      <4>3. CASE e = d /\ n # Len(ready[d]) + 1
        <5>1. n \in DOMAIN ready[d] /\ ready'[e][n] = ready[d][n]
          BY <3>3, <3>4, <3>6, <3>12, <4>3
        <5>. QED
          BY <5>1 DEF LdstInv, ReadyOK
      <4>. QED
        BY <4>1, <4>2, <4>3
    <3>13. ReadyOK'
      BY <1>1, <3>12 DEF ReadyOK, is_load, P, CacheName
    <3>. QED
      BY <1>1, <2>11, <2>16, <3>7, <3>10, <3>11, <3>13, Still DEF MovesNone, warpVars, counts
  <2>. QED
    BY <2>4, <2>14, <2>15, <2>16
<1>. QED
  BY <1>3, <1>4 DEF Respond

-----------------------------------------------------------------------------
(* The instruction at the dispatch register makes an access, of which      *)
(* there is then one more on its way (e = 1), or which is done with.       *)
LeftAt(e, i) ==
  /\ \A j \in Inst : Away(j)' = Away(j) + (IF j = i THEN e ELSE 0)
  /\ pending' \in [Warp -> [Reg -> Int]]
  /\ \A v \in Warp, r \in Reg :
       pending'[v][r] = IF v = i[1] /\ r \in P(i).dst THEN pending[v][r] - (1 - e) ELSE pending[v][r]
  /\ stores' = IF P(i).op = "store" THEN [stores EXCEPT ![i[1]] = @ + e] ELSE stores
  /\ UNCHANGED nextGlobal
  /\ P(i).op = "atomic" => e = 1

LEMMA AccessKeeps ==
  ASSUME LdstInv, Typed', ReadyOK', NEW i \in Inst, NEW e \in {0, 1},
         dispatch.inst = i, dispatch.left > 0, P(i).space # "shared",
         LeftAt(e, i), AccessMade(i), UNCHANGED <<warpVars, nextWb, atomics>>
  PROVE  LdstInv'
<1>1. Typed /\ Numbers /\ TypedCounts /\ prog' = prog /\ Numbers'
  BY NumbersAre, NumbersNext DEF LdstInv, warpVars
<1>2. Inst' = Inst /\ \A j : P(j)' = P(j) /\ (Books(j)' <=> Books(j)) /\ (is_load(j)' <=> is_load(j))
  BY <1>1, Fixed
<1>3. i[1] \in Warp /\ PlaceOK(i) /\ P(i).dst \subseteq Reg /\ P(i).n \in Nat /\ \A j \in Inst : j # None
  BY <1>1, InstIs, FieldsOf DEF LdstInv, AllPlaced, Typed
<1>4. Onward
  BY <1>1 DEF Onward, Typed, warpVars
<1>5. AtReg(i) /\ Left(i) = dispatch.left /\ Left(i) \in Nat /\ Left(i) > 0
      /\ \A j \in Inst : j # i => ~AtReg(j) /\ Left(j) = 0
  BY <1>1 DEF AtReg, Left, Numbers
<1>6. pipe' = pipe
  BY DEF AccessMade, Leave
<1>7. \A j : (InPipe(j)' <=> InPipe(j)) /\ (IsBack(j)' <=> IsBack(j))
  BY <1>6, Frame
<1>8. /\ (AtReg(i)' <=> Left(i) # 1) /\ Left(i)' = Left(i) - 1
      /\ \A j \in Inst : j # i => ~AtReg(j)' /\ Left(j)' = 0
  <2>1. CASE dispatch.left = 1
    <3>1. dispatch' = [inst |-> None, left |-> 0]
      BY <2>1 DEF AccessMade, Leave
    <3>. QED
      BY <1>3, <1>5, <2>1, <3>1 DEF AtReg, Left
  <2>2. CASE dispatch.left # 1
    <3>1. dispatch' = [dispatch EXCEPT !.left = @ - 1]
      BY <2>2 DEF AccessMade
    <3>2. dispatch'.inst = i /\ dispatch'.left = dispatch.left - 1
      BY <1>1, <3>1 DEF Typed
    <3>. QED
      BY <1>5, <2>2, <3>2 DEF AtReg, Left
  <2>. QED
    BY <2>1, <2>2
<1>9. \A j \in Inst : AtNext(j)' <=> AtNext(j)
  BY DEF AtNext, LeftAt
<1>10. OthersSame(i)
  <2>1. \A j \in Inst : j # i => Away(j)' = Away(j)
    BY <1>1 DEF LeftAt, Numbers
  <2>. QED
    BY <1>5, <1>7, <1>8, <1>9, <2>1 DEF OthersSame, Same, warpVars
<1>11. Away(i)' = Away(i) + e /\ Away(i) \in Nat /\ ~InPipe(i) /\ i \notin collected /\ i \notin collected'
  BY <1>1, <1>3, <1>5 DEF LeftAt, Numbers, PlaceOK, warpVars
<1>12. /\ InFlight(i) \in Nat /\ InFlight(i)' = InFlight(i) + e
       /\ OutOf(i) = InFlight(i) + Left(i) /\ OutOf(i)' = OutOf(i) - (1 - e) /\ OutOf(i)' = InFlight(i)' + Left(i)'
       /\ Live(i) /\ InUnit(i) /\ (InUnit(i)' <=> Left(i) # 1)
       /\ (Live(i)' <=> OutOf(i)' > 0)
  <2>1. One(IsBack(i)') = One(IsBack(i)) /\ One(IsBack(i)) \in {0, 1}
    BY <1>7 DEF One
  <2>2. InFlight(i) = Away(i) + One(IsBack(i)) /\ InFlight(i)' = Away(i)' + One(IsBack(i)')
    BY <1>1, <1>2 DEF Numbers, One
  <2>3. InFlight(i) \in Nat /\ InFlight(i)' = InFlight(i) + e
    BY <1>11, <2>1, <2>2
  <2>4. OutOf(i) = InFlight(i) + Left(i) /\ OutOf(i)' = InFlight(i)' + Left(i)'
    BY <1>1, <1>2 DEF Numbers
  <2>5. OutOf(i)' = OutOf(i) - (1 - e)
    BY <1>5, <1>8, <2>3, <2>4
  <2>6. Live(i) /\ InUnit(i) /\ (InUnit(i)' <=> Left(i) # 1)
    BY <1>1, <1>2, <1>5, <1>7, <1>8, <1>11 DEF Numbers
  <2>7. Live(i)' <=> Left(i) # 1 \/ InFlight(i)' > 0
    BY <1>1, <1>2, <1>7, <1>8, <1>11 DEF Numbers
  <2>8. Live(i)' <=> OutOf(i)' > 0
    BY <1>5, <1>8, <2>3, <2>4, <2>7
  <2>. QED
    BY <2>3, <2>4, <2>5, <2>6, <2>8
<1>13. P(i).op # "membar"
  BY <1>1, <1>3, <1>5, FieldsOf DEF PlaceOK, Typed
<1>14. PlaceOK(i)'
  <2>1. i[2] < pc[i[1]] /\ Left(i) <= P(i).n
    BY <1>3, <1>5, <1>12 DEF PlaceOK
  <2>2. Left(i)' <= P(i).n /\ (Left(i) # 1 => Left(i)' # 0)
    BY <1>3, <1>5, <1>8, <2>1
  <2>3. (IsBack(i) => is_load(i)) /\ (AtNext(i) => is_load(i) /\ P(i).bypass)
    BY <1>3 DEF PlaceOK
  <2>. QED
    BY <1>1, <1>2, <1>7, <1>8, <1>9, <1>11, <1>13, <2>1, <2>2, <2>3 DEF PlaceOK, warpVars
<1>15. \A r \in P(i).dst : Books(i) /\ r \in reserved[i[1]] /\ pending[i[1]][r] = OutOf(i)
                           /\ pending'[i[1]][r] = OutOf(i)'
  <2> SUFFICES ASSUME NEW r \in P(i).dst
               PROVE  Books(i) /\ r \in reserved[i[1]] /\ pending[i[1]][r] = OutOf(i) /\ pending'[i[1]][r] = OutOf(i)'
    OBVIOUS
  <2>1. Books(i)
    BY <1>1, FieldsOf DEF Books, Typed
  <2>2. r \in reserved[i[1]] /\ pending[i[1]][r] = OutOf(i)
    BY <1>1, <1>12, <2>1, HeldRegs DEF LdstInv
  <2>3. pending'[i[1]][r] = pending[i[1]][r] - (1 - e)
    BY <1>3 DEF LeftAt
  <2>. QED
    BY <1>12, <2>1, <2>2, <2>3
<1>16. \A v \in Warp, r \in Reg :
         r \in reserved'[v] <=> IF v = i[1] /\ r \in P(i).dst THEN Live(i)' ELSE r \in reserved[v]
  <2>1. CASE dispatch.left = 1
    <3>1. reserved' = IF is_load(i) /\ (\A r \in P(i).dst : pending'[i[1]][r] = 0)
                      THEN [reserved EXCEPT ![i[1]] = @ \ P(i).dst]
                      ELSE reserved
      BY <2>1 DEF AccessMade, Leave
    <3>2. CASE P(i).dst = {}
      <4>1. \A v \in Warp, r \in Reg : r \in reserved'[v] <=> r \in reserved[v]
        BY <1>1, <1>3, <3>1, <3>2 DEF Typed
      <4>. QED
        BY <3>2, <4>1
    <3>3. CASE P(i).dst # {} /\ OutOf(i)' = 0
      <4>1. is_load(i) /\ \A r \in P(i).dst : pending'[i[1]][r] = 0
        BY <1>15, <3>3 DEF Books
      <4>2. \A v \in Warp, r \in Reg : r \in reserved'[v] <=>
              IF v = i[1] THEN r \in reserved[v] /\ r \notin P(i).dst ELSE r \in reserved[v]
        BY <1>1, <1>3, <3>1, <4>1 DEF Typed
      <4>3. ~Live(i)'
        BY <1>12, <3>3
      <4>. QED
        BY <3>3, <4>2, <4>3
    <3>4. CASE P(i).dst # {} /\ OutOf(i)' # 0
      <4>1. ~(\A r \in P(i).dst : pending'[i[1]][r] = 0)
        BY <1>15, <3>4
      <4>2. reserved' = reserved
        BY <3>1, <4>1
      <4>3. Live(i)'
        <5>1. OutOf(i)' \in Nat
          BY <1>1, <1>2 DEF Numbers
        <5>. QED
          BY <1>12, <3>4, <5>1
      <4>. QED
        BY <1>15, <4>2, <4>3
    <3>. QED
      BY <3>2, <3>3, <3>4
  <2>2. CASE dispatch.left # 1
    <3>1. reserved' = reserved
      BY <2>2 DEF AccessMade
    <3>2. Live(i)'
      BY <1>1, <1>2, <1>5, <1>12, <2>2 DEF Numbers
    <3>. QED
      BY <1>15, <3>1, <3>2
  <2>. QED
    BY <2>1, <2>2
<1>17. RegsFollow(i)
  <2>1. \A v \in Warp, r \in Reg :
          pending'[v][r] = IF v = i[1] /\ r \in P(i).dst /\ Books(i) THEN OutOf(i)' ELSE pending[v][r]
    BY <1>15 DEF LeftAt
  <2>. QED
    BY <1>16, <2>1 DEF RegsFollow
<1>18. CountsFollow(i) /\ CountsAre
  <2>1. Here(i) /\ (Here(i)' <=> Left(i) # 1)
    BY <1>11, <1>12 DEF Here
  <2>2. inPipe' = IF Left(i) = 1 THEN [inPipe EXCEPT ![i[1]] = @ - 1] ELSE inPipe
    BY <1>5 DEF AccessMade, Leave
  <2>3. inPipe' \in [Warp -> Int] /\ \A v \in Warp :
          inPipe'[v] = inPipe[v] + (IF v = i[1] THEN One(Here(i)') - One(Here(i)) ELSE 0)
    BY <1>1, <1>3, <2>1, <2>2 DEF TypedCounts, One
  <2>4. stores' \in [Warp -> Int] /\ \A v \in Warp :
          stores'[v] = stores[v]
            + (IF v = i[1] /\ P(i).op = "store" THEN InFlight(i)' - InFlight(i) ELSE 0)
    <3>1. stores' = IF P(i).op = "store" THEN [stores EXCEPT ![i[1]] = @ + e] ELSE stores
      BY DEF LeftAt
    <3>2. InFlight(i)' - InFlight(i) = e
      BY <1>12
    <3>. QED
      BY <1>1, <1>3, <3>1, <3>2 DEF TypedCounts
  <2>5. AtomicsOut(i) = Away(i) + Left(i) /\ AtomicsOut(i)' = Away(i)' + Left(i)'
    BY <1>1, <1>2, <1>11 DEF Numbers
  <2>6. P(i).op = "atomic" => AtomicsOut(i)' - AtomicsOut(i) = 0
    BY <1>5, <1>8, <1>11, <2>5 DEF LeftAt
  <2>7. atomics' \in [Warp -> Int] /\ \A v \in Warp :
          atomics'[v] = atomics[v]
            + (IF v = i[1] /\ P(i).op = "atomic" THEN AtomicsOut(i)' - AtomicsOut(i) ELSE 0)
    BY <1>1, <2>6 DEF TypedCounts
  <2>. QED
    BY <2>3, <2>4, <2>7 DEF CountsFollow, CountsAre, LeftAt
<1>19. i[1] \notin retired
  BY <1>5, NotRetired
<1>20. PipeApart' /\ \A v \in exited : atomics'[v] <= atomics[v]
  BY <1>1, <1>6 DEF LdstInv, PipeApart, Typed, TypedCounts
<1>. QED
  BY <1>4, <1>10, <1>12, <1>14, <1>17, <1>18, <1>19, <1>20, Moved DEF MovesOne, warpVars

(* An instruction leaves that has nothing on its way.                      *)
LEMMA LeaveKeeps ==
  ASSUME LdstInv, NEW i \in Inst, dispatch.inst = i,
         P(i).space = "shared" => ~is_load(i),
         P(i).space # "shared" => dispatch.left = 0,
         Leave(i, pending), piece' \in 1 .. 5,
         UNCHANGED <<warpVars, cacheVars, wbVars, pending, stores, atomics>>
  PROVE  LdstInv'
<1>1. Typed /\ Numbers /\ TypedCounts /\ prog' = prog
  BY NumbersAre DEF LdstInv, warpVars
<1>2. Inst' = Inst /\ \A j : P(j)' = P(j) /\ (Books(j)' <=> Books(j)) /\ (is_load(j)' <=> is_load(j))
  BY <1>1, Fixed
<1>3. i[1] \in Warp /\ PlaceOK(i) /\ P(i).dst \subseteq Reg /\ \A j \in Inst : j # None
  BY <1>1, InstIs, FieldsOf DEF LdstInv, AllPlaced, Typed
<1>4. Onward
  BY <1>1 DEF Onward, Typed, warpVars
<1>5. /\ dispatch' = [inst |-> None, left |-> 0] /\ pipe' = pipe
      /\ inPipe' = [inPipe EXCEPT ![i[1]] = @ - 1]
      /\ reserved' = IF is_load(i) /\ (\A r \in P(i).dst : pending[i[1]][r] = 0)
                     THEN [reserved EXCEPT ![i[1]] = @ \ P(i).dst]
                     ELSE reserved
  BY DEF Leave
<1>6. Typed'
  <2>1. reserved' \in [Warp -> SUBSET Reg]
    BY <1>1, <1>3, <1>5 DEF Typed
  <2>. QED
    BY <1>1, <1>2, <1>5, <2>1 DEF Typed, warpVars, cacheVars, wbVars
<1>7. Numbers'
  BY <1>6, NumbersNext
<1>8. \A j : /\ Away(j)' = Away(j) /\ (AtNext(j)' <=> AtNext(j))
             /\ (InPipe(j)' <=> InPipe(j)) /\ (IsBack(j)' <=> IsBack(j))
  BY <1>5, Frame DEF wbVars
<1>9. \A j \in Inst : ~AtReg(j)' /\ Left(j)' = 0 /\ (AtReg(j) <=> j = i) /\ (j # i => Left(j) = 0)
  BY <1>3, <1>5 DEF AtReg, Left
<1>10. OthersSame(i)
  BY <1>8, <1>9 DEF OthersSame, Same, warpVars
<1>11. /\ InFlight(i) = 0 /\ ~InPipe(i) /\ i \notin collected /\ i \notin collected' /\ Left(i) = dispatch.left
       /\ Away(i) = 0 /\ ~IsBack(i)
  <2>1. InFlight(i) = Away(i) + One(IsBack(i)) /\ Away(i) \in Nat
    BY <1>1 DEF Numbers
  <2>2. One(IsBack(i)) = (IF IsBack(i) THEN 1 ELSE 0)
    BY DEF One
  <2>3. Left(i) = dispatch.left /\ AtReg(i)
    BY DEF Left, AtReg
  <2>4. InFlight(i) = 0
    BY <1>3, <2>1, <2>2, <2>3 DEF PlaceOK
  <2>. QED
    BY <1>3, <2>1, <2>2, <2>3, <2>4 DEF PlaceOK, warpVars
<1>12. /\ InFlight(i)' = 0 /\ OutOf(i)' = 0 /\ ~Live(i)' /\ Live(i) /\ InUnit(i) /\ ~InUnit(i)'
  <2>1. InFlight(i)' = Away(i)' + One(IsBack(i)') /\ OutOf(i)' = InFlight(i)' + Left(i)'
    BY <1>2, <1>7 DEF Numbers, One
  <2>2. One(IsBack(i)') = 0
    BY <1>8, <1>11 DEF One
  <2>3. InFlight(i)' = 0 /\ OutOf(i)' = 0
    BY <1>8, <1>9, <1>11, <2>1, <2>2
  <2>. QED
    BY <1>1, <1>2, <1>7, <1>8, <1>9, <1>11, <2>3 DEF Numbers
<1>13. PlaceOK(i)'
  BY <1>2, <1>8, <1>9, <1>11, <1>12, <1>3 DEF PlaceOK
<1>14. RegsFollow(i)
  <2>1. P(i).dst # {} => is_load(i) /\ Books(i) /\ dispatch.left = 0 /\ OutOf(i) = 0
    <3>1. OutOf(i) = InFlight(i) + Left(i)
      BY <1>1 DEF Numbers
    <3>2. P(i).dst # {} => is_load(i)
      BY <1>1, FieldsOf DEF Typed
    <3>3. is_load(i) => Books(i) /\ dispatch.left = 0
      BY DEF Books
    <3>. QED
      BY <1>11, <3>1, <3>2, <3>3
  <2>2. \A r \in P(i).dst : r \in reserved[i[1]] /\ pending[i[1]][r] = 0
    BY <1>1, <1>12, <2>1, HeldRegs DEF LdstInv
  <2>3. \A v \in Warp, r \in Reg :
          r \in reserved'[v] <=> IF v = i[1] /\ r \in P(i).dst THEN FALSE ELSE r \in reserved[v]
    <3>1. CASE P(i).dst = {}
      BY <1>1, <1>3, <1>5, <3>1 DEF Typed
    <3>2. CASE P(i).dst # {}
      <4>1. reserved' = [reserved EXCEPT ![i[1]] = @ \ P(i).dst]
        BY <1>5, <2>1, <2>2, <3>2
      <4>. QED
        BY <1>1, <1>3, <4>1 DEF Typed
    <3>. QED
      BY <3>1, <3>2
  <2>. QED
    BY <1>12, <2>2, <2>3 DEF RegsFollow
<1>15. CountsFollow(i) /\ CountsAre
  <2>1. Here(i) /\ ~Here(i)'
    BY <1>11, <1>12 DEF Here
  <2>2. P(i).op = "atomic" => AtomicsOut(i) = 0 /\ AtomicsOut(i)' = 0
    <3>1. P(i).op = "atomic" => P(i).space # "shared"
      BY <1>1, FieldsOf DEF Typed
    <3>2. /\ AtomicsOut(i) = IF P(i).space = "shared" \/ i \in collected
                             THEN IF i \in collected \/ InUnit(i) THEN P(i).n ELSE 0
                             ELSE Away(i) + Left(i)
          /\ AtomicsOut(i)' = IF P(i).space = "shared" \/ i \in collected'
                              THEN IF i \in collected' \/ InUnit(i)' THEN P(i).n ELSE 0
                              ELSE Away(i)' + Left(i)'
      BY <1>1, <1>2, <1>7 DEF Numbers
    <3>. QED
      BY <1>8, <1>9, <1>11, <3>1, <3>2
  <2>. QED
    BY <1>1, <1>3, <1>5, <1>11, <1>12, <2>1, <2>2 DEF CountsFollow, CountsAre, One, TypedCounts
<1>16. \A v \in exited : atomics'[v] <= atomics[v]
  BY <1>1 DEF Typed, TypedCounts
<1>17. PipeApart' /\ ReadyOK'
  BY <1>2, <1>5 DEF LdstInv, PipeApart, ReadyOK, cacheVars
<1>. QED
  BY <1>4, <1>6, <1>10, <1>12, <1>13, <1>14, <1>15, <1>16, <1>17, Moved DEF MovesOne, warpVars

LEMMA MadeTyped ==
  ASSUME Typed, NEW i \in Inst, dispatch.inst = i, dispatch.left > 0, AccessMade(i)
  PROVE  /\ dispatch' \in [inst : Inst \union {None}, left : Nat]
         /\ reserved' \in [Warp -> SUBSET Reg] /\ pipe' = pipe
<1>1. dispatch \in [inst : Inst \union {None}, left : Nat] /\ reserved \in [Warp -> SUBSET Reg] /\ i[1] \in Warp
  BY InstIs DEF Typed
<1>2. CASE dispatch.left = 1
  BY <1>1, <1>2 DEF AccessMade, Leave
<1>3. CASE dispatch.left # 1
  BY <1>1, <1>3 DEF AccessMade
<1>. QED
  BY <1>2, <1>3

LEMMA SentKeeps ==
  ASSUME LdstInv, NEW i \in Inst, dispatch.inst = i, dispatch.left > 0, P(i).space # "shared",
         Sent(i), AccessMade(i), piece' \in 1 .. 5,
         UNCHANGED <<warpVars, fifo, nextGlobal, wbVars, atomics>>
  PROVE  LdstInv'
<1>1. Typed /\ Numbers /\ TypedCounts /\ prog' = prog
  BY NumbersAre DEF LdstInv, warpVars
<1>2. Inst' = Inst /\ \A j : P(j)' = P(j) /\ (is_load(j)' <=> is_load(j))
  BY <1>1, Fixed
<1>3. /\ mem' = [mem EXCEPT ![i] = @ + 1] /\ UNCHANGED <<pending, ready>>
      /\ stores' = IF P(i).op = "store" THEN [stores EXCEPT ![i[1]] = @ + 1] ELSE stores
  BY DEF Sent
<1>4. Typed'
  <2>1. mem' \in [Inst -> Nat]
    BY <1>1, <1>3 DEF Typed
  <2>. QED
    BY <1>1, <1>2, <1>3, <2>1, MadeTyped DEF Typed, warpVars, wbVars
<1>5. Numbers'
  BY <1>4, NumbersNext
<1>6. ASSUME NEW j \in Inst PROVE Away(j)' = Away(j) + (IF j = i THEN 1 ELSE 0)
  <2>1. mem'[j] = mem[j] + (IF j = i THEN 1 ELSE 0)
    BY <1>1, <1>3 DEF Typed
  <2>2. One(AtNext(j))' = One(AtNext(j))
    BY DEF AtNext, One
  <2>3. /\ Away(j) = mem[j] + InSeq(fifo, j) + One(AtNext(j))
                       + InSeq(ready["tex"], j) + InSeq(ready["const"], j) + InSeq(ready["L1D"], j)
        /\ Away(j)' = mem'[j] + InSeq(fifo, j) + One(AtNext(j))
                       + InSeq(ready["tex"], j) + InSeq(ready["const"], j) + InSeq(ready["L1D"], j)
    BY <1>1, <1>2, <1>3, <1>5, <2>2 DEF Numbers
  <2>4. /\ mem[j] \in Nat /\ InSeq(fifo, j) \in Nat /\ One(AtNext(j)) \in Nat
        /\ \A e \in CacheName : InSeq(ready[e], j) \in Nat
    BY <1>1, InSeqNat DEF Typed, One
  <2>. QED
    BY <2>1, <2>3, <2>4 DEF CacheName
<1>7. LeftAt(1, i)
  <2>1. \A v \in Warp, r \in Reg : pending'[v][r] = pending[v][r] /\ pending[v][r] \in Nat
    BY <1>1, <1>3 DEF TypedCounts
  <2>2. pending' \in [Warp -> [Reg -> Int]]
    BY <1>1, <1>3 DEF TypedCounts
  <2>. QED
    BY <1>3, <1>6, <2>1, <2>2 DEF LeftAt
<1>8. ReadyOK'
  BY <1>2, <1>3 DEF LdstInv, ReadyOK
<1>. QED
  BY <1>4, <1>7, <1>8, AccessKeeps DEF wbVars

LEMMA LoadHitKeeps ==
  ASSUME LdstInv, NEW i \in Inst, dispatch.inst = i, dispatch.left > 0, P(i).space # "shared",
         ~P(i).bypass, Hit(i), AccessMade(i), piece' \in 1 .. 5,
         UNCHANGED <<warpVars, fifo, nextGlobal, wbVars, atomics>>
  PROVE  LdstInv'
<1>1. Typed /\ Numbers /\ TypedCounts /\ prog' = prog
  BY NumbersAre DEF LdstInv, warpVars
<1>2. Inst' = Inst /\ \A j : P(j)' = P(j) /\ (is_load(j)' <=> is_load(j))
  BY <1>1, Fixed
<1>3. P(i).op # "atomic" /\ mem' = mem /\ stores' = stores /\ i[1] \in Warp /\ P(i).dst \subseteq Reg
  BY <1>1, InstIs, FieldsOf DEF Hit, Typed
<1>4. CASE P(i).space # "tex"
  <2>1. pending' = [pending EXCEPT ![i[1]] = [r \in Reg |-> IF r \in P(i).dst THEN @[r] - 1 ELSE @[r]]]
        /\ ready' = ready
    BY <1>4 DEF Hit, CountedDown
  <2>2. Typed'
    BY <1>1, <1>2, <1>3, <2>1, MadeTyped DEF Typed, warpVars, wbVars
  <2>3. Numbers'
    BY <2>2, NumbersNext
  <2>4. \A j \in Inst : Away(j)' = Away(j) + (IF j = i THEN 0 ELSE 0)
    <3>1. \A j \in Inst : Away(j)' = Away(j) /\ Away(j) \in Nat
      BY <1>1, <1>3, <2>1, Frame DEF cacheVars, Numbers
    <3>. QED
      BY <3>1
  <2>5. pending' \in [Warp -> [Reg -> Int]] /\ \A v \in Warp, r \in Reg :
          pending'[v][r] = IF v = i[1] /\ r \in P(i).dst THEN pending[v][r] - (1 - 0) ELSE pending[v][r]
    BY <1>1, <1>3, <2>1 DEF TypedCounts
  <2>6. stores' = IF P(i).op = "store" THEN [stores EXCEPT ![i[1]] = @ + 0] ELSE stores
    BY <1>1, <1>3 DEF TypedCounts
  <2>7. LeftAt(0, i)
    BY <1>3, <2>4, <2>5, <2>6 DEF LeftAt
  <2>8. ReadyOK'
    BY <1>2, <2>1 DEF LdstInv, ReadyOK
  <2>. QED
    BY <2>2, <2>7, <2>8, AccessKeeps DEF wbVars
<1>5. CASE P(i).space = "tex"
  <2>1. pending' = pending /\ ready' = [ready EXCEPT !["tex"] = Append(ready["tex"], i)]
    BY <1>5 DEF Hit
  <2>2. is_load(i) /\ P(i).op # "store"
    BY <1>1, <1>5, FieldsOf DEF Typed
  <2>3. ready \in [CacheName -> Seq(Inst)] /\ ready["tex"] \in Seq(Inst)
    BY <1>1 DEF Typed, CacheName
  <2>4. /\ Append(ready["tex"], i) \in Seq(Inst) /\ Len(Append(ready["tex"], i)) = Len(ready["tex"]) + 1
        /\ \A n \in 1 .. Len(ready["tex"]) : Append(ready["tex"], i)[n] = ready["tex"][n]
        /\ Append(ready["tex"], i)[Len(ready["tex"]) + 1] = i
    BY <2>3, AppendProperties
  <2>5. /\ DOMAIN ready["tex"] = 1 .. Len(ready["tex"]) /\ Len(ready["tex"]) \in Nat
        /\ DOMAIN Append(ready["tex"], i) = 1 .. Len(ready["tex"]) + 1
    BY <2>3, <2>4, LenProperties
  <2>6. ready' \in [CacheName -> Seq(Inst)]
        /\ \A e \in CacheName : ready'[e] = IF e = "tex" THEN Append(ready["tex"], i) ELSE ready[e]
    BY <2>1, <2>3, <2>4 DEF CacheName
  <2>7. Typed'
    BY <1>1, <1>2, <1>3, <2>1, <2>6, MadeTyped DEF Typed, warpVars, wbVars
  <2>8. Numbers'
    BY <2>7, NumbersNext
  <2>9. ASSUME NEW j \in Inst PROVE Away(j)' = Away(j) + (IF j = i THEN 1 ELSE 0)
    <3>1. InSeq(Append(ready["tex"], i), j) = InSeq(ready["tex"], j) + One(i = j)
      BY <2>3, InSeqAppend
    <3>2. InSeq(ready'["tex"], j) = InSeq(ready["tex"], j) + One(i = j)
          /\ ready'["const"] = ready["const"] /\ ready'["L1D"] = ready["L1D"]
      BY <2>6, <3>1 DEF CacheName
    <3>3. One(AtNext(j))' = One(AtNext(j))
      BY DEF AtNext, One
    <3>4. /\ Away(j) = mem[j] + InSeq(fifo, j) + One(AtNext(j))
                         + InSeq(ready["tex"], j) + InSeq(ready["const"], j) + InSeq(ready["L1D"], j)
          /\ Away(j)' = mem[j] + InSeq(fifo, j) + One(AtNext(j))
                         + InSeq(ready'["tex"], j) + InSeq(ready["const"], j) + InSeq(ready["L1D"], j)
      BY <1>1, <1>2, <1>3, <2>8, <3>2, <3>3 DEF Numbers
    <3>5. /\ mem[j] \in Nat /\ InSeq(fifo, j) \in Nat /\ One(AtNext(j)) \in Nat
          /\ \A e \in CacheName : InSeq(ready[e], j) \in Nat
      BY <1>1, InSeqNat DEF Typed, One
    <3>6. One(i = j) = IF j = i THEN 1 ELSE 0
      BY DEF One
    <3>. QED
      BY <3>2, <3>4, <3>5, <3>6 DEF CacheName
  <2>10. LeftAt(1, i)
    <3>1. \A v \in Warp, r \in Reg : pending'[v][r] = pending[v][r] /\ pending[v][r] \in Nat
      BY <1>1, <2>1 DEF TypedCounts
    <3>2. pending' \in [Warp -> [Reg -> Int]]
      BY <1>1, <2>1 DEF TypedCounts
    <3>. QED
      BY <1>3, <2>2, <2>9, <3>1, <3>2 DEF LeftAt
  <2>11. ASSUME NEW e \in CacheName, NEW n \in DOMAIN ready'[e]
         PROVE  is_load(ready'[e][n]) /\ ~P(ready'[e][n]).bypass
    <3>1. CASE e # "tex"
      BY <2>6, <2>11, <3>1 DEF LdstInv, ReadyOK
    <3>2. CASE e = "tex" /\ n = Len(ready["tex"]) + 1
      BY <2>2, <2>4, <2>6, <3>2
    <3>3. CASE e = "tex" /\ n # Len(ready["tex"]) + 1
      <4>1. n \in DOMAIN ready["tex"] /\ ready'[e][n] = ready["tex"][n]
        BY <2>4, <2>5, <2>6, <2>11, <3>3
      <4>. QED
        BY <3>3, <4>1 DEF LdstInv, ReadyOK
    <3>. QED
      BY <3>1, <3>2, <3>3
  <2>12. ReadyOK'
    BY <1>1, <2>11 DEF ReadyOK, is_load, P, CacheName
  <2>. QED
    BY <2>7, <2>10, <2>12, AccessKeeps DEF wbVars
<1>. QED
  BY <1>4, <1>5

(* The shared memory: a cycle of the bank conflicts goes by,               *)
LEMMA ConflictKeeps ==
  ASSUME LdstInv, NEW i \in Inst, dispatch.inst = i, P(i).space = "shared", dispatch.left > 1,
         dispatch' = [dispatch EXCEPT !.left = @ - 1], piece' \in 1 .. 5,
         UNCHANGED <<warpVars, cacheVars, wbVars, counts, pipe>>
  PROVE  LdstInv'
<1>1. Typed /\ Numbers /\ TypedCounts /\ prog' = prog
  BY NumbersAre DEF LdstInv, warpVars
<1>2. Inst' = Inst /\ \A j : P(j)' = P(j) /\ (Books(j)' <=> Books(j)) /\ (is_load(j)' <=> is_load(j))
  BY <1>1, Fixed
<1>3. PlaceOK(i) /\ P(i).n \in Nat /\ \A j \in Inst : j # None
  BY <1>1, InstIs, FieldsOf DEF LdstInv, AllPlaced, Typed
<1>4. Onward
  BY <1>1 DEF Onward, Typed, warpVars
<1>5. dispatch'.inst = i /\ dispatch'.left = dispatch.left - 1 /\ dispatch.left \in Nat
      /\ dispatch' \in [inst : Inst \union {None}, left : Nat]
  <2>1. dispatch \in [inst : Inst \union {None}, left : Nat] /\ dispatch.left \in Nat
    BY <1>1 DEF Typed
  <2>2. dispatch.left - 1 \in Nat
    BY <2>1
  <2>. QED
    BY <2>1, <2>2
<1>6. Typed'
  BY <1>1, <1>2, <1>5 DEF Typed, warpVars, cacheVars, wbVars, counts
<1>7. Numbers'
  BY <1>6, NumbersNext
<1>8. \A j : /\ Away(j)' = Away(j) /\ (AtNext(j)' <=> AtNext(j))
             /\ (InPipe(j)' <=> InPipe(j)) /\ (IsBack(j)' <=> IsBack(j))
  BY Frame DEF wbVars
<1>9. \A j \in Inst : (AtReg(j) <=> j = i) /\ (AtReg(j)' <=> j = i)
                      /\ Left(j) = (IF j = i THEN dispatch.left ELSE 0)
                      /\ Left(j)' = (IF j = i THEN dispatch.left - 1 ELSE 0)
  BY <1>5 DEF AtReg, Left
<1>10. OthersSame(i)
  BY <1>8, <1>9 DEF OthersSame, Same, warpVars
<1>11. /\ InFlight(i)' = InFlight(i) /\ Live(i) /\ Live(i)' /\ InUnit(i) /\ InUnit(i)' /\ ~Books(i)
       /\ InFlight(i) \in Nat
  <2>1. One(IsBack(i)') = One(IsBack(i))
    BY <1>8 DEF One
  <2>2. InFlight(i) = Away(i) + One(IsBack(i)) /\ InFlight(i)' = Away(i)' + One(IsBack(i)')
    BY <1>1, <1>2, <1>7 DEF Numbers, One
  <2>. QED
    BY <1>1, <1>2, <1>7, <1>8, <1>9, <2>1, <2>2 DEF Numbers, Books
<1>12. PlaceOK(i)'
  <2>1. Left(i)' <= P(i).n /\ Left(i)' # 0
    BY <1>3, <1>5, <1>9 DEF PlaceOK
  <2>. QED
    BY <1>2, <1>3, <1>8, <1>9, <1>11, <2>1 DEF PlaceOK, warpVars
<1>13. RegsFollow(i)
  BY <1>11, RegsStay DEF counts
<1>14. CountsFollow(i) /\ CountsAre
  <2>1. Here(i) /\ Here(i)'
    BY <1>11 DEF Here
  <2>2. AtomicsOut(i) = P(i).n /\ AtomicsOut(i)' = P(i).n
    BY <1>1, <1>2, <1>7, <1>11 DEF Numbers
  <2>3. CountsFollow(i)
    BY <1>3, <1>11, <2>1, <2>2, CountsStay DEF counts
  <2>. QED
    BY <1>1, <2>3 DEF CountsAre, TypedCounts, counts
<1>15. i[1] \notin retired
  BY <1>9, NotRetired
<1>16. PipeApart' /\ ReadyOK' /\ \A v \in exited : atomics'[v] <= atomics[v]
  BY <1>1, <1>2 DEF LdstInv, PipeApart, ReadyOK, cacheVars, Typed, TypedCounts, counts
<1>. QED
  BY <1>4, <1>6, <1>10, <1>11, <1>12, <1>13, <1>14, <1>15, <1>16, Moved DEF MovesOne, warpVars

(* and a load goes on to the pipeline.                                     *)
LEMMA ToPipeKeeps ==
  ASSUME LdstInv, NEW i \in Inst, dispatch.inst = i, P(i).space = "shared", is_load(i),
         pipe[2] = None, pipe' = [pipe EXCEPT ![2] = i],
         dispatch' = [inst |-> None, left |-> 0], piece' \in 1 .. 5,
         UNCHANGED <<warpVars, cacheVars, wbVars, counts>>
  PROVE  LdstInv'
<1>1. Typed /\ Numbers /\ TypedCounts /\ prog' = prog
  BY NumbersAre DEF LdstInv, warpVars
<1>2. Inst' = Inst /\ \A j : P(j)' = P(j) /\ (Books(j)' <=> Books(j)) /\ (is_load(j)' <=> is_load(j))
  BY <1>1, Fixed
<1>3. PlaceOK(i) /\ P(i).n \in Nat /\ \A j \in Inst : j # None
  BY <1>1, InstIs, FieldsOf DEF LdstInv, AllPlaced, Typed
<1>4. Onward
  BY <1>1 DEF Onward, Typed, warpVars
<1>5. Stage = 0 .. 2 /\ pipe' \in [Stage -> Inst \union {None}]
      /\ \A s \in Stage : pipe'[s] = IF s = 2 THEN i ELSE pipe[s]
  BY <1>1 DEF Typed, Stage
<1>6. Typed'
  <2>1. dispatch' \in [inst : Inst \union {None}, left : Nat]
    OBVIOUS
  <2>2. Stage' = Stage /\ Client' = Client
    BY DEF Stage, Client
  <2>. QED
    BY <1>1, <1>2, <1>5, <2>1, <2>2 DEF Typed, warpVars, cacheVars, wbVars, counts
<1>7. Numbers'
  BY <1>6, NumbersNext
<1>8. \A j : Away(j)' = Away(j) /\ (AtNext(j)' <=> AtNext(j)) /\ (IsBack(j)' <=> IsBack(j))
  BY Frame DEF wbVars
<1>9. \A j \in Inst : (AtReg(j) <=> j = i) /\ ~AtReg(j)' /\ Left(j)' = 0
                      /\ (j # i => Left(j) = 0)
  BY <1>3 DEF AtReg, Left
<1>10. ~InPipe(i) /\ InPipe(i)' /\ \A j \in Inst : j # i => (InPipe(j)' <=> InPipe(j))
  <2>1. ~InPipe(i)
    BY <1>3, <1>9 DEF PlaceOK
  <2>2. pipe'[2] = i /\ 2 \in Stage
    BY <1>5
  <2>3. InPipe(i)'
    BY <2>2 DEF InPipe, Stage
  <2>4. ASSUME NEW j \in Inst, j # i PROVE InPipe(j)' <=> InPipe(j)
    <3>1. (\E s \in Stage : pipe'[s] = j) <=> \E s \in Stage : pipe[s] = j
      BY <1>3, <1>5, <2>4
    <3>. QED
      BY <3>1 DEF InPipe, Stage
  <2>. QED
    BY <2>1, <2>3, <2>4
<1>11. OthersSame(i)
  BY <1>8, <1>9, <1>10 DEF OthersSame, Same, warpVars
<1>12. /\ InFlight(i)' = InFlight(i) /\ Live(i) /\ Live(i)' /\ InUnit(i) /\ InUnit(i)' /\ ~Books(i)
       /\ InFlight(i) \in Nat /\ i \notin collected
  <2>1. One(IsBack(i)') = One(IsBack(i))
    BY <1>8 DEF One
  <2>2. InFlight(i) = Away(i) + One(IsBack(i)) /\ InFlight(i)' = Away(i)' + One(IsBack(i)')
    BY <1>1, <1>2, <1>7 DEF Numbers, One
  <2>3. i \notin collected
    BY <1>3, <1>9 DEF PlaceOK
  <2>. QED
    BY <1>1, <1>2, <1>7, <1>8, <1>9, <1>10, <2>1, <2>2, <2>3 DEF Numbers, Books
<1>13. PlaceOK(i)'
  BY <1>2, <1>3, <1>8, <1>9, <1>10, <1>12 DEF PlaceOK, warpVars
<1>14. RegsFollow(i)
  BY <1>12, RegsStay DEF counts
<1>15. CountsFollow(i) /\ CountsAre
  <2>1. Here(i) /\ Here(i)'
    BY <1>12 DEF Here
  <2>2. AtomicsOut(i) = P(i).n /\ AtomicsOut(i)' = P(i).n
    BY <1>1, <1>2, <1>7, <1>12 DEF Numbers
  <2>3. CountsFollow(i)
    BY <1>3, <1>12, <2>1, <2>2, CountsStay DEF counts
  <2>. QED
    BY <1>1, <2>3 DEF CountsAre, TypedCounts, counts
<1>16. i[1] \notin retired
  BY <1>9, NotRetired
<1>17. PipeApart'
  <2>1. \A s \in Stage : pipe[s] # i
    BY <1>10 DEF InPipe
  <2>2. \A s, t \in Stage : pipe'[s] = pipe'[t] /\ pipe'[s] # None => s = t
    BY <1>5, <2>1 DEF LdstInv, PipeApart
  <2>. QED
    BY <2>2 DEF PipeApart, Stage
<1>18. ReadyOK' /\ \A v \in exited : atomics'[v] <= atomics[v]
  BY <1>1, <1>2 DEF LdstInv, ReadyOK, cacheVars, Typed, TypedCounts, counts
<1>. QED
  BY <1>4, <1>6, <1>11, <1>12, <1>13, <1>14, <1>15, <1>16, <1>17, <1>18, Moved DEF MovesOne, warpVars

LEMMA DispatchKeeps == ASSUME LdstInv, DispatchReg PROVE LdstInv'
<1>1. Typed /\ piece' \in 1 .. 5 /\ UNCHANGED <<warpVars, fifo, nextGlobal, wbVars, atomics>>
  BY DEF LdstInv, DispatchReg
<1>2. dispatch.inst # None => dispatch.inst \in Inst
  BY <1>1 DEF Typed
<1>3. CASE MakeAccess
  <2>1. PICK i \in Inst : i = dispatch.inst
    BY <1>2, <1>3 DEF MakeAccess
  <2>2. /\ dispatch.left > 0 /\ P(i).space # "shared"
        /\ \/ Sent(i) /\ AccessMade(i)
           \/ ~P(i).bypass /\ Hit(i) /\ AccessMade(i)
    BY <1>3, <2>1 DEF MakeAccess
  <2>3. CASE Sent(i) /\ AccessMade(i)
    BY <1>1, <2>1, <2>2, <2>3, SentKeeps
  <2>4. CASE ~P(i).bypass /\ Hit(i) /\ AccessMade(i)
    BY <1>1, <2>1, <2>2, <2>4, LoadHitKeeps
  <2>. QED
    BY <2>2, <2>3, <2>4
<1>4. CASE Stall
  BY <1>1, <1>4, NothingKeeps DEF Stall, cacheVars, counts
<1>5. CASE SharedAccess
  <2>1. PICK i \in Inst : i = dispatch.inst
    BY <1>2, <1>5 DEF SharedAccess
  <2>2. P(i).space = "shared" /\ UNCHANGED <<pending, mem, stores, ready>>
    BY <1>5, <2>1 DEF SharedAccess
  <2>3. \/ /\ dispatch.left > 1 /\ dispatch' = [dispatch EXCEPT !.left = @ - 1]
           /\ UNCHANGED <<pipe, inPipe, reserved>>
        \/ ~is_load(i) /\ Leave(i, pending)
        \/ /\ is_load(i) /\ pipe[2] = None /\ pipe' = [pipe EXCEPT ![2] = i]
           /\ dispatch' = [inst |-> None, left |-> 0]
           /\ UNCHANGED <<inPipe, reserved>>
        \/ UNCHANGED <<dispatch, pipe, inPipe, reserved>>
    BY <1>5, <2>1 DEF SharedAccess
  <2>4. CASE /\ dispatch.left > 1 /\ dispatch' = [dispatch EXCEPT !.left = @ - 1]
             /\ UNCHANGED <<pipe, inPipe, reserved>>
    BY <1>1, <2>1, <2>2, <2>4, ConflictKeeps DEF cacheVars, counts
  <2>5. CASE ~is_load(i) /\ Leave(i, pending)
    BY <1>1, <2>1, <2>2, <2>5, LeaveKeeps DEF cacheVars
  <2>6. CASE /\ is_load(i) /\ pipe[2] = None /\ pipe' = [pipe EXCEPT ![2] = i]
             /\ dispatch' = [inst |-> None, left |-> 0]
             /\ UNCHANGED <<inPipe, reserved>>
    BY <1>1, <2>1, <2>2, <2>6, ToPipeKeeps DEF cacheVars, counts
  <2>7. CASE UNCHANGED <<dispatch, pipe, inPipe, reserved>>
    BY <1>1, <2>2, <2>7, NothingKeeps DEF cacheVars, counts
  <2>. QED
    BY <2>3, <2>4, <2>5, <2>6, <2>7
<1>6. CASE NoAccess
  <2>1. UNCHANGED <<pending, mem, stores, ready>>
    BY <1>6 DEF NoAccess
  <2>2. CASE dispatch.inst = None
    BY <1>1, <1>6, <2>1, <2>2, NothingKeeps DEF NoAccess, cacheVars, counts
  <2>3. CASE dispatch.inst # None
    <3>1. PICK i \in Inst : i = dispatch.inst
      BY <1>2, <2>3
    <3>2. dispatch.left = 0 /\ P(i).space # "shared" /\ Leave(i, pending)
      BY <1>6, <2>3, <3>1 DEF NoAccess
    <3>. QED
      BY <1>1, <2>1, <3>1, <3>2, LeaveKeeps DEF cacheVars
  <2>. QED
    BY <2>2, <2>3
<1>. QED
  BY <1>3, <1>4, <1>5, <1>6 DEF DispatchReg

-----------------------------------------------------------------------------
LEMMA LdstInitOK == ASSUME LdstInit PROVE LdstInv
<1>1. prog \in Programs
  BY DEF LdstInit
<1>2. \A j \in Inst : j # None /\ j[1] \in Warp
  BY <1>1, InstIs
<1>3. /\ fifo = <<>> /\ Len(fifo) = 0 /\ fifo \in Seq(Inst)
      /\ DOMAIN ready = CacheName /\ \A c \in CacheName : ready[c] = <<>> /\ ready[c] \in Seq(Inst)
  BY CacheIs DEF LdstInit
<1>4. ready \in [CacheName -> Seq(Inst)]
  BY <1>3 DEF LdstInit
<1>5. Typed
  <2>1. ResponseSize \in Nat
    BY LdstAssumption
  <2>2. dispatch \in [inst : Inst \union {None}, left : Nat] /\ pipe \in [Stage -> Inst \union {None}]
    BY DEF LdstInit
  <2>. QED
    BY <1>1, <1>3, <1>4, <2>1, <2>2 DEF LdstInit, Typed, Client
<1>6. TypedCounts
  BY DEF LdstInit, TypedCounts
<1>7. Numbers
  BY <1>5, NumbersAre
<1>8. \A j : InSeq(<<>>, j) = 0
  <2> SUFFICES ASSUME NEW j PROVE Cardinality({n \in DOMAIN <<>> : <<>>[n] = j}) = 0
    BY DEF InSeq
  <2>1. {n \in DOMAIN <<>> : <<>>[n] = j} = {}
    OBVIOUS
  <2>. QED
    BY <2>1, FS_EmptySet
<1>9. ASSUME NEW j \in Inst
      PROVE  /\ j \notin collected /\ ~AtReg(j) /\ ~InPipe(j) /\ ~IsBack(j) /\ ~AtNext(j)
             /\ Away(j) = 0 /\ InFlight(j) = 0 /\ Left(j) = 0 /\ OutOf(j) = 0 /\ ~Live(j) /\ ~InUnit(j)
             /\ AtomicsOut(j) = 0
  <2>1. j \notin collected /\ ~AtReg(j) /\ ~InPipe(j) /\ ~IsBack(j) /\ ~AtNext(j)
    BY <1>2 DEF LdstInit, AtReg, InPipe, IsBack, AtNext
  <2>2. One(IsBack(j)) = 0 /\ One(AtNext(j)) = 0
    BY <2>1 DEF One
  <2>3. mem[j] = 0 /\ InSeq(fifo, j) = 0 /\ InSeq(ready.tex, j) = 0
        /\ InSeq(ready.const, j) = 0 /\ InSeq(ready.L1D, j) = 0
    BY <1>3, <1>8 DEF LdstInit, CacheName
  <2>4. Away(j) = 0
    BY <1>7, <2>2, <2>3 DEF Numbers
  <2>5. InFlight(j) = 0 /\ Left(j) = 0 /\ OutOf(j) = 0
    BY <1>7, <2>1, <2>2, <2>4 DEF Numbers
  <2>6. ~Live(j) /\ ~InUnit(j)
    BY <1>7, <2>1, <2>5 DEF Numbers
  <2>7. AtomicsOut(j) = 0
    BY <1>7, <2>1, <2>4, <2>5, <2>6 DEF Numbers
  <2>. QED
    BY <2>1, <2>4, <2>5, <2>6, <2>7
<1>10. AllPlaced
  BY <1>9 DEF AllPlaced, PlaceOK
<1>11. PipeApart /\ ReadyOK
  <2>1. PipeApart
    BY DEF LdstInit, PipeApart
  <2>. QED
    BY <1>3, <2>1 DEF ReadyOK
<1>12. RegInv
  <2>1. ReleasedWhenBack
    BY <1>9 DEF LdstInit, ReleasedWhenBack, Live
  <2>. QED
    BY <1>9, <2>1 DEF LdstInit, RegInv, OneWriter, PendingIs
<1>13. Counted
  <2> SUFFICES ASSUME NEW w \in Warp
               PROVE  /\ 0 = Total([i \in Inst |-> InFlight(i)], {i \in {k \in Inst : k[1] = w} : P(i).op = "store"})
                      /\ 0 = Cardinality({i \in {k \in Inst : k[1] = w} : i \in collected \/ InUnit(i)})
                      /\ 0 = Total([i \in Inst |-> AtomicsOut(i)], {i \in {k \in Inst : k[1] = w} : P(i).op = "atomic"})
    BY DEF LdstInit, Counted
  <2>1. Total([i \in Inst |-> InFlight(i)], {i \in {k \in Inst : k[1] = w} : P(i).op = "store"}) = 0
    BY <1>9, TotalZero
  <2>2. Total([i \in Inst |-> AtomicsOut(i)], {i \in {k \in Inst : k[1] = w} : P(i).op = "atomic"}) = 0
    BY <1>9, TotalZero
  <2>3. {i \in {k \in Inst : k[1] = w} : i \in collected \/ InUnit(i)} = {}
    BY <1>9
  <2>. QED
    BY <2>1, <2>2, <2>3, FS_EmptySet
<1>14. RetiredIsClean /\ ExitedQuiet
  BY DEF LdstInit, RetiredIsClean, ExitedQuiet
<1>. QED
  BY <1>5, <1>6, <1>10, <1>11, <1>12, <1>13, <1>14 DEF LdstInv

LEMMA LdstNextKeeps == ASSUME LdstInv, [LdstNext]_ldstVars PROVE LdstInv'
<1>1. CASE ldst_cycle
  BY <1>1, WriteOutKeeps, ArbitrateKeeps, ShiftKeeps, RespondKeeps, DispatchKeeps DEF ldst_cycle
<1>2. CASE Outside
  BY <1>2, IssueKeeps, ExitKeeps, RetireKeeps, EnterKeeps, AnswerKeeps DEF Outside
<1>3. CASE UNCHANGED ldstVars
  <2>1. piece' \in 1 .. 5
    BY <1>3 DEF ldstVars, LdstInv, Typed
  <2>. QED
    BY <1>3, <2>1, NothingKeeps DEF ldstVars
<1>. QED
  BY <1>1, <1>2, <1>3 DEF LdstNext

(* What is pending of a register is the sum of what is out, which has at   *)
(* most one term.                                                          *)
LEMMA PendingIsExact == ASSUME LdstInv PROVE PendingExact
<1>1. Typed /\ Numbers /\ RegInv
  BY NumbersAre DEF LdstInv
<1> SUFFICES ASSUME NEW w \in Warp, NEW r \in Reg
             PROVE  pending[w][r] =
                      Total([i \in Inst |-> InFlight(i) + Left(i)],
                            {i \in Inst : i[1] = w /\ is_load(i) /\ P(i).space # "shared" /\ r \in P(i).dst})
  BY DEF PendingExact
<1> DEFINE f == [i \in Inst |-> InFlight(i) + Left(i)]
           S == {i \in Inst : i[1] = w /\ is_load(i) /\ P(i).space # "shared" /\ r \in P(i).dst}
<1>2. \A i \in Inst : f[i] = OutOf(i) /\ f[i] \in Nat
  BY <1>1 DEF Numbers, OutOf
<1>3. S \subseteq Inst /\ IsFiniteSet(S)
  <2>1. S \in SUBSET Inst
    OBVIOUS
  <2>. QED
    BY <1>1, <2>1, InstFinite DEF Typed
<1>4. \A i \in Inst : i \in S <=> i[1] = w /\ Books(i) /\ r \in P(i).dst
  BY DEF Books
<1> HIDE DEF f, S
<1>5. CASE \A i \in S : OutOf(i) = 0
  <2>1. pending[w][r] = 0
    BY <1>1, <1>3, <1>4, <1>5 DEF RegInv, PendingIs
  <2>2. \A i \in S : f[i] = 0
    BY <1>2, <1>3, <1>5
  <2>3. Total(f, S) = 0
    BY <2>2, TotalZero
  <2>. QED
    BY <2>1, <2>3 DEF f, S
<1>6. CASE \E i \in S : OutOf(i) # 0
  <2>1. PICK i \in S : OutOf(i) # 0
    BY <1>6
  <2>2. i \in Inst /\ OutOf(i) > 0 /\ Live(i)
    BY <1>1, <1>3, <2>1 DEF Numbers
  <2>3. pending[w][r] = OutOf(i)
    BY <1>1, <1>4, <2>1, <2>2 DEF RegInv, PendingIs
  <2>4. \A j \in S \ {i} : f[j] = 0
    <3> SUFFICES ASSUME NEW j \in S, j # i PROVE f[j] = 0
      OBVIOUS
    <3>1. j \in Inst /\ ~Live(j)
      BY <1>1, <1>3, <1>4, <2>1, <2>2 DEF RegInv, OneWriter
    <3>. QED
      BY <1>1, <1>2, <3>1 DEF Numbers
  <2>5. Total(f, S \ {i}) = 0
    BY <2>4, TotalZero
  <2>6. \A j \in S : f[j] \in Nat
    BY <1>2, <1>3
  <2>7. Total(f, S) = Total(f, S \ {i}) + f[i]
    BY <1>3, <2>1, <2>6, TotalSplit
  <2>8. Total(f, S) = OutOf(i)
    BY <1>1, <1>2, <2>2, <2>5, <2>7 DEF Numbers
  <2>. QED
    BY <2>3, <2>8 DEF f, S
<1>. QED
  BY <1>5, <1>6

LEMMA LdstInvSays == ASSUME LdstInv PROVE AccessesCounted
<1>1. LdstTypeOK
  BY DEF LdstInv, Typed, TypedCounts, LdstTypeOK
<1>. QED
  BY <1>1, PendingIsExact DEF LdstInv, RegInv, AccessesCounted

(* The scoreboard's pending writes, the registers it reserves, and the     *)
(* stores, atomics and instructions that a warp counts as outstanding, are *)
(* those that are, whatever the programs of the warps, the sizes and the   *)
(* answers of the caches; and a slot that fetch reclaims has nothing left  *)
(* on its way (ldst_unit::writeback, cycle; shader_core_ctx::fetch).       *)
THEOREM AccessesAlwaysCounted == LdstSpec => []AccessesCounted
<1>1. LdstInit => LdstInv
  BY LdstInitOK
<1>2. LdstInv /\ [LdstNext]_ldstVars => LdstInv'
  BY LdstNextKeeps
<1>3. LdstInv => AccessesCounted
  BY LdstInvSays
<1>. QED
  BY <1>1, <1>2, <1>3, PTL DEF LdstSpec
=============================================================================
