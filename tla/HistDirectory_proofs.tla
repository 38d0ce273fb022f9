------------------------ MODULE HistDirectory_proofs ------------------------
(***************************************************************************)
(* Every operation on the HIST tables keeps them well-formed: live entries *)
(* are found by the probe of their key, fetches are parked only on entries *)
(* that WAIT, sharers are in range.  The lemmas speak of a table t, so     *)
(* that they serve every module that has tables in its state.              *)
(* First come facts on the geometry of the SMs that the tables need; then  *)
(* the invariants of HistDirectoryMachine, for any number of SMs the table *)
(* can represent, any range, any geometry of the sets and any set of keys. *)
(* Last comes the geometry itself: the torus of HistTorus is a metric      *)
(* space, and the SMs that a home tracks are the nearest ones.             *)
(***************************************************************************)
EXTENDS HistDirectoryMachine, HistTorus, FiniteSetTheorems, TLAPS

(* The side of the torus exists: six is enough for the SMs of the word.    *)
LEMMA SideFits ==
  /\ n_sm_sqrt \in 1 .. NSM
  /\ n_sm_sqrt * n_sm_sqrt >= NSM /\ (n_sm_sqrt - 1) * (n_sm_sqrt - 1) < NSM
<1>1. \E n \in 1 .. NSM : n * n >= NSM /\ (n - 1) * (n - 1) < NSM
  <2>1. CASE NSM <= 1
    <3>1. 1 \in 1 .. NSM /\ 1 * 1 >= NSM /\ (1 - 1) * (1 - 1) < NSM
      BY <2>1, GeometryAssumption
    <3>. QED
      BY <3>1
  <2>2. CASE NSM \in 2 .. 4
    <3>1. 2 \in 1 .. NSM /\ 2 * 2 >= NSM /\ (2 - 1) * (2 - 1) < NSM
      BY <2>2
    <3>. QED
      BY <3>1
  <2>3. CASE NSM \in 5 .. 9
    <3>1. 3 \in 1 .. NSM /\ 3 * 3 >= NSM /\ (3 - 1) * (3 - 1) < NSM
      BY <2>3
    <3>. QED
      BY <3>1
  <2>4. CASE NSM \in 10 .. 16
    <3>1. 4 \in 1 .. NSM /\ 4 * 4 >= NSM /\ (4 - 1) * (4 - 1) < NSM
      BY <2>4
    <3>. QED
      BY <3>1
  <2>5. CASE NSM \in 17 .. 25
    <3>1. 5 \in 1 .. NSM /\ 5 * 5 >= NSM /\ (5 - 1) * (5 - 1) < NSM
      BY <2>5
    <3>. QED
      BY <3>1
  <2>6. CASE NSM \in 26 .. 31
    <3>1. 6 \in 1 .. NSM /\ 6 * 6 >= NSM /\ (6 - 1) * (6 - 1) < NSM
      BY <2>6
    <3>. QED
      BY <3>1
  <2>. QED
    BY <2>1, <2>2, <2>3, <2>4, <2>5, <2>6, GeometryAssumption
<1>. QED
  BY <1>1 DEF n_sm_sqrt

LEMMA SideExists == n_sm_sqrt \in 1 .. NSM
  BY SideFits

(* NOC_distance is a number of hops.                                       *)
LEMMA DistanceIsNat == \A a \in SM, b \in SM : NOC_distance(a, b) \in Nat
<1>1. \A a \in Int, b \in Int : Hops(a, b) \in Nat
  <2>1. n_sm_sqrt \in Int
    BY SideExists, GeometryAssumption
  <2>. QED
    BY <2>1 DEF Hops, AB, MIN, MAX
<1>2. \A a \in SM : a % n_sm_sqrt \in Int /\ a \div n_sm_sqrt \in Int
  BY SideExists, GeometryAssumption DEF SM
<1>3. \A a \in SM, b \in SM :
        Hops(a % n_sm_sqrt, b % n_sm_sqrt) \in Nat /\ Hops(a \div n_sm_sqrt, b \div n_sm_sqrt) \in Nat
  BY <1>1, <1>2
<1>. QED
  BY <1>3 DEF NOC_distance

-----------------------------------------------------------------------------

Tables == [SM -> [Idx -> Entry]]

WellFormed(t) == t \in Tables /\ FoundByProbe(t) /\ ParkedOnWait(t) /\ LiveInRange(t)

(* The home of a block is an SM (get_home).                                *)
LEMMA HomeIsSM == \A k \in Key : get_home(k) \in SM
  BY GeometryAssumption, DirectoryAssumption DEF get_home, SM

(* u is the table t with another entry for the block k in way i.           *)
OneEntry(t, u, k, i) ==
  /\ u \in Tables
  /\ \A h \in SM, j \in Idx : (h # get_home(k) \/ j # i) => u[h][j] = t[h][j]

(* UpdateEntry changes one entry.                                          *)
LEMMA UpdateOne ==
  ASSUME NEW t \in Tables, NEW k \in Key, NEW i \in Idx, NEW e \in Entry
  PROVE  /\ OneEntry(t, UpdateEntry(t, k, i, e), k, i)
         /\ UpdateEntry(t, k, i, e)[get_home(k)][i] = e
  BY HomeIsSM DEF UpdateEntry, Tables, OneEntry

(* allocate: the entry WAITs for its new block and keeps its parked list.  *)
LEMMA AllocateEffect ==
  ASSUME NEW t \in Tables, NEW k \in Key, NEW i \in Idx
  PROVE  LET u == allocate(t, k, i)
             old == t[get_home(k)][i]
             new == u[get_home(k)][i]
         IN  /\ OneEntry(t, u, k, i)
             /\ new.status = "WAIT" /\ new.key = k
             /\ new.HI = {} /\ new.filtered = old.filtered
<1>1. get_home(k) \in SM /\ t[get_home(k)][i] \in Entry
  BY HomeIsSM DEF Tables
<1>2. PICK e : e = [status |-> "WAIT", key |-> k, HI |-> {}, filtered |-> t[get_home(k)][i].filtered]
  OBVIOUS
<1>3. /\ e.status = "WAIT" /\ e.key = k
      /\ e.HI = {}
      /\ e.filtered = t[get_home(k)][i].filtered
      /\ e \in Entry
  BY <1>1, <1>2 DEF Entry, Status, Fetch
<1>4. allocate(t, k, i) = UpdateEntry(t, k, i, e)
  BY <1>2 DEF allocate
<1>5. OneEntry(t, allocate(t, k, i), k, i) /\ allocate(t, k, i)[get_home(k)][i] = e
  BY <1>3, <1>4, UpdateOne
<1>. QED
  BY <1>3, <1>5

(* add: one more sharer.                                                   *)
LEMMA AddEffect ==
  ASSUME NEW t \in Tables, NEW k \in Key, NEW s \in SM, NEW i \in Idx
  PROVE  LET u == add(t, s, k, i)
             old == t[get_home(k)][i]
             new == u[get_home(k)][i]
         IN  /\ OneEntry(t, u, k, i)
             /\ new.status = old.status /\ new.key = old.key
             /\ new.HI = old.HI \union {s} /\ new.filtered = old.filtered
<1>1. get_home(k) \in SM /\ t[get_home(k)][i] \in Entry
  BY HomeIsSM DEF Tables
<1>2. PICK e : e = [t[get_home(k)][i] EXCEPT !.HI = @ \union {s}]
  OBVIOUS
<1>3. /\ e.status = t[get_home(k)][i].status /\ e.key = t[get_home(k)][i].key
      /\ e.HI = t[get_home(k)][i].HI \union {s}
      /\ e.filtered = t[get_home(k)][i].filtered
      /\ e \in Entry
  BY <1>1, <1>2 DEF Entry, Status, Fetch
<1>4. add(t, s, k, i) = UpdateEntry(t, k, i, e)
  BY <1>2 DEF add
<1>5. OneEntry(t, add(t, s, k, i), k, i) /\ add(t, s, k, i)[get_home(k)][i] = e
  BY <1>3, <1>4, UpdateOne
<1>. QED
  BY <1>3, <1>5

(* add_mf: one more parked fetch.                                          *)
LEMMA AddMfEffect ==
  ASSUME NEW t \in Tables, NEW k \in Key, NEW s \in SM, NEW i \in Idx
  PROVE  LET u == add_mf(t, s, k, i)
             old == t[get_home(k)][i]
             new == u[get_home(k)][i]
         IN  /\ OneEntry(t, u, k, i)
             /\ new.status = old.status /\ new.key = old.key
             /\ new.HI = old.HI /\ new.filtered = old.filtered \union {[sid |-> s, key |-> k]}
<1>1. get_home(k) \in SM /\ t[get_home(k)][i] \in Entry
  BY HomeIsSM DEF Tables
<1>2. PICK e : e = [t[get_home(k)][i] EXCEPT !.filtered = @ \union {[sid |-> s, key |-> k]}]
  OBVIOUS
<1>3. /\ e.status = t[get_home(k)][i].status /\ e.key = t[get_home(k)][i].key
      /\ e.HI = t[get_home(k)][i].HI
      /\ e.filtered = t[get_home(k)][i].filtered \union {[sid |-> s, key |-> k]}
      /\ e \in Entry
  BY <1>1, <1>2 DEF Entry, Status, Fetch
<1>4. add_mf(t, s, k, i) = UpdateEntry(t, k, i, e)
  BY <1>2 DEF add_mf
<1>5. OneEntry(t, add_mf(t, s, k, i), k, i) /\ add_mf(t, s, k, i)[get_home(k)][i] = e
  BY <1>3, <1>4, UpdateOne
<1>. QED
  BY <1>3, <1>5

(* ready: the status alone changes.                                        *)
LEMMA ReadyEffect ==
  ASSUME NEW t \in Tables, NEW k \in Key, NEW i \in Idx
  PROVE  LET u == ready(t, k, i)
             old == t[get_home(k)][i]
             new == u[get_home(k)][i]
         IN  /\ OneEntry(t, u, k, i)
             /\ new.status = "READY" /\ new.key = old.key
             /\ new.HI = old.HI /\ new.filtered = old.filtered
<1>1. get_home(k) \in SM /\ t[get_home(k)][i] \in Entry
  BY HomeIsSM DEF Tables
<1>2. PICK e : e = [t[get_home(k)][i] EXCEPT !.status = "READY"]
  OBVIOUS
<1>3. /\ e.status = "READY" /\ e.key = t[get_home(k)][i].key
      /\ e.HI = t[get_home(k)][i].HI
      /\ e.filtered = t[get_home(k)][i].filtered
      /\ e \in Entry
  BY <1>1, <1>2 DEF Entry, Status, Fetch
<1>4. ready(t, k, i) = UpdateEntry(t, k, i, e)
  BY <1>2 DEF ready
<1>5. OneEntry(t, ready(t, k, i), k, i) /\ ready(t, k, i)[get_home(k)][i] = e
  BY <1>3, <1>4, UpdateOne
<1>. QED
  BY <1>3, <1>5

(* fill_wait: the list of parked fetches is emptied.                       *)
LEMMA ReleaseEffect ==
  ASSUME NEW t \in Tables, NEW k \in Key, NEW i \in Idx
  PROVE  LET u == Release(t, k, i)
             old == t[get_home(k)][i]
             new == u[get_home(k)][i]
         IN  /\ OneEntry(t, u, k, i)
             /\ new.status = old.status /\ new.key = old.key
             /\ new.HI = old.HI /\ new.filtered = {}
<1>1. get_home(k) \in SM /\ t[get_home(k)][i] \in Entry
  BY HomeIsSM DEF Tables
<1>2. PICK e : e = [t[get_home(k)][i] EXCEPT !.filtered = {}]
  OBVIOUS
<1>3. /\ e.status = t[get_home(k)][i].status /\ e.key = t[get_home(k)][i].key
      /\ e.HI = t[get_home(k)][i].HI
      /\ e.filtered = {}
      /\ e \in Entry
  BY <1>1, <1>2 DEF Entry, Status, Fetch
<1>4. Release(t, k, i) = UpdateEntry(t, k, i, e)
  BY <1>2 DEF Release
<1>5. OneEntry(t, Release(t, k, i), k, i) /\ Release(t, k, i)[get_home(k)][i] = e
  BY <1>3, <1>4, UpdateOne
<1>. QED
  BY <1>3, <1>5

(* A table with the keys of a well-formed one and no further live entry    *)
(* finds its live entries: the probe goes by the keys alone.               *)
LEMMA SameKeys ==
  ASSUME NEW t \in Tables, NEW u \in Tables, FoundByProbe(t),
         \A h \in SM, i \in Idx :
           u[h][i].key = t[h][i].key /\ (t[h][i].status = "INVALID" => u[h][i].status = "INVALID")
  PROVE  FoundByProbe(u)
<1> SUFFICES ASSUME NEW h \in SM, NEW i \in Idx, u[h][i].status # "INVALID"
             PROVE  /\ u[h][i].key \in Key
                    /\ get_home(u[h][i].key) = h
                    /\ ProbeStopsAt(u, u[h][i].key, i)
  BY DEF FoundByProbe
<1>1. /\ t[h][i].key \in Key
      /\ get_home(t[h][i].key) = h
      /\ ProbeStopsAt(t, t[h][i].key, i)
  BY DEF FoundByProbe
<1>2. WaysOf(t[h][i].key) \subseteq Idx
  BY DEF WaysOf
<1>. QED
  BY <1>1, <1>2 DEF ProbeStopsAt

(* A way is the stopping point of at most one probe of its key.            *)
LEMMA OneStop ==
  ASSUME NEW t, NEW k \in Key, NEW i \in Idx, NEW j \in Idx,
         ProbeStopsAt(t, k, i), ProbeStopsAt(t, k, j)
  PROVE  i = j
<1>1. i \in Int /\ j \in Int
  BY DirectoryAssumption DEF Idx
<1>. QED
  BY <1>1 DEF ProbeStopsAt

(* The empty tables are well-formed.                                       *)
LEMMA EmptyWellFormed == WellFormed(EmptyTable)
<1>1. EmptyTable \in Tables
  BY DEF EmptyTable, EmptyEntry, Tables, Entry, Status
<1>2. \A h \in SM, i \in Idx : EmptyTable[h][i] = EmptyEntry
  BY DEF EmptyTable
<1>. QED
  BY <1>1, <1>2 DEF WellFormed, FoundByProbe, ParkedOnWait, LiveInRange, EmptyEntry

-----------------------------------------------------------------------------
(* An update of one live entry that keeps its key keeps the table          *)
(* well-formed when the entry itself is all right afterwards.              *)
LEMMA LiveUpdate ==
  ASSUME NEW t, WellFormed(t), NEW u, NEW k \in Key, NEW i \in Idx,
         OneEntry(t, u, k, i),
         t[get_home(k)][i].status # "INVALID",
         u[get_home(k)][i].key = t[get_home(k)][i].key,
         \A f \in u[get_home(k)][i].filtered :
           /\ u[get_home(k)][i].status = "WAIT"
           /\ f.key = u[get_home(k)][i].key
           /\ f.sid \in u[get_home(k)][i].HI,
         u[get_home(k)][i].HI # {},
         \A r \in u[get_home(k)][i].HI : check_in_range(r, get_home(k))
  PROVE  WellFormed(u)
<1>1. get_home(k) \in SM /\ t \in Tables /\ u \in Tables
  BY HomeIsSM DEF WellFormed, OneEntry
<1>2. \A h \in SM, j \in Idx :
        (h = get_home(k) /\ j = i) \/ u[h][j] = t[h][j]
  BY DEF OneEntry
<1>3. FoundByProbe(u)
  <2>1. \A h \in SM, j \in Idx :
          u[h][j].key = t[h][j].key /\ (t[h][j].status = "INVALID" => u[h][j].status = "INVALID")
    BY <1>2
  <2>. QED
    BY <1>1, <2>1, SameKeys DEF WellFormed
<1>4. ParkedOnWait(u)
  BY <1>2 DEF WellFormed, ParkedOnWait
<1>5. LiveInRange(u)
  BY <1>2 DEF WellFormed, LiveInRange
<1>. QED
  BY <1>1, <1>3, <1>4, <1>5 DEF WellFormed

(* process_probe on a miss: the entry given away does not WAIT, so its     *)
(* list of parked fetches is empty, and no other live entry has its key.   *)
LEMMA MissKeeps ==
  ASSUME NEW t, WellFormed(t), NEW k \in Key, NEW s \in SM, NEW i \in Idx,
         check_in_range(s, get_home(k)), MissAt(t, k, i)
  PROVE  LET u == add(allocate(t, k, i), s, k, i)
             new == u[get_home(k)][i]
         IN  /\ WellFormed(u)
             /\ OneEntry(t, u, k, i)
             /\ t[get_home(k)][i].status # "WAIT"
             /\ new.status = "WAIT" /\ new.key = k /\ new.HI = {s} /\ new.filtered = {}
<1>1. get_home(k) \in SM /\ t \in Tables /\ t[get_home(k)][i] \in Entry
  BY HomeIsSM DEF WellFormed, Tables
<1>2. /\ i \in WaysOf(k)
      /\ t[get_home(k)][i].status # "WAIT"
      /\ KeyAbsent(t, k) \/ HitAt(t, k, i, "INVALID")
  BY DEF MissAt, HitAt, ProbeStopsAt, WaysIn, LightWays
<1>3. t[get_home(k)][i].filtered = {}
  BY <1>1, <1>2 DEF WellFormed, ParkedOnWait
<1>4. PICK v : v = allocate(t, k, i)
  OBVIOUS
<1>5. PICK u : u = add(v, s, k, i)
  OBVIOUS
<1>6. /\ OneEntry(t, v, k, i)
      /\ v[get_home(k)][i].status = "WAIT" /\ v[get_home(k)][i].key = k
      /\ v[get_home(k)][i].HI = {}         /\ v[get_home(k)][i].filtered = {}
  BY <1>1, <1>3, <1>4, AllocateEffect
<1>7. /\ OneEntry(t, u, k, i)
      /\ u[get_home(k)][i].status = "WAIT" /\ u[get_home(k)][i].key = k
      /\ u[get_home(k)][i].HI = {s}        /\ u[get_home(k)][i].filtered = {}
  <2>1. v \in Tables
    BY <1>6 DEF OneEntry
  <2>2. /\ OneEntry(v, u, k, i)
        /\ u[get_home(k)][i].status = "WAIT" /\ u[get_home(k)][i].key = k
        /\ u[get_home(k)][i].HI = {} \union {s}
        /\ u[get_home(k)][i].filtered = {}
    BY <1>5, <1>6, <2>1, AddEffect
  <2>3. OneEntry(t, u, k, i)
    BY <1>6, <2>2 DEF OneEntry
  <2>. QED
    BY <2>2, <2>3
<1>8. \A h \in SM, j \in Idx :
        (h = get_home(k) /\ j = i) \/ u[h][j] = t[h][j]
  BY <1>7 DEF OneEntry
<1>9. FoundByProbe(u)
  <2> SUFFICES ASSUME NEW h \in SM, NEW j \in Idx, u[h][j].status # "INVALID"
               PROVE  /\ u[h][j].key \in Key
                      /\ get_home(u[h][j].key) = h
                      /\ ProbeStopsAt(u, u[h][j].key, j)
    BY DEF FoundByProbe
  <2>1. CASE h = get_home(k) /\ j = i
    <3>1. \A w \in WaysOf(k) : w < i => t[get_home(k)][w].key # k
      BY <1>2 DEF KeyAbsent, HitAt, ProbeStopsAt
    <3>2. \A w \in WaysOf(k) : w < i => w \in Idx /\ w # i
      BY DirectoryAssumption DEF WaysOf, Idx
    <3>3. \A w \in WaysOf(k) : w < i => u[get_home(k)][w].key # k
      BY <1>1, <1>8, <3>1, <3>2
    <3>. QED
      BY <1>2, <1>7, <2>1, <3>3 DEF ProbeStopsAt
  <2>2. CASE ~(h = get_home(k) /\ j = i)
    <3>1. u[h][j] = t[h][j]
      BY <1>8, <2>2
    <3>2. PICK key0 \in Key : /\ key0 = t[h][j].key
                              /\ get_home(key0) = h
                              /\ ProbeStopsAt(t, key0, j)
      BY <3>1 DEF WellFormed, FoundByProbe
    <3>3. key0 # k
      <4>1. SUFFICES ASSUME key0 = k PROVE FALSE
        OBVIOUS
      <4>2. j \in WaysOf(k) /\ t[get_home(k)][j].key = k
        BY <3>2, <4>1 DEF ProbeStopsAt
      <4>3. HitAt(t, k, i, "INVALID")
        BY <1>2, <4>2 DEF KeyAbsent
      <4>4. i = j
        BY <3>2, <4>1, <4>3, OneStop DEF HitAt
      <4>. QED
        BY <2>2, <3>2, <4>1, <4>4
    <3>4. \A w \in WaysOf(key0) : w \in Idx
      BY DEF WaysOf
    <3>5. \A w \in WaysOf(key0) : w < j => u[h][w].key # key0
      BY <1>7, <1>8, <3>2, <3>3, <3>4 DEF ProbeStopsAt
    <3>. QED
      BY <3>1, <3>2, <3>5 DEF ProbeStopsAt
  <2>. QED
    BY <2>1, <2>2
<1>10. ParkedOnWait(u)
  BY <1>7, <1>8 DEF WellFormed, ParkedOnWait
<1>11. LiveInRange(u)
  BY <1>7, <1>8 DEF WellFormed, LiveInRange
<1>12. WellFormed(u)
  BY <1>7, <1>9, <1>10, <1>11 DEF WellFormed, OneEntry
<1>. QED
  BY <1>2, <1>4, <1>5, <1>7, <1>12

(* process_probe on an entry that waits: the fetch is parked with its      *)
(* sharer bit set.                                                         *)
LEMMA ParkKeeps ==
  ASSUME NEW t, WellFormed(t), NEW k \in Key, NEW s \in SM, NEW i \in Idx,
         check_in_range(s, get_home(k)), HitAt(t, k, i, "WAIT")
  PROVE  LET u == add_mf(add(t, s, k, i), s, k, i)
             old == t[get_home(k)][i]
             new == u[get_home(k)][i]
         IN  /\ WellFormed(u)
             /\ OneEntry(t, u, k, i)
             /\ new.status = "WAIT" /\ new.key = k /\ new.HI = old.HI \union {s}
             /\ new.filtered = old.filtered \union {[sid |-> s, key |-> k]}
<1>1. /\ get_home(k) \in SM /\ t \in Tables
      /\ t[get_home(k)][i].status = "WAIT" /\ t[get_home(k)][i].key = k
  BY HomeIsSM DEF WellFormed, HitAt, ProbeStopsAt
<1>2. PICK v : v = add(t, s, k, i)
  OBVIOUS
<1>3. PICK u : u = add_mf(v, s, k, i)
  OBVIOUS
<1>4. /\ OneEntry(t, v, k, i)
      /\ v[get_home(k)][i].status = "WAIT" /\ v[get_home(k)][i].key = k
      /\ v[get_home(k)][i].HI = t[get_home(k)][i].HI \union {s}
      /\ v[get_home(k)][i].filtered = t[get_home(k)][i].filtered
  BY <1>1, <1>2, AddEffect
<1>5. /\ OneEntry(v, u, k, i)
      /\ u[get_home(k)][i].status = "WAIT" /\ u[get_home(k)][i].key = k
      /\ u[get_home(k)][i].HI = t[get_home(k)][i].HI \union {s}
      /\ u[get_home(k)][i].filtered =
           t[get_home(k)][i].filtered \union {[sid |-> s, key |-> k]}
  <2>1. v \in Tables
    BY <1>4 DEF OneEntry
  <2>. QED
    BY <1>3, <1>4, <2>1, AddMfEffect
<1>6. OneEntry(t, u, k, i)
  BY <1>4, <1>5 DEF OneEntry
<1>7. \A f \in u[get_home(k)][i].filtered : f.key = k /\ f.sid \in u[get_home(k)][i].HI
  <2>1. \A f \in t[get_home(k)][i].filtered : f.key = k /\ f.sid \in t[get_home(k)][i].HI
    BY <1>1 DEF WellFormed, ParkedOnWait
  <2>. QED
    BY <1>5, <2>1
<1>8. \A r \in u[get_home(k)][i].HI : check_in_range(r, get_home(k))
  BY <1>1, <1>5 DEF WellFormed, LiveInRange
<1>9. WellFormed(u)
  BY <1>1, <1>5, <1>6, <1>7, <1>8, LiveUpdate
<1>. QED
  BY <1>2, <1>3, <1>5, <1>6, <1>9

(* process_probe on a ready entry: one more sharer.                        *)
LEMMA GrantKeeps ==
  ASSUME NEW t, WellFormed(t), NEW k \in Key, NEW s \in SM, NEW i \in Idx,
         check_in_range(s, get_home(k)), HitAt(t, k, i, "READY")
  PROVE  LET u == add(t, s, k, i)
             old == t[get_home(k)][i]
             new == u[get_home(k)][i]
         IN  /\ WellFormed(u)
             /\ OneEntry(t, u, k, i)
             /\ old.status = "READY" /\ new.status = "READY"
             /\ new.key = k /\ new.HI = old.HI \union {s} /\ new.filtered = {}
<1>1. /\ get_home(k) \in SM /\ t \in Tables
      /\ t[get_home(k)][i].status = "READY" /\ t[get_home(k)][i].key = k
  BY HomeIsSM DEF WellFormed, HitAt, ProbeStopsAt
<1>2. PICK u : u = add(t, s, k, i)
  OBVIOUS
<1>3. t[get_home(k)][i].filtered = {}
  BY <1>1 DEF WellFormed, ParkedOnWait
<1>4. /\ OneEntry(t, u, k, i)
      /\ u[get_home(k)][i].status = "READY" /\ u[get_home(k)][i].key = k
      /\ u[get_home(k)][i].HI = t[get_home(k)][i].HI \union {s}
      /\ u[get_home(k)][i].filtered = {}
  BY <1>1, <1>2, <1>3, AddEffect
<1>5. \A r \in u[get_home(k)][i].HI : check_in_range(r, get_home(k))
  BY <1>1, <1>4 DEF WellFormed, LiveInRange
<1>6. WellFormed(u)
  BY <1>1, <1>4, <1>5, LiveUpdate
<1>. QED
  BY <1>1, <1>2, <1>4, <1>6

(* ready and fill_wait: the entry becomes ready and parks nobody.          *)
LEMMA FillKeeps ==
  ASSUME NEW t, WellFormed(t), NEW k \in Key, NEW i \in Idx, HitAt(t, k, i, "WAIT")
  PROVE  LET u == Release(ready(t, k, i), k, i)
             old == t[get_home(k)][i]
             new == u[get_home(k)][i]
         IN  /\ WellFormed(u)
             /\ OneEntry(t, u, k, i)
             /\ new.status = "READY" /\ new.key = k /\ new.HI = old.HI /\ new.filtered = {}
<1>1. /\ get_home(k) \in SM /\ t \in Tables
      /\ t[get_home(k)][i].status = "WAIT" /\ t[get_home(k)][i].key = k
  BY HomeIsSM DEF WellFormed, HitAt, ProbeStopsAt
<1>2. PICK v : v = ready(t, k, i)
  OBVIOUS
<1>3. PICK u : u = Release(v, k, i)
  OBVIOUS
<1>4. /\ OneEntry(t, v, k, i)
      /\ v[get_home(k)][i].status = "READY" /\ v[get_home(k)][i].key = k
      /\ v[get_home(k)][i].HI = t[get_home(k)][i].HI
  BY <1>1, <1>2, ReadyEffect
<1>5. /\ OneEntry(v, u, k, i)
      /\ u[get_home(k)][i].status = "READY" /\ u[get_home(k)][i].key = k
      /\ u[get_home(k)][i].HI = t[get_home(k)][i].HI
      /\ u[get_home(k)][i].filtered = {}
  <2>1. v \in Tables
    BY <1>4 DEF OneEntry
  <2>. QED
    BY <1>3, <1>4, <2>1, ReleaseEffect
<1>6. OneEntry(t, u, k, i)
  BY <1>4, <1>5 DEF OneEntry
<1>7. u[get_home(k)][i].HI # {} /\ \A r \in u[get_home(k)][i].HI : check_in_range(r, get_home(k))
  BY <1>1, <1>5 DEF WellFormed, LiveInRange
<1>8. WellFormed(u)
  BY <1>1, <1>5, <1>6, <1>7, LiveUpdate
<1>. QED
  BY <1>2, <1>3, <1>5, <1>6, <1>8

(* del, for any set of keys: entries that WAIT and keys are left alone,    *)
(* sharers only go, and an entry is live as long as it has one.            *)
LEMMA DelKeeps ==
  ASSUME NEW t, WellFormed(t), NEW s \in SM, NEW keys
  PROVE  LET u == delAll(t, s, keys)
         IN  /\ WellFormed(u)
             /\ \A h \in SM, i \in Idx :
                  /\ u[h][i].key = t[h][i].key
                  /\ u[h][i].filtered = t[h][i].filtered
                  /\ (t[h][i].status = "WAIT" \/ u[h][i].status = "WAIT") => u[h][i] = t[h][i]
                  /\ u[h][i].HI \subseteq t[h][i].HI
<1>1. t \in Tables
  BY DEF WellFormed
<1>2. PICK u : u = delAll(t, s, keys)
  OBVIOUS
<1>3. \A h \in SM, i \in Idx :
        \/ u[h][i] = t[h][i]
        \/ t[h][i].status = "READY" /\ u[h][i] = WithoutSharer(t[h][i], s)
  BY <1>2 DEF delAll, HitAt, get_home
<1>4. \A e \in Entry :
        LET n == WithoutSharer(e, s)
        IN  /\ n \in Entry
            /\ n.key = e.key /\ n.filtered = e.filtered /\ n.HI = e.HI \ {s}
            /\ n.status \in {"INVALID", e.status}
            /\ n.status # "INVALID" => n.HI # {}
  <2> SUFFICES ASSUME NEW e \in Entry
               PROVE  LET n == WithoutSharer(e, s)
                      IN  /\ n \in Entry
                          /\ n.key = e.key /\ n.filtered = e.filtered /\ n.HI = e.HI \ {s}
                          /\ n.status \in {"INVALID", e.status}
                          /\ n.status # "INVALID" => n.HI # {}
    OBVIOUS
  <2>1. CASE e.HI \subseteq {s}
    BY <2>1 DEF WithoutSharer, Entry, Status
  <2>2. CASE ~(e.HI \subseteq {s})
    BY <2>2 DEF WithoutSharer, Entry, Status
  <2>. QED
    BY <2>1, <2>2
<1>5. u \in Tables
  <2>1. \A h \in SM, i \in Idx : t[h][i] \in Entry
    BY <1>1 DEF Tables
  <2>2. \A h \in SM, i \in Idx : u[h][i] \in Entry
    BY <1>3, <1>4, <2>1
  <2>. QED
    BY <1>2, <2>2 DEF Tables, delAll
<1>6. \A h \in SM, i \in Idx :
        /\ u[h][i].key = t[h][i].key
        /\ u[h][i].filtered = t[h][i].filtered
        /\ (t[h][i].status = "WAIT" \/ u[h][i].status = "WAIT") => u[h][i] = t[h][i]
        /\ u[h][i].HI \subseteq t[h][i].HI
        /\ u[h][i].status \in {"INVALID", t[h][i].status}
        /\ u[h][i].status # "INVALID" => u[h][i] = t[h][i] \/ u[h][i].HI # {}
  BY <1>1, <1>3, <1>4 DEF Tables
<1>7. FoundByProbe(u)
  BY <1>1, <1>5, <1>6, SameKeys DEF WellFormed
<1>8. ParkedOnWait(u)
  BY <1>6 DEF WellFormed, ParkedOnWait
<1>9. LiveInRange(u)
  BY <1>6 DEF WellFormed, LiveInRange
<1>10. WellFormed(u)
  BY <1>5, <1>7, <1>8, <1>9 DEF WellFormed
<1>. QED
  BY <1>2, <1>6, <1>10

-----------------------------------------------------------------------------
(* The machine.                                                            *)

(* Each operation of the machine keeps the tables well-formed.             *)
LEMMA StepKeeps ==
  ASSUME WellFormed(table), DirNext
  PROVE  WellFormed(table')
<1>1. ASSUME NEW s \in SM, NEW k \in Key, DirLookup(s, k)
      PROVE  WellFormed(table')
  <2>1. check_in_range(s, get_home(k))
    BY <1>1 DEF DirLookup
  <2>2. PICK i \in Idx :
          \/ MissAt(table, k, i) /\ table' = add(allocate(table, k, i), s, k, i)
          \/ HitAt(table, k, i, "WAIT") /\ table' = add_mf(add(table, s, k, i), s, k, i)
          \/ HitAt(table, k, i, "READY") /\ table' = add(table, s, k, i)
    BY <1>1 DEF DirLookup
  <2>. QED
    BY <2>1, <2>2, MissKeeps, ParkKeeps, GrantKeeps
<1>2. ASSUME NEW s \in SM, NEW k \in Key, DirFill(s, k)
      PROVE  WellFormed(table')
  BY <1>2, FillKeeps DEF DirFill
<1>3. ASSUME NEW s \in SM, NEW keys \in SUBSET (Key \union {0}), DirRemove(s, keys)
      PROVE  WellFormed(table')
  BY <1>3, DelKeeps DEF DirRemove
<1>. QED
  BY <1>1, <1>2, <1>3 DEF DirNext

(* The tables are well-formed in every reachable state.                    *)
THEOREM TablesWellFormed == DirectorySpec => []WellFormed(table)
<1>1. DirInit => WellFormed(table)
  BY EmptyWellFormed DEF DirInit
<1>2. WellFormed(table) /\ [DirNext]_table => WellFormed(table)'
  <2> SUFFICES ASSUME WellFormed(table), [DirNext]_table PROVE WellFormed(table')
    OBVIOUS
  <2>1. CASE DirNext
    BY <2>1, StepKeeps
  <2>2. CASE UNCHANGED table
    BY <2>2
  <2>. QED
    BY <2>1, <2>2
<1>. QED
  BY <1>1, <1>2, PTL DEF DirectorySpec

(* A live entry is where the probe of its key finds it.                    *)
THEOREM AlwaysFoundByProbe == DirectorySpec => []EntryFoundByProbe
<1>1. WellFormed(table) => EntryFoundByProbe
  BY DEF WellFormed, EntryFoundByProbe
<1>. QED
  BY <1>1, TablesWellFormed, PTL

(* Fetches are parked only on entries that WAIT for their block.           *)
THEOREM AlwaysParkedOnlyOnWait == DirectorySpec => []ParkedOnlyOnWait
<1>1. WellFormed(table) => ParkedOnlyOnWait
  BY DEF WellFormed, ParkedOnlyOnWait
<1>. QED
  BY <1>1, TablesWellFormed, PTL

(* A live entry has sharers, all of them in range.                         *)
THEOREM AlwaysSharersInRange == DirectorySpec => []SharersInRange
<1>1. WellFormed(table) => SharersInRange
  BY DEF WellFormed, SharersInRange
<1>. QED
  BY <1>1, TablesWellFormed, PTL

-----------------------------------------------------------------------------
(* The geometry.  First, numbers.                                         *)

(* A set of numbers has a least one: the intervals up to its members are   *)
(* finite sets, among which inclusion is well founded.                     *)
LEMMA LeastNat ==
  ASSUME NEW T \in SUBSET Nat, T # {}
  PROVE  \E m \in T : \A n \in T : m <= n
<1>1. PICK A : A = {0 .. n : n \in T}
  OBVIOUS
<1>2. A \subseteq FiniteSubsetsOf(Nat) /\ A # {}
  <2>1. ASSUME NEW n \in T PROVE 0 .. n \in FiniteSubsetsOf(Nat)
    BY FS_Interval, 0 \in Int, n \in Int, 0 .. n \subseteq Nat DEF FiniteSubsetsOf
  <2>. QED
    BY <1>1, <2>1
<1>3. PICK X \in A : \A Y \in A : ~(<<Y, X>> \in StrictSubsetOrdering(Nat))
  BY <1>2, WFMin, FS_StrictSubsetOrderingWellFounded
<1>4. PICK m \in T : X = 0 .. m
  BY <1>1
<1>5. ASSUME NEW n \in T, n < m PROVE FALSE
  <2>1. 0 .. n \in A
    BY <1>1
  <2>2. 0 .. n \subseteq 0 .. m /\ m \in 0 .. m /\ m \notin 0 .. n
    BY <1>5
  <2>3. 0 .. n \in SUBSET Nat /\ 0 .. m \in SUBSET Nat /\ 0 .. n # 0 .. m
    BY <2>2
  <2>4. <<0 .. n, 0 .. m>> \in StrictSubsetOrdering(Nat)
    BY <2>2, <2>3 DEF StrictSubsetOrdering
  <2>. QED
    BY <1>3, <1>4, <2>1, <2>4
<1>. QED
  BY <1>5

(* What holds of 0 and of the number after each of which it holds.         *)
LEMMA NatInd ==
  ASSUME NEW T \in SUBSET Nat, 0 \in T, \A n \in T : n + 1 \in T
  PROVE  T = Nat
<1> SUFFICES ASSUME T # Nat PROVE FALSE
  OBVIOUS
<1>1. PICK m \in Nat \ T : \A n \in Nat \ T : m <= n
  <2>1. Nat \ T \in SUBSET Nat /\ Nat \ T # {}
    OBVIOUS
  <2>. QED
    BY <2>1, LeastNat
<1>2. m - 1 \in Nat
  BY <1>1
<1>. QED
  BY <1>1, <1>2

(* The remainder and the quotient of a multiple and a rest.                *)
LEMMA ModRest ==
  ASSUME NEW L \in Nat \ {0}, NEW q \in Nat, NEW r \in 0 .. L - 1
  PROVE  (L * q + r) % L = r /\ (L * q + r) \div L = q
OBVIOUS

(* Every number is a multiple and a remainder: induction.                  *)
LEMMA QuotientExists ==
  ASSUME NEW L \in Nat \ {0}, NEW k \in Nat
  PROVE  \E q \in Nat, r \in 0 .. L - 1 : k = L * q + r
<1>1. PICK T : T = {x \in Nat : \E q \in Nat, r \in 0 .. L - 1 : x = L * q + r}
  OBVIOUS
<1>2. 0 \in T
  <2>1. 0 \in Nat /\ 0 \in 0 .. L - 1 /\ 0 = L * 0 + 0
    OBVIOUS
  <2>. QED
    BY <1>1, <2>1
<1>3. ASSUME NEW x \in T PROVE x + 1 \in T
  <2>1. PICK q \in Nat, r \in 0 .. L - 1 : x = L * q + r
    BY <1>1
  <2>2. CASE r = L - 1
    <3>1. x + 1 = L * (q + 1) + 0 /\ q + 1 \in Nat /\ 0 \in 0 .. L - 1 /\ x + 1 \in Nat
      BY <1>1, <2>1, <2>2
    <3>2. \E p \in Nat, s \in 0 .. L - 1 : x + 1 = L * p + s
      BY <3>1
    <3>. QED
      BY <1>1, <3>1, <3>2
  <2>3. CASE r # L - 1
    <3>1. x + 1 = L * q + (r + 1) /\ r + 1 \in 0 .. L - 1 /\ x + 1 \in Nat
      BY <1>1, <2>1, <2>3
    <3>. QED
      BY <1>1, <3>1
  <2>. QED
    BY <2>2, <2>3
<1>4. T = Nat
  BY <1>1, <1>2, <1>3, NatInd
<1>5. k \in T
  BY <1>4
<1>. QED
  BY <1>1, <1>5

-----------------------------------------------------------------------------
(* Distances. *)

(* Along one dimension the hops are the shorter way round a ring.          *)
LEMMA RingDistance ==
  ASSUME NEW a \in 0 .. n_sm_sqrt - 1, NEW b \in 0 .. n_sm_sqrt - 1
  PROVE  /\ Hops(a, b) \in Nat /\ Hops(a, b) = Hops(b, a)
         /\ Hops(a, b) = 0 <=> a = b
         /\ Hops(a, b) <= n_sm_sqrt \div 2
         /\ \A c \in 0 .. n_sm_sqrt - 1 : Hops(a, c) <= Hops(a, b) + Hops(b, c)
<1>1. PICK n \in Nat \ {0} : n = n_sm_sqrt
  BY SideExists, GeometryAssumption
<1>2. \A x, y \in 0 .. n - 1 :
        Hops(x, y) = IF x <= y THEN (IF y - x <= x + n - y THEN y - x ELSE x + n - y)
                               ELSE (IF x - y <= y + n - x THEN x - y ELSE y + n - x)
  BY <1>1 DEF Hops, AB, MIN, MAX
<1>3. n \div 2 \in Nat /\ (n = 2 * (n \div 2) \/ n = 2 * (n \div 2) + 1)
  BY <1>1
<1>4. Hops(a, b) \in Nat /\ Hops(a, b) = Hops(b, a) /\ (Hops(a, b) = 0 <=> a = b)
  BY <1>1, <1>2
<1>5. Hops(a, b) <= n \div 2
  BY <1>1, <1>2, <1>3
<1>6. ASSUME NEW c \in 0 .. n - 1 PROVE Hops(a, c) <= Hops(a, b) + Hops(b, c)
  BY <1>1, <1>2
<1>. QED
  BY <1>1, <1>4, <1>5, <1>6

(* An SM has a row and a column of the square, which name it.              *)
LEMMA Coordinates ==
  /\ \A a \in SM : a % n_sm_sqrt \in 0 .. n_sm_sqrt - 1 /\ a \div n_sm_sqrt \in 0 .. n_sm_sqrt - 1
  /\ \A a, b \in SM : a % n_sm_sqrt = b % n_sm_sqrt /\ a \div n_sm_sqrt = b \div n_sm_sqrt => a = b
<1>1. n_sm_sqrt \in 1 .. NSM /\ n_sm_sqrt * n_sm_sqrt >= NSM /\ (n_sm_sqrt - 1) * (n_sm_sqrt - 1) < NSM
  BY SideFits
<1>2. PICK n \in 1 .. 6 : n = n_sm_sqrt
  <2>1. PICK n \in Nat : n = n_sm_sqrt
    BY <1>1, GeometryAssumption
  <2>2. CASE n > 6
    <3>1. PICK m \in Nat : m = n - 1
      BY <2>2
    <3>2. m * m < 31 /\ m >= 6
      BY <1>1, <2>1, <2>2, <3>1, GeometryAssumption
    <3>3. m * m >= 6 * 6
      BY <3>2
    <3>. QED
      BY <3>2, <3>3
  <2>3. CASE n <= 6
    BY <1>1, <2>1, <2>3, GeometryAssumption
  <2>. QED
    BY <2>1, <2>2, <2>3
<1>3. NSM <= n * n /\ NSM \in Nat
  BY <1>1, <1>2, GeometryAssumption
<1>4. ASSUME NEW a \in Nat, a < n * n
      PROVE  \E q, r \in 0 .. n - 1 : q = a \div n /\ r = a % n /\ a = n * q + r
  <2>1. n \in Nat \ {0}
    BY <1>2
  <2>2. PICK q \in Nat, r \in 0 .. n - 1 : a = n * q + r
    BY <2>1, QuotientExists
  <2>3. a % n = r /\ a \div n = q
    BY <2>1, <2>2, ModRest
  <2>4. q <= n - 1
    <3>1. CASE q >= n
      <4>1. n * q >= n * n
        BY <1>2, <2>2, <3>1
      <4>. QED
        BY <1>2, <1>4, <2>2, <4>1
    <3>. QED
      BY <1>2, <2>2, <3>1
  <2>5. q \in 0 .. n - 1
    BY <2>1, <2>4
  <2>. QED
    BY <2>2, <2>3, <2>5
<1>5. \A a \in SM : a \in Nat /\ a < n * n
  BY <1>3 DEF SM
<1>6. ASSUME NEW a \in SM, NEW b \in SM, a % n = b % n, a \div n = b \div n PROVE a = b
  <2>1. PICK q, r \in 0 .. n - 1 : q = a \div n /\ r = a % n /\ a = n * q + r
    BY <1>4, <1>5
  <2>2. PICK p, u \in 0 .. n - 1 : p = b \div n /\ u = b % n /\ b = n * p + u
    BY <1>4, <1>5
  <2>3. q = p /\ r = u
    BY <1>6, <2>1, <2>2
  <2>. QED
    BY <2>1, <2>2, <2>3
<1>. QED
  BY <1>2, <1>4, <1>5, <1>6

(* NOC_distance is a metric.                                               *)
LEMMA Metric ==
  ASSUME NEW a \in SM, NEW b \in SM, NEW c \in SM
  PROVE  DistanceIsMetric(a, b, c)
<1> DEFINE n == n_sm_sqrt
<1>1. PICK h \in Nat : h = n \div 2
  BY SideExists, GeometryAssumption
<1>2. \A s \in SM : s % n \in 0 .. n - 1 /\ s \div n \in 0 .. n - 1
  BY Coordinates
<1>3. \A x, y, z \in 0 .. n - 1 :
        /\ Hops(x, y) \in Nat /\ Hops(x, y) = Hops(y, x)
        /\ Hops(x, y) = 0 <=> x = y
        /\ Hops(x, y) <= h
        /\ Hops(x, z) <= Hops(x, y) + Hops(y, z)
  BY <1>1, RingDistance
<1>4. a % n = b % n /\ a \div n = b \div n => a = b
  BY Coordinates
<1>5. PICK ax, ay, bx, by, cx, cy \in 0 .. n - 1 :
        /\ ax = a % n /\ bx = b % n /\ cx = c % n
        /\ ay = a \div n /\ by = b \div n /\ cy = c \div n
  BY <1>2
<1>6. /\ NOC_distance(a, b) = Hops(ax, bx) + Hops(ay, by)
      /\ NOC_distance(b, a) = Hops(bx, ax) + Hops(by, ay)
      /\ NOC_distance(a, c) = Hops(ax, cx) + Hops(ay, cy)
      /\ NOC_distance(b, c) = Hops(bx, cx) + Hops(by, cy)
  BY <1>5 DEF NOC_distance
<1>7. NOC_distance(a, b) = NOC_distance(b, a)
  BY <1>3, <1>5, <1>6
<1>8. NOC_distance(a, b) = 0 <=> a = b
  <2>1. ax = bx /\ ay = by <=> a = b
    BY <1>4, <1>5
  <2>2. PICK u, v \in Nat : u = Hops(ax, bx) /\ v = Hops(ay, by)
    BY <1>3, <1>5
  <2>3. (u = 0 <=> ax = bx) /\ (v = 0 <=> ay = by)
    BY <1>3, <1>5, <2>2
  <2>. QED
    BY <1>6, <2>1, <2>2, <2>3
<1>9. NOC_distance(a, c) <= NOC_distance(a, b) + NOC_distance(b, c)
  BY <1>3, <1>5, <1>6
<1>10. NOC_distance(a, b) <= 2 * (n \div 2)
  BY <1>1, <1>3, <1>5, <1>6
<1>. QED
  BY <1>7, <1>8, <1>9, <1>10 DEF DistanceIsMetric

-----------------------------------------------------------------------------
(* The order of the SMs around a home. *)

(* ComesBefore is a strict total order that starts with the home.          *)
LEMMA AroundHome ==
  ASSUME NEW home \in SM
  PROVE  /\ \A a \in SM : ~ComesBefore(a, a, home)
         /\ \A a, b \in SM : a # b => ComesBefore(a, b, home) \/ ComesBefore(b, a, home)
         /\ \A a, b, c \in SM : ComesBefore(a, b, home) /\ ComesBefore(b, c, home)
                                  => ComesBefore(a, c, home)
         /\ \A a \in SM : ~ComesBefore(a, home, home)
<1>1. PICK d : d = [a \in SM |-> NOC_distance(a, home)]
  OBVIOUS
<1>2. \A a \in SM : d[a] \in Nat /\ (d[a] = 0 <=> a = home) /\ a \in Int
  <2>1. \A a \in SM : DistanceIsMetric(a, home, home)
    BY Metric
  <2>2. \A a \in SM : NOC_distance(a, home) \in Nat /\ (NOC_distance(a, home) = 0 <=> a = home)
    BY <2>1, DistanceIsNat DEF DistanceIsMetric
  <2>3. \A a \in SM : a \in Int
    BY GeometryAssumption DEF SM
  <2>. QED
    BY <1>1, <2>2, <2>3
<1>3. \A a, b \in SM : ComesBefore(a, b, home) <=> d[a] < d[b] \/ (d[a] = d[b] /\ a < b)
  BY <1>1 DEF ComesBefore
<1>4. \A a \in SM : ~ComesBefore(a, a, home)
  BY <1>2, <1>3
<1>5. \A a, b \in SM : a # b => ComesBefore(a, b, home) \/ ComesBefore(b, a, home)
  BY <1>2, <1>3
<1>6. \A a, b, c \in SM : ComesBefore(a, b, home) /\ ComesBefore(b, c, home) => ComesBefore(a, c, home)
  BY <1>2, <1>3
<1>7. ASSUME NEW a \in SM, ComesBefore(a, home, home) PROVE FALSE
  <2>1. d[home] = 0 /\ d[a] \in Nat
    BY <1>2
  <2>2. d[a] = 0 /\ a < home
    BY <1>3, <1>7, <2>1
  <2>. QED
    BY <1>2, <2>2, GeometryAssumption DEF SM
<1>. QED
  BY <1>4, <1>5, <1>6, <1>7

(* The SMs that the loop counts before it comes to a.                      *)
Ahead(a, home) == {s \in SM : ComesBefore(s, a, home)}

(* There are NSM SMs.                                                      *)
LEMMA CountSMs == IsFiniteSet(SM) /\ Cardinality(SM) = NSM
<1>1. 0 \in Int /\ NSM - 1 \in Int
  BY GeometryAssumption
<1>2. IsFiniteSet(0 .. NSM - 1) /\ Cardinality(0 .. NSM - 1) = (IF 0 > NSM - 1 THEN 0 ELSE NSM - 1 - 0 + 1)
  BY <1>1, FS_Interval
<1>. QED
  BY <1>2, GeometryAssumption DEF SM

(* Counting who comes before numbers the SMs from 0 on.                    *)
LEMMA Ranks ==
  ASSUME NEW home \in SM
  PROVE  \E rank \in Bijection(SM, 0 .. NSM - 1) :
           /\ \A a \in SM : rank[a] = Cardinality(Ahead(a, home))
           /\ \A a, b \in SM : ComesBefore(a, b, home) => rank[a] < rank[b]
           /\ rank[home] = 0
<1>1. PICK rank : rank = [a \in SM |-> Cardinality(Ahead(a, home))]
  OBVIOUS
<1>2. \A a \in SM : IsFiniteSet(Ahead(a, home)) /\ Cardinality(Ahead(a, home)) \in Nat
  BY CountSMs, FS_Subset, FS_CardinalityType DEF Ahead
<1>3. ASSUME NEW a \in SM, NEW b \in SM, ComesBefore(a, b, home) PROVE rank[a] < rank[b]
  <2>1. Ahead(a, home) \cup {a} \subseteq Ahead(b, home) /\ a \notin Ahead(a, home)
    BY <1>3, AroundHome DEF Ahead
  <2>2. Cardinality(Ahead(a, home) \cup {a}) = Cardinality(Ahead(a, home)) + 1
    BY <1>2, <2>1, FS_AddElement
  <2>3. Cardinality(Ahead(a, home) \cup {a}) <= Cardinality(Ahead(b, home))
    BY <1>2, <2>1, FS_Subset
  <2>. QED
    BY <1>1, <1>2, <2>2, <2>3
<1>4. ASSUME NEW a \in SM PROVE rank[a] \in 0 .. NSM - 1
  <2>1. Ahead(a, home) \cup {a} \subseteq SM /\ a \notin Ahead(a, home)
    BY AroundHome DEF Ahead
  <2>2. Cardinality(Ahead(a, home) \cup {a}) = Cardinality(Ahead(a, home)) + 1
    BY <1>2, <2>1, FS_AddElement
  <2>3. Cardinality(Ahead(a, home) \cup {a}) <= NSM
    BY <2>1, CountSMs, FS_Subset
  <2>. QED
    BY <1>1, <1>2, <2>2, <2>3, GeometryAssumption
<1>5. rank \in [SM -> 0 .. NSM - 1]
  BY <1>1, <1>4
<1>6. \A a, b \in SM : rank[a] = rank[b] => a = b
  <2>1. ASSUME NEW a \in SM, NEW b \in SM, a # b PROVE rank[a] # rank[b]
    <3>1. rank[a] \in Nat /\ rank[b] \in Nat
      BY <1>1, <1>2
    <3>. QED
      BY <1>3, <2>1, <3>1, AroundHome
  <2>. QED
    BY <2>1
<1>7. rank \in Injection(SM, 0 .. NSM - 1)
  BY <1>5, <1>6 DEF Injection, IsInjective
<1>8. IsFiniteSet(0 .. NSM - 1) /\ Cardinality(0 .. NSM - 1) = Cardinality(SM)
  BY CountSMs DEF SM
<1>9. rank \in Surjection(SM, 0 .. NSM - 1)
  BY <1>7, <1>8, FS_Injection
<1>10. rank \in Bijection(SM, 0 .. NSM - 1)
  BY <1>7, <1>9 DEF Bijection
<1>11. rank[home] = 0
  <2>1. Ahead(home, home) = {}
    BY AroundHome DEF Ahead
  <2>. QED
    BY <1>1, <2>1, FS_EmptySet
<1>12. \A a \in SM : rank[a] = Cardinality(Ahead(a, home))
  BY <1>1
<1>. QED
  BY <1>3, <1>10, <1>11, <1>12

(* So the SMs in range are as many as configured, and the nearest.         *)
LEMMA Nearest ==
  ASSUME NEW a \in SM, NEW b \in SM, NEW home \in SM
  PROVE  RangeIsNearest(a, b, home)
<1>1. PICK R \in Nat \ {0} : R = MAX(HistRange, 1)
  BY GeometryAssumption DEF MAX
<1>2. PICK rank \in Bijection(SM, 0 .. NSM - 1) :
           /\ \A s \in SM : rank[s] = Cardinality(Ahead(s, home))
           /\ \A s, t \in SM : ComesBefore(s, t, home) => rank[s] < rank[t]
           /\ rank[home] = 0
  BY Ranks
<1>3. \A s \in SM : check_in_range(s, home) <=> rank[s] < R
  BY <1>1, <1>2 DEF check_in_range, Ahead
<1>4. \A s \in SM : rank[s] \in 0 .. NSM - 1
  BY <1>2 DEF Bijection, Injection
<1>5. check_in_range(home, home)
  BY <1>1, <1>2, <1>3
<1>6. check_in_range(a, home) /\ ~check_in_range(b, home) => NOC_distance(a, home) <= NOC_distance(b, home)
  <2>1. rank[a] < rank[b] => ~ComesBefore(b, a, home)
    BY <1>2, <1>4
  <2>2. check_in_range(a, home) /\ ~check_in_range(b, home) => rank[a] < rank[b]
    BY <1>3, <1>4, <1>1
  <2>3. NOC_distance(a, home) \in Nat /\ NOC_distance(b, home) \in Nat
    BY DistanceIsNat
  <2>. QED
    BY <2>1, <2>2, <2>3 DEF ComesBefore
<1>7. PICK M \in 1 .. NSM : M = MIN(R, NSM)
  BY <1>1, GeometryAssumption DEF MIN
<1>8. \A s \in SM : s \in InRangeOf(home) <=> rank[s] \in 0 .. M - 1
  BY <1>1, <1>3, <1>4, <1>7, GeometryAssumption DEF InRangeOf, MIN
<1>9. PICK r : r = [s \in InRangeOf(home) |-> rank[s]]
  OBVIOUS
<1>10. r \in Bijection(InRangeOf(home), 0 .. M - 1)
  <2>1. InRangeOf(home) \subseteq SM
    BY DEF InRangeOf
  <2>2. r \in [InRangeOf(home) -> 0 .. M - 1]
    BY <1>8, <1>9, <2>1
  <2>3. \A s, t \in InRangeOf(home) : r[s] = r[t] => s = t
    BY <1>2, <1>9, <2>1 DEF Bijection, Injection, IsInjective
  <2>4. \A k \in 0 .. M - 1 : \E s \in InRangeOf(home) : r[s] = k
    <3>1. ASSUME NEW k \in 0 .. M - 1 PROVE \E s \in InRangeOf(home) : r[s] = k
      <4>1. k \in 0 .. NSM - 1
        BY <1>7, GeometryAssumption
      <4>2. PICK s \in SM : rank[s] = k
        BY <1>2, <4>1 DEF Bijection, Surjection
      <4>. QED
        BY <1>8, <1>9, <4>2
    <3>. QED
      BY <3>1
  <2>. QED
    BY <2>2, <2>3, <2>4 DEF Bijection, Injection, Surjection, IsInjective
<1>11. Cardinality(InRangeOf(home)) = Cardinality(0 .. M - 1)
  <2>1. IsFiniteSet(InRangeOf(home))
    BY CountSMs, FS_Subset DEF InRangeOf
  <2>2. ExistsBijection(InRangeOf(home), 0 .. M - 1)
    BY <1>10 DEF ExistsBijection
  <2>. QED
    BY <2>1, <2>2, FS_Bijection
<1>12. Cardinality(0 .. M - 1) = M
  <2>1. 0 \in Int /\ M - 1 \in Int
    BY <1>7, GeometryAssumption
  <2>2. Cardinality(0 .. M - 1) = IF 0 > M - 1 THEN 0 ELSE M - 1 - 0 + 1
    BY <2>1, FS_Interval
  <2>. QED
    BY <1>7, <2>2, GeometryAssumption
<1>. QED
  BY <1>1, <1>5, <1>6, <1>7, <1>11, <1>12 DEF RangeIsNearest

-----------------------------------------------------------------------------
(* The loop of check_in_range. *)

(* The loop, from nothing counted and nothing known, K steps long.         *)
Start == [counter |-> 0, answer |-> "none"]

IsWalk(visit, miss_SM, home, K) ==
  visit = [i \in 0 .. K |->
            IF i = 0 THEN Start
            ELSE Visit(visit[i - 1], (i - 1) % NSM, (i - 1) \div NSM, miss_SM, home)]

(* The recursive function of the loop has the values that it states.       *)
LEMMA WalkExists ==
  ASSUME NEW miss_SM, NEW home, NEW K \in Nat
  PROVE  \E visit : IsWalk(visit, miss_SM, home, K)
<1> DEFINE next(x, i) == Visit(x, i % NSM, i \div NSM, miss_SM, home)
<1>0. \A k, visit : IsWalk(visit, miss_SM, home, k) <=>
        visit = [i \in 0 .. k |-> IF i = 0 THEN Start ELSE next(visit[i - 1], i - 1)]
  BY DEF IsWalk
<1> HIDE DEF next
<1>1. PICK T : T = {k \in Nat : \E visit : IsWalk(visit, miss_SM, home, k)}
  OBVIOUS
<1>2. 0 \in T
  <2>1. PICK visit : visit = [i \in 0 .. 0 |-> Start]
    OBVIOUS
  <2>2. visit = [i \in 0 .. 0 |-> IF i = 0 THEN Start ELSE next(visit[i - 1], i - 1)]
    BY <2>1
  <2>. QED
    BY <1>0, <1>1, <2>2
<1>3. ASSUME NEW k \in T PROVE k + 1 \in T
  <2>1. PICK visit : visit = [i \in 0 .. k |-> IF i = 0 THEN Start ELSE next(visit[i - 1], i - 1)]
    BY <1>0, <1>1
  <2>2. k \in Nat
    BY <1>1
  <2>3. PICK last : last = next(visit[k], k)
    OBVIOUS
  <2>4. PICK more : more = [i \in 0 .. k + 1 |-> IF i = k + 1 THEN last ELSE visit[i]]
    OBVIOUS
  <2>5. ASSUME NEW i \in 0 .. k + 1
        PROVE  more[i] = IF i = 0 THEN Start ELSE next(more[i - 1], i - 1)
    <3>1. CASE i = 0
      <4>1. more[i] = visit[0] /\ visit[0] = Start
        BY <2>1, <2>2, <2>4, <3>1
      <4>. QED
        BY <3>1, <4>1
    <3>2. CASE i \in 1 .. k
      <4>1. more[i] = visit[i] /\ more[i - 1] = visit[i - 1]
        BY <2>2, <2>4, <3>2
      <4>2. visit[i] = next(visit[i - 1], i - 1)
        BY <2>1, <2>2, <3>2
      <4>. QED
        BY <3>2, <4>1, <4>2
    <3>3. CASE i = k + 1
      <4>1. more[i] = last /\ more[i - 1] = visit[k] /\ i # 0 /\ i - 1 = k
        BY <2>2, <2>4, <3>3
      <4>. QED
        BY <2>3, <4>1
    <3>. QED
      BY <2>2, <3>1, <3>2, <3>3
  <2>6. more = [i \in 0 .. k + 1 |-> IF i = 0 THEN Start ELSE next(more[i - 1], i - 1)]
    BY <2>4, <2>5
  <2>7. IsWalk(more, miss_SM, home, k + 1)
    BY <1>0, <2>6
  <2>8. k + 1 \in Nat /\ \E w : IsWalk(w, miss_SM, home, k + 1)
    BY <2>2, <2>7
  <2>. QED
    BY <1>1, <2>8
<1>4. K \in T
  BY <1>1, <1>2, <1>3, NatInd
<1>. QED
  BY <1>1, <1>4

(* The SMs that the loop has come by when it is at number r of distance q. *)
Seen(q, r, home) ==
  {s \in SM : NOC_distance(s, home) < q \/ (NOC_distance(s, home) = q /\ s < r)}

(* It counts them until it knows the answer.                               *)
Knows(x, q, r, miss_SM, home) ==
  /\ x.answer \in {"none", "true", "false"}
  /\ x.answer = "none" => /\ miss_SM \notin Seen(q, r, home)
                          /\ x.counter = Cardinality(Seen(q, r, home))
                          /\ x.counter < MAX(HistRange, 1)
  /\ x.answer = "true" => check_in_range(miss_SM, home)
  /\ x.answer = "false" => ~check_in_range(miss_SM, home)

LEMMA VisitKnows ==
  ASSUME NEW miss_SM \in SM, NEW home \in SM, NEW q \in Nat, NEW r \in SM, NEW x,
         Knows(x, q, r, miss_SM, home)
  PROVE  LET y == Visit(x, r, q, miss_SM, home)
         IN  IF r = NSM - 1 THEN Knows(y, q + 1, 0, miss_SM, home)
                            ELSE Knows(y, q, r + 1, miss_SM, home)
<1> DEFINE d(s) == NOC_distance(s, home)
           y == Visit(x, r, q, miss_SM, home)
<1>1. PICK S : S = Seen(q, r, home)
  OBVIOUS
<1>2. PICK U : U = IF d(r) = q THEN S \cup {r} ELSE S
  OBVIOUS
<1>3. \A s \in SM : s \in 0 .. NSM - 1 /\ d(s) \in Nat
  BY DistanceIsNat DEF SM
<1>4. NSM \in Nat
  BY GeometryAssumption
<1> HIDE DEF d
<1>5. S = {s \in SM : d(s) < q \/ (d(s) = q /\ s < r)}
  BY <1>1 DEF Seen, d
<1>6. r = NSM - 1 => U = Seen(q + 1, 0, home)
  <2>1. Seen(q + 1, 0, home) = {s \in SM : d(s) < q + 1 \/ (d(s) = q + 1 /\ s < 0)}
    BY DEF Seen, d
  <2>2. ASSUME r = NSM - 1, NEW s \in SM
        PROVE  s \in U <=> (d(s) < q + 1 \/ (d(s) = q + 1 /\ s < 0))
    <3>1. s \in S <=> d(s) < q \/ (d(s) = q /\ s # r)
      BY <1>3, <1>4, <1>5, <2>2
    <3>2. s \in U <=> s \in S \/ (d(r) = q /\ s = r)
      BY <1>2
    <3>. QED
      BY <1>3, <1>4, <2>2, <3>1, <3>2
  <2>3. U \subseteq SM
    BY <1>2, <1>5
  <2>. QED
    BY <2>1, <2>2, <2>3
<1>7. r # NSM - 1 => U = Seen(q, r + 1, home)
  <2>1. Seen(q, r + 1, home) = {s \in SM : d(s) < q \/ (d(s) = q /\ s < r + 1)}
    BY DEF Seen, d
  <2>2. ASSUME NEW s \in SM
        PROVE  s \in U <=> (d(s) < q \/ (d(s) = q /\ s < r + 1))
    <3>1. s \in S <=> d(s) < q \/ (d(s) = q /\ s < r)
      BY <1>5
    <3>2. s \in U <=> s \in S \/ (d(r) = q /\ s = r)
      BY <1>2
    <3>3. r \in Int /\ s \in Int
      BY <1>3, <1>4
    <3>4. s < r + 1 <=> s < r \/ s = r
      BY <3>3
    <3>. QED
      BY <3>1, <3>2, <3>4
  <2>3. U \subseteq SM
    BY <1>2, <1>5
  <2>. QED
    BY <2>1, <2>2, <2>3
<1> DEFINE Known == /\ y.answer \in {"none", "true", "false"}
                    /\ y.answer = "none" => /\ miss_SM \notin U
                                            /\ y.counter = Cardinality(U)
                                            /\ y.counter < MAX(HistRange, 1)
                    /\ y.answer = "true" => check_in_range(miss_SM, home)
                    /\ y.answer = "false" => ~check_in_range(miss_SM, home)
<1>8. Known
  <2>1. /\ x.answer \in {"none", "true", "false"}
        /\ x.answer = "none" => /\ miss_SM \notin S
                                /\ x.counter = Cardinality(S)
                                /\ x.counter < MAX(HistRange, 1)
        /\ x.answer = "true" => check_in_range(miss_SM, home)
        /\ x.answer = "false" => ~check_in_range(miss_SM, home)
    BY <1>1 DEF Knows
  <2>2. CASE x.answer # "none"
    <3>1. y = x
      BY <2>2 DEF Visit
    <3>. QED
      BY <2>1, <2>2, <3>1
  <2>3. CASE x.answer = "none" /\ d(r) # q
    <3>1. y = x /\ U = S
      BY <1>2, <2>3 DEF Visit, d
    <3>. QED
      BY <2>1, <3>1
  <2>4. CASE x.answer = "none" /\ d(r) = q
    <3>1. PICK c \in Nat : c = x.counter /\ c = Cardinality(S) /\ IsFiniteSet(S)
      BY <1>5, <2>1, <2>4, CountSMs, FS_Subset, FS_CardinalityType
    <3>2. PICK R \in Nat : R = MAX(HistRange, 1) /\ R >= 1 /\ (R = HistRange \/ (R = 1 /\ HistRange = 0)) /\ c < R
      BY <2>1, <2>4, <3>1, GeometryAssumption DEF MAX
    <3>3. r \notin S /\ U = S \cup {r} /\ Cardinality(U) = c + 1
      <4>1. r \notin S
        <5>1. r \in Int /\ d(r) \in Int
          BY <1>3, <1>4
        <5>2. ~(r < r) /\ ~(d(r) < q)
          BY <2>4, <5>1
        <5>. QED
          BY <1>5, <5>2
      <4>. QED
        BY <1>2, <2>4, <3>1, <4>1, FS_AddElement
    <3>4. y = [counter |-> c + 1,
               answer |-> IF r = miss_SM THEN "true" ELSE IF c + 1 >= HistRange THEN "false" ELSE "none"]
      BY <2>4, <3>1 DEF Visit, d
    <3>5. \A s, t \in SM : ComesBefore(s, t, home) <=> d(s) < d(t) \/ (d(s) = d(t) /\ s < t)
      BY DEF ComesBefore, d
    <3>6. \A s \in SM : check_in_range(s, home) <=> Cardinality(Ahead(s, home)) < R
      BY <3>2 DEF check_in_range, Ahead
    <3>7. CASE r = miss_SM
      <4>1. Ahead(miss_SM, home) = S
        BY <1>3, <1>5, <2>4, <3>5, <3>7 DEF Ahead
      <4>2. check_in_range(miss_SM, home)
        BY <3>1, <3>2, <3>6, <4>1
      <4>3. y.answer = "true"
        BY <3>4, <3>7
      <4>. QED
        BY <4>2, <4>3
    <3>8. CASE r # miss_SM /\ c + 1 >= HistRange
      <4>1. y.answer = "false"
        BY <3>4, <3>8
      <4>2. U \subseteq Ahead(miss_SM, home)
        BY <1>3, <1>5, <2>1, <2>4, <3>3, <3>5, <3>8 DEF Ahead
      <4>3. c + 1 <= Cardinality(Ahead(miss_SM, home)) /\ Cardinality(Ahead(miss_SM, home)) \in Nat
        <5>1. IsFiniteSet(Ahead(miss_SM, home))
          BY CountSMs, FS_Subset DEF Ahead
        <5>. QED
          BY <3>3, <4>2, <5>1, FS_Subset, FS_CardinalityType
      <4>4. ~check_in_range(miss_SM, home)
        BY <3>2, <3>6, <3>8, <4>3
      <4>. QED
        BY <4>1, <4>4
    <3>9. CASE r # miss_SM /\ ~(c + 1 >= HistRange)
      <4>1. y.answer = "none" /\ y.counter = c + 1
        BY <3>4, <3>9
      <4>2. c + 1 < R
        BY <3>2, <3>9, GeometryAssumption
      <4>3. miss_SM \notin U
        BY <2>1, <2>4, <3>3, <3>9
      <4>. QED
        BY <3>2, <3>3, <4>1, <4>2, <4>3
    <3>. QED
      BY <3>7, <3>8, <3>9
  <2>. QED
    BY <2>1, <2>2, <2>3, <2>4
<1>9. CASE r = NSM - 1
  BY <1>6, <1>8, <1>9 DEF Knows
<1>10. CASE r # NSM - 1
  BY <1>7, <1>8, <1>10 DEF Knows
<1>. QED
  BY <1>9, <1>10

(* It gets farther than any SM, so in the end it knows.                    *)
LEMMA WalkIsRange ==
  ASSUME NEW miss_SM \in SM, NEW home \in SM
  PROVE  WalkAgrees(miss_SM, home)
<1>1. PICK N \in Nat \ {0} : N = NSM
  BY GeometryAssumption
<1>2. PICK n \in Nat \ {0} : n = n_sm_sqrt
  BY SideExists, GeometryAssumption
<1>3. PICK K \in Nat : K = N * (2 * n + 1) + 0 /\ K = VisitSteps
  <2>1. (2 * n + 1) * N \in Nat /\ (2 * n + 1) * N = N * (2 * n + 1) + 0
    OBVIOUS
  <2>. QED
    BY <1>1, <1>2, <2>1 DEF VisitSteps
<1>4. PICK visit : /\ IsWalk(visit, miss_SM, home, K)
                   /\ RangeWalk(miss_SM, home) = (visit[K].answer = "true")
  <2>1. PICK visit : visit = CHOOSE v : IsWalk(v, miss_SM, home, K)
    OBVIOUS
  <2>2. IsWalk(visit, miss_SM, home, K)
    BY <2>1, WalkExists
  <2>3. RangeWalk(miss_SM, home) = (visit[K].answer = "true")
    BY <1>3, <2>1 DEF RangeWalk, IsWalk, Start
  <2>. QED
    BY <2>2, <2>3
<1>5. PICK T : T = {i \in Nat : i <= K =>
                      \A q \in Nat, r \in 0 .. N - 1 :
                        i = N * q + r => Knows(visit[i], q, r, miss_SM, home)}
  OBVIOUS
<1>6. 0 \in T
  <2>1. ASSUME NEW q \in Nat, NEW r \in 0 .. N - 1, 0 = N * q + r PROVE q = 0 /\ r = 0
    <3>1. r = 0 /\ N * q = 0
      BY <2>1
    <3>2. CASE q >= 1
      <4>1. N * q >= N * 1
        BY <3>2
      <4>. QED
        BY <3>1, <4>1
    <3>. QED
      BY <3>1, <3>2
  <2>2. visit[0] = Start
    BY <1>4 DEF IsWalk
  <2>3. Seen(0, 0, home) = {}
    <3>1. \A s \in SM : NOC_distance(s, home) \in Nat /\ ~(s < 0)
      BY DistanceIsNat, GeometryAssumption DEF SM
    <3>. QED
      BY <3>1 DEF Seen
  <2>4. Knows(visit[0], 0, 0, miss_SM, home)
    <3>1. MAX(HistRange, 1) > 0
      BY GeometryAssumption DEF MAX
    <3>. QED
      BY <2>2, <2>3, <3>1, FS_EmptySet DEF Knows, Start
  <2>. QED
    BY <1>5, <2>1, <2>4
<1>7. ASSUME NEW i \in T PROVE i + 1 \in T
  <2>1. i \in Nat
    BY <1>5
  <2>2. SUFFICES ASSUME i + 1 <= K, NEW p \in Nat, NEW u \in 0 .. N - 1, i + 1 = N * p + u
                 PROVE  Knows(visit[i + 1], p, u, miss_SM, home)
    BY <1>5, <2>1
  <2>3. PICK q \in Nat, r \in 0 .. N - 1 : i = N * q + r
    BY <2>1, QuotientExists
  <2>4. Knows(visit[i], q, r, miss_SM, home)
    BY <1>5, <2>1, <2>2, <2>3
  <2>5. i % N = r /\ i \div N = q
    BY <2>3, ModRest
  <2>6. visit[i + 1] = Visit(visit[i], r, q, miss_SM, home)
    <3>1. i + 1 \in 0 .. K /\ i + 1 # 0 /\ (i + 1) - 1 = i
      BY <2>1, <2>2
    <3>2. visit[i + 1] = Visit(visit[i], i % N, i \div N, miss_SM, home)
      BY <1>1, <1>4, <3>1 DEF IsWalk
    <3>. QED
      BY <2>5, <3>2
  <2>7. r \in SM
    BY <1>1 DEF SM
  <2>8. IF r = N - 1 THEN Knows(visit[i + 1], q + 1, 0, miss_SM, home)
                     ELSE Knows(visit[i + 1], q, r + 1, miss_SM, home)
    BY <1>1, <2>4, <2>6, <2>7, VisitKnows
  <2>9. CASE r = N - 1
    <3>1. i + 1 = N * (q + 1) + 0 /\ q + 1 \in Nat /\ 0 \in 0 .. N - 1
      BY <2>3, <2>9
    <3>2. (i + 1) % N = 0 /\ (i + 1) \div N = q + 1
      <4>1. PICK t \in Nat, z \in 0 .. N - 1 : t = q + 1 /\ z = 0
        BY <3>1
      <4>2. i + 1 = N * t + z
        BY <3>1, <4>1
      <4>3. (i + 1) % N = z /\ (i + 1) \div N = t
        BY <4>2, ModRest
      <4>. QED
        BY <4>1, <4>3
    <3>3. (i + 1) % N = u /\ (i + 1) \div N = p
      BY <2>2, ModRest
    <3>. QED
      BY <2>8, <2>9, <3>2, <3>3
  <2>10. CASE r # N - 1
    <3>1. i + 1 = N * q + (r + 1) /\ r + 1 \in 0 .. N - 1
      BY <2>3, <2>10
    <3>2. (i + 1) % N = r + 1 /\ (i + 1) \div N = q
      BY <3>1, ModRest
    <3>3. (i + 1) % N = u /\ (i + 1) \div N = p
      BY <2>2, ModRest
    <3>. QED
      BY <2>8, <2>10, <3>2, <3>3
  <2>. QED
    BY <2>9, <2>10
<1>8. T = Nat
  BY <1>5, <1>6, <1>7, NatInd
<1>9. Knows(visit[K], 2 * n + 1, 0, miss_SM, home)
  <2>1. K \in T /\ 2 * n + 1 \in Nat /\ 0 \in 0 .. N - 1
    BY <1>8
  <2>. QED
    BY <1>3, <1>5, <2>1
<1>10. miss_SM \in Seen(2 * n + 1, 0, home)
  <2>1. PICK h \in Nat : h = n \div 2 /\ 2 * h <= n
    OBVIOUS
  <2>2. NOC_distance(miss_SM, home) <= 2 * h /\ NOC_distance(miss_SM, home) \in Nat
    BY <1>2, <2>1, Metric, DistanceIsNat DEF DistanceIsMetric
  <2>3. NOC_distance(miss_SM, home) < 2 * n + 1
    BY <2>1, <2>2
  <2>. QED
    BY <2>3 DEF Seen
<1>11. (visit[K].answer = "true") = check_in_range(miss_SM, home)
  <2>1. check_in_range(miss_SM, home) \in BOOLEAN
    BY DEF check_in_range
  <2>2. \/ visit[K].answer = "true" /\ check_in_range(miss_SM, home)
        \/ visit[K].answer = "false" /\ ~check_in_range(miss_SM, home)
    BY <1>9, <1>10 DEF Knows
  <2>. QED
    BY <2>1, <2>2
<1>. QED
  BY <1>4, <1>11 DEF WalkAgrees

-----------------------------------------------------------------------------
(* The distances of the torus are a metric, the SMs that a home tracks are *)
(* the nearest, and the loop of check_in_range finds them: for any number  *)
(* of SMs up to 31 and any range.                                          *)
THEOREM GeometryAlwaysHolds == TorusSpec => []GeometryHolds
<1> DEFINE Triples == triple \in SM \X SM \X SM
<1>1. TorusInit => Triples
  BY GeometryAssumption DEF TorusInit, SM
<1>2. Triples /\ [NextTriple]_triple => Triples'
  <2> SUFFICES ASSUME Triples, [NextTriple]_triple PROVE Triples'
    OBVIOUS
  <2>1. CASE UNCHANGED triple
    BY <2>1
  <2>2. CASE NextTriple
    <3>1. PICK a, b, c \in SM : triple = <<a, b, c>>
      OBVIOUS
    <3>2. triple' = <<a, b, (c + 1) % NSM>>
      BY <2>2, <3>1 DEF NextTriple
    <3>3. (c + 1) % NSM \in SM
      BY GeometryAssumption DEF SM
    <3>. QED
      BY <3>2, <3>3
  <2>. QED
    BY <2>1, <2>2
<1>3. Triples => GeometryHolds
  BY Metric, Nearest, WalkIsRange DEF GeometryHolds
<1>. QED
  BY <1>1, <1>2, <1>3, PTL DEF TorusSpec

=============================================================================
