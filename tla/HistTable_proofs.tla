---------------------------- MODULE HistTable_proofs ----------------------------
(***************************************************************************)
(* Replacement by access time, for any table, any age and any times.       *)
(***************************************************************************)
EXTENDS HistTable, HistDirectory_proofs, FiniteSetTheorems

(* The way HIST_table::probe gives to a new block is one that the abstract *)
(* tables may give to it.                                                  *)
LEMMA MissWayAllowed ==
  ASSUME NEW k \in Key, NEW i \in Idx, MissWay(k, i)
  PROVE  MissAt(table, k, i)
<1>1. CASE HitAt(table, k, i, "INVALID")
  BY <1>1 DEF MissAt
<1>2. CASE KeyAbsent(table, k) /\ WaysIn(table, k, "INVALID") # {}
  BY <1>2 DEF MissWay, MissAt, HitAt, KeyAbsent, ProbeStopsAt
<1>3. CASE KeyAbsent(table, k) /\ WaysIn(table, k, "INVALID") = {}
  BY <1>3 DEF MissWay, MissAt, IsLeastRecent, HitAt, KeyAbsent, ProbeStopsAt
<1>. QED
  BY <1>1, <1>2, <1>3 DEF MissWay

(* The sharers of an entry can be counted.                                 *)
LEMMA SharersFinite == \A S \in SUBSET SM : Cardinality(S) \in Nat
<1>1. IsFiniteSet(SM)
  BY FS_Interval, GeometryAssumption DEF SM
<1>. QED
  BY <1>1, FS_Subset, FS_CardinalityType

(* Every step with access times is a step of the abstract tables.          *)
LEMMA StepImplements ==
  ASSUME Next
  PROVE  DirNext \/ UNCHANGED table
<1>1. ASSUME NEW s \in SM, NEW k \in Key, NEW time \in Time, Lookup(s, k, time)
      PROVE  DirLookup(s, k) \/ UNCHANGED table
  BY <1>1, MissWayAllowed DEF Lookup, DirLookup, vars
<1>2. ASSUME NEW s \in SM, NEW k \in Key, NEW time \in Time, Fill(s, k, time)
      PROVE  DirFill(s, k)
  BY <1>2 DEF Fill, DirFill
<1>3. ASSUME NEW s \in SM, NEW keys \in SUBSET (Key \union {0}), Remove(s, keys)
      PROVE  DirRemove(s, keys)
  BY <1>3 DEF Remove, DirRemove
<1>. QED
  BY <1>1, <1>2, <1>3 DEF Next, DirNext

(* The tables with access times implement the abstract ones.               *)
THEOREM TableImplementsDirectory == Spec => ImplementsDirectory
<1>1. Init => DirInit
  BY DEF Init, DirInit
<1>2. [Next]_vars => [DirNext]_table
  BY StepImplements DEF vars
<1>. QED
  BY <1>1, <1>2, PTL DEF Spec, ImplementsDirectory, DirectorySpec

(* The tables stay well formed under replacement by access time.           *)
THEOREM TableWellFormed == Spec => []WellFormed(table)
  BY TableImplementsDirectory, TablesWellFormed DEF ImplementsDirectory

(* Young shared entries are not given to other blocks.                     *)
THEOREM SharedEntriesKept == Spec => SharedEntryKept
<1> DEFINE Older(h, i) == \E j \in Idx : /\ j \div Assoc = i \div Assoc
                                         /\ accessed[h][j] - accessed[h][i] >= Age
           Shared(h, i) == table[h][i].status = "READY" /\ Cardinality(table[h][i].HI) >= 2
           Kept(h, i) == Shared(h, i) /\ table'[h][i].key # table[h][i].key => Older(h, i)
<1>1. ASSUME WellFormed(table), Next, NEW h \in SM, NEW i \in Idx
      PROVE  Kept(h, i)
  <2>1. CASE table'[h][i].key = table[h][i].key
    BY <2>1
  <2>2. ASSUME NEW s \in SM, NEW keys, Remove(s, keys)
        PROVE  table'[h][i].key = table[h][i].key
    BY <1>1, <2>2, DelKeeps DEF Remove
  <2>3. ASSUME NEW s \in SM, NEW k \in Key, NEW time \in Time, Fill(s, k, time)
        PROVE  table'[h][i].key = table[h][i].key
    <3>1. PICK j \in Idx : HitAt(table, k, j, "WAIT") /\ table' = Release(ready(table, k, j), k, j)
      BY <2>3 DEF Fill
    <3>2. OneEntry(table, table', k, j) /\ table'[get_home(k)][j].key = k
      BY <1>1, <3>1, FillKeeps
    <3>. QED
      BY <3>1, <3>2 DEF OneEntry, HitAt, ProbeStopsAt
  <2>4. ASSUME NEW s \in SM, NEW k \in Key, NEW time \in Time, Lookup(s, k, time)
        PROVE  Kept(h, i)
    <3>1. CASE UNCHANGED table
      BY <2>1, <3>1
    <3>2. ASSUME NEW j \in Idx, check_in_range(s, get_home(k)),
                 \/ HitAt(table, k, j, "WAIT") /\ table' = add_mf(add(table, s, k, j), s, k, j)
                 \/ HitAt(table, k, j, "READY") /\ table' = add(table, s, k, j)
          PROVE  table'[h][i].key = table[h][i].key
      <4>1. OneEntry(table, table', k, j) /\ table'[get_home(k)][j].key = k
        BY <1>1, <3>2, ParkKeeps, GrantKeeps
      <4>2. table[get_home(k)][j].key = k
        BY <3>2 DEF HitAt, ProbeStopsAt
      <4>. QED
        BY <4>1, <4>2 DEF OneEntry
    <3>3. ASSUME NEW j \in Idx, check_in_range(s, get_home(k)), MissWay(k, j),
                 table' = add(allocate(table, k, j), s, k, j), Shared(h, i),
                 table'[h][i].key # table[h][i].key
          PROVE  Older(h, i)
      <4>1. OneEntry(table, table', k, j)
        BY <1>1, <3>3, MissWayAllowed, MissKeeps
      <4>2. h = get_home(k) /\ i = j
        BY <3>3, <4>1 DEF OneEntry
      <4>3. /\ j \notin WaysIn(table, k, "INVALID") /\ ~HitAt(table, k, j, "INVALID")
        BY <3>3, <4>2 DEF WaysIn, HitAt
      <4>4. j \notin LightWays(table, k)
        <5>1. table[h][i].HI \in SUBSET SM
          BY <1>1 DEF WellFormed, Tables, Entry
        <5>2. Cardinality(table[h][i].HI) \in Nat
          BY <5>1, SharersFinite
        <5>. QED
          BY <3>3, <4>2, <5>2 DEF LightWays
      <4>5. Aged(k, j) /\ j \in WaysOf(k)
        BY <3>3, <4>3, <4>4 DEF MissWay, IsLeastRecent, WaysIn
      <4>. QED
        BY <4>2, <4>5 DEF Aged, AccessTime, WaysOf
    <3>. QED
      BY <2>1, <2>4, <3>1, <3>2, <3>3 DEF Lookup, vars
  <2> HIDE DEF Kept
  <2>. QED
    BY <1>1, <2>1, <2>2, <2>3, <2>4 DEF Next
<1>2. ASSUME WellFormed(table), Next
      PROVE  \A h \in SM, i \in Idx :
               /\ table[h][i].status = "READY"
               /\ Cardinality(table[h][i].HI) >= 2
               /\ table'[h][i].key # table[h][i].key
               => \E j \in Idx : /\ j \div Assoc = i \div Assoc
                                 /\ accessed[h][j] - accessed[h][i] >= Age
  BY <1>1, <1>2
<1>. HIDE DEF Older, Shared, Kept
<1>3. WellFormed(table) /\ [Next]_vars
      => [\A h \in SM, i \in Idx :
            /\ table[h][i].status = "READY"
            /\ Cardinality(table[h][i].HI) >= 2
            /\ table'[h][i].key # table[h][i].key
            => \E j \in Idx : /\ j \div Assoc = i \div Assoc
                              /\ accessed[h][j] - accessed[h][i] >= Age]_vars
  BY <1>2
<1>. QED
  BY <1>3, TableWellFormed, PTL DEF Spec, SharedEntryKept

=============================================================================
