----------------------------- MODULE HistTable ------------------------------
(***************************************************************************)
(* The HIST tables with the access times that drive replacement.  The      *)
(* times come from the requests (mem_fetch::get_time), whose clocks stand  *)
(* still while they queue at the home: an access may carry an older time   *)
(* than the one it overwrites, so any time is possible at any access.      *)
(***************************************************************************)
EXTENDS HistDirectoryMachine

CONSTANTS
  Age,       (* m_hist_age                                                 *)
  MaxTime    (* bound on the access times                                  *)

ASSUME TableAssumption == Age \in Nat /\ MaxTime \in Nat

VARIABLE accessed   (* accessed[h][i]: m_last_access_time of entry i of home h    *)

vars == <<table, accessed>>

Time == 0 .. MaxTime

TypeOK ==
  /\ table \in [SM -> [Idx -> Entry]]
  /\ accessed \in [SM -> [Idx -> Time]]

Init ==
  /\ table = EmptyTable
  /\ accessed = [h \in SM |-> [i \in Idx |-> 0]]

-----------------------------------------------------------------------------
(* HIST_table::probe.  The comparisons of the loop are strict, so of ways  *)
(* with equal times the first one is taken.                                *)

AccessTime(k, i) == accessed[get_home(k)][i]

IsLeastRecent(k, ways, i) ==
  /\ i \in ways
  /\ \A j \in ways : \/ AccessTime(k, i) < AccessTime(k, j)
                     \/ AccessTime(k, i) = AccessTime(k, j) /\ i <= j

(* Faulty: the age of the oldest way is not looked at.                     *)
Aged_Always(k, i) == TRUE

(* max_time - oldest_time >= m_hist_age *)
Aged(k, i) == \E j \in WaysOf(k) : AccessTime(k, j) - AccessTime(k, i) >= Age

(* Faulty: the status of the least recent way is not looked at.            *)
MissWay_EvenWaiting(k, i) ==
  \/ HitAt(table, k, i, "INVALID")
  \/ KeyAbsent(table, k) /\ IsLeastRecent(k, WaysOf(k), i)

(* Faulty: a free way is taken before the way that carries the key.        *)
MissWay_FreeWayFirst(k, i) ==
  /\ ~HitWait(table, k) /\ ~HitReady(table, k)
  /\ i \in WaysIn(table, k, "INVALID")
  /\ \A j \in WaysIn(table, k, "INVALID") : j <= i

MissWay(k, i) ==
  \/ HitAt(table, k, i, "INVALID")
  \/ /\ KeyAbsent(table, k)
     /\ IF WaysIn(table, k, "INVALID") # {}
        THEN i \in WaysIn(table, k, "INVALID") /\ \A j \in WaysIn(table, k, "INVALID") : j <= i
        ELSE IF LightWays(table, k) # {}
        THEN IsLeastRecent(k, LightWays(table, k), i)
        ELSE IsLeastRecent(k, WaysIn(table, k, "READY"), i) /\ Aged(k, i)

Full(k) == \A i \in Idx : /\ ~HitAt(table, k, i, "WAIT")
                          /\ ~HitAt(table, k, i, "READY")
                          /\ ~MissWay(k, i)

-----------------------------------------------------------------------------
Touch(k, i, time) == accessed' = [accessed EXCEPT ![get_home(k)][i] = time]

(* process_probe: allocate and add, add and add_mf, add; nothing when the  *)
(* set is full.  An SM out of range only refreshes a ready entry.          *)
Lookup(s, k, time) ==
  \/ /\ check_in_range(s, get_home(k))
     /\ \E i \in Idx :
          /\ \/ MissWay(k, i) /\ table' = add(allocate(table, k, i), s, k, i)
             \/ HitAt(table, k, i, "WAIT") /\ table' = add_mf(add(table, s, k, i), s, k, i)
             \/ HitAt(table, k, i, "READY") /\ table' = add(table, s, k, i)
          /\ Touch(k, i, time)
  \/ /\ check_in_range(s, get_home(k))
     /\ Full(k)
     /\ UNCHANGED vars
  \/ /\ ~check_in_range(s, get_home(k))
     /\ \E i \in Idx : HitAt(table, k, i, "READY") /\ Touch(k, i, time)
     /\ UNCHANGED table

Remove(s, keys) == table' = delAll(table, s, keys) /\ UNCHANGED accessed

Fill(s, k, time) ==
  /\ check_in_range(s, get_home(k))
  /\ \E i \in Idx :
       /\ HitAt(table, k, i, "WAIT")
       /\ table' = Release(ready(table, k, i), k, i)
       /\ Touch(k, i, time)

Next ==
  \E s \in SM :
    \/ \E k \in Key, time \in Time : Lookup(s, k, time) \/ Fill(s, k, time)
    \/ \E keys \in SUBSET (Key \union {0}) : Remove(s, keys)

Spec == Init /\ [][Next]_vars

-----------------------------------------------------------------------------
(* Replacement by time is one of the replacements of the abstract tables,  *)
(* so what is shown of those holds with access times.                      *)
ImplementsDirectory == DirectorySpec

(* The probe always has an answer and only one: of hit, miss and full      *)
(* exactly one holds, and a miss names one way.                            *)
ProbeDecides ==
  \A k \in Key :
    LET answers == {<<"wait", i>>  : i \in {j \in Idx : HitAt(table, k, j, "WAIT")}}
            \union {<<"ready", i>> : i \in {j \in Idx : HitAt(table, k, j, "READY")}}
            \union {<<"miss", i>>  : i \in {j \in Idx : MissWay(k, j)}}
    IN  Cardinality(answers) = IF Full(k) THEN 0 ELSE 1

(* A block shared by two or more SMs loses its entry to another block only *)
(* after m_hist_age: while the entry is younger than that, measured        *)
(* against every entry of its set, it stays.                               *)
SharedEntryKept ==
  [][\A h \in SM, i \in Idx :
       /\ table[h][i].status = "READY"
       /\ Cardinality(table[h][i].HI) >= 2
       /\ table'[h][i].key # table[h][i].key
       => \E j \in Idx : /\ j \div Assoc = i \div Assoc
                         /\ accessed[h][j] - accessed[h][i] >= Age]_vars

=============================================================================
