------------------------ MODULE HistDirectoryMachine ------------------------
(* The HIST tables as an abstract machine: what a lookup, a removal and a  *)
(* fill may do to them, with any replacement the status and the sharers of *)
(* the entries permit.  HistTable, which has the access times, and         *)
(* HistProtocol, which has the caches and the network, extend it with      *)
(* state of their own and implement it.                                    *)
EXTENDS HistDirectory

VARIABLE table

DirInit == table = EmptyTable

(* process_probe, the part that concerns the tables. *)
DirLookup(s, k) ==
  /\ check_in_range(s, get_home(k))
  /\ \E i \in Idx :
       \/ MissAt(table, k, i) /\ table' = add(allocate(table, k, i), s, k, i)
       \/ HitAt(table, k, i, "WAIT") /\ table' = add_mf(add(table, s, k, i), s, k, i)
       \/ HitAt(table, k, i, "READY") /\ table' = add(table, s, k, i)

(* Evictions and write hits remove one key, a flush removes many; a way    *)
(* that was never used carries key 0.                                      *)
DirRemove(s, keys) == table' = delAll(table, s, keys)

(* ready and fill_wait *)
DirFill(s, k) ==
  /\ check_in_range(s, get_home(k))
  /\ \E i \in Idx :
       /\ HitAt(table, k, i, "WAIT")
       /\ table' = Release(ready(table, k, i), k, i)

DirNext ==
  \E s \in SM :
    \/ \E k \in Key : DirLookup(s, k) \/ DirFill(s, k)
    \/ \E keys \in SUBSET (Key \union {0}) : DirRemove(s, keys)

DirectorySpec == DirInit /\ [][DirNext]_table

-----------------------------------------------------------------------------
TableType == table \in [SM -> [Idx -> Entry]]

(* A live entry is where the probe of its key finds it: in its home, in    *)
(* its set, before any other way that carries the key.  Two live entries   *)
(* of one block would split its sharers and its waiters.                   *)
EntryFoundByProbe == FoundByProbe(table)

(* Fetches are parked only on an entry that WAITs, for the entry's block   *)
(* and by recorded sharers: allocate, which keeps filtered_mf, never takes *)
(* over a non-empty list, and a READY entry has released all it held.      *)
ParkedOnlyOnWait == ParkedOnWait(table)

(* The sharer bits of a live entry: at least one, only of SMs in range     *)
(* (an empty word would make the entry READY with nobody to serve it).     *)
SharersInRange == LiveInRange(table)

=============================================================================
