--------------------------- MODULE HistDirectory ----------------------------
(***************************************************************************)
(* The HIST tables as data: one table per home SM, each of NSet sets of    *)
(* Assoc entries.  An entry is INVALID, WAITs for the first fill of its    *)
(* block, or is READY to serve it from a sharer.  Operators take a table   *)
(* and return the probed way or the updated table; they are the methods of *)
(* HIST_table without its queues.                                          *)
(*                                                                         *)
(* Access times are abstracted: where the code takes the least recently    *)
(* used READY entry with fewer than two sharers, the model takes any such  *)
(* entry, and whether the oldest READY entry has reached m_hist_age is     *)
(* left open.  HistTable keeps the times and shows that its probe is one   *)
(* of the outcomes allowed here.                                           *)
(***************************************************************************)
EXTENDS HistGeometry

CONSTANTS
  NSet,    (* m_hist_nset                                                  *)
  Assoc,   (* m_hist_assoc                                                 *)
  Key      (* block keys (address >> line size); key 0 never reaches HIST  *)

ASSUME DirectoryAssumption ==
  /\ NSet \in Nat \ {0}
  /\ Assoc \in Nat \ {0}
  /\ Key \subseteq Nat \ {0}

Idx     == 0 .. NSet * Assoc - 1
Status  == {"INVALID", "WAIT", "READY"}
Fetch   == [sid : SM, key : Key]

(* filtered holds the fetches parked until the block is READY. *)
Entry   == [status : Status, key : Key \union {0}, HI : SUBSET SM,
            filtered : SUBSET Fetch]

EmptyEntry == [status |-> "INVALID", key |-> 0, HI |-> {}, filtered |-> {}]
EmptyTable == [h \in SM |-> [i \in Idx |-> EmptyEntry]]

get_set_idx(key) == key % NSet
WaysOf(key)      == {i \in Idx : i \div Assoc = get_set_idx(key)}

-----------------------------------------------------------------------------
(* Probing.  The scan stops at the first way that carries the key, valid   *)
(* or not.                                                                 *)

ProbeStopsAt(t, key, i) ==
  /\ i \in WaysOf(key)
  /\ t[get_home(key)][i].key = key
  /\ \A j \in WaysOf(key) : j < i => t[get_home(key)][j].key # key

HitAt(t, key, i, status) ==
  ProbeStopsAt(t, key, i) /\ t[get_home(key)][i].status = status

HitWait(t, key)  == \E i \in Idx : HitAt(t, key, i, "WAIT")
HitReady(t, key) == \E i \in Idx : HitAt(t, key, i, "READY")
KeyAbsent(t, key) == \A i \in WaysOf(key) : t[get_home(key)][i].key # key

WaysIn(t, key, status) == {i \in WaysOf(key) : t[get_home(key)][i].status = status}

(* READY ways with fewer than two sharers. *)
LightWays(t, key) ==
  {i \in WaysIn(t, key, "READY") : Cardinality(t[get_home(key)][i].HI) < 2}

(* The probe answers MISS and hands out way i: the invalid way that still  *)
(* carries the key; else the last invalid way; else a READY way with fewer *)
(* than two sharers; else an aged READY way.                               *)
MissAt(t, key, i) ==
  \/ HitAt(t, key, i, "INVALID")
  \/ /\ KeyAbsent(t, key)
     /\ \/ /\ i \in WaysIn(t, key, "INVALID")
           /\ \A j \in WaysIn(t, key, "INVALID") : j <= i
        \/ /\ WaysIn(t, key, "INVALID") = {}
           /\ i \in LightWays(t, key)
        \/ /\ WaysIn(t, key, "INVALID") = {}
           /\ LightWays(t, key) = {}
           /\ i \in WaysIn(t, key, "READY")

(* The probe answers FULL: no entry may be taken (every way WAITs, or the  *)
(* READY ones are shared and too young).                                   *)
MayBeFull(t, key) ==
  /\ KeyAbsent(t, key)
  /\ WaysIn(t, key, "INVALID") = {}
  /\ LightWays(t, key) = {}

-----------------------------------------------------------------------------
(* Updates. *)

UpdateEntry(t, key, i, e) == [t EXCEPT ![get_home(key)][i] = e]

(* allocate leaves filtered_mf as it is. *)
allocate(t, key, i) ==
  UpdateEntry(t, key, i,
    [status |-> "WAIT", key |-> key, HI |-> {},
     filtered |-> t[get_home(key)][i].filtered])

add(t, sm, key, i) ==
  UpdateEntry(t, key, i, [t[get_home(key)][i] EXCEPT !.HI = @ \union {sm}])

add_mf(t, sm, key, i) ==
  UpdateEntry(t, key, i,
    [t[get_home(key)][i] EXCEPT !.filtered = @ \union {[sid |-> sm, key |-> key]}])

(* Faulty: a fill leaves the entry waiting.                                *)
ready_StaysWaiting(t, key, i) == t

ready(t, key, i) ==
  UpdateEntry(t, key, i, [t[get_home(key)][i] EXCEPT !.status = "READY"])

(* Faulty: the fetches that are granted stay parked as well.               *)
Release_KeepsParked(t, key, i) == t

(* fill_wait takes every parked fetch off the entry. *)
Release(t, key, i) == UpdateEntry(t, key, i, [t[get_home(key)][i] EXCEPT !.filtered = {}])

(* Faulty: the entry outlives its last sharer.                             *)
WithoutSharer_StaysReady(e, sm) == [e EXCEPT !.HI = @ \ {sm}]

(* Removing a sharer bit; the last one leaves the entry invalid. *)
WithoutSharer(e, sm) ==
  [e EXCEPT !.HI = @ \ {sm},
            !.status = IF e.HI \subseteq {sm} THEN "INVALID" ELSE @]

(* Faulty: a sharer is removed from an entry that WAITs, too.              *)
delAll_AlsoWaiting(t, sm, keys) ==
  [h \in SM |-> [i \in Idx |->
     LET e == t[h][i] IN
     IF /\ e.key \in keys \ {0}
        /\ get_home(e.key) = h
        /\ e.status # "INVALID"
        /\ ProbeStopsAt(t, e.key, i)
        /\ check_in_range(sm, h)
     THEN WithoutSharer(e, sm)
     ELSE e]]

(* del for every key of keys: ignored out of range and unless the probe    *)
(* finds a READY entry.                                                    *)
delAll(t, sm, keys) ==
  [h \in SM |-> [i \in Idx |->
     LET e == t[h][i] IN
     IF /\ e.key \in keys \ {0}
        /\ get_home(e.key) = h
        /\ HitAt(t, e.key, i, "READY")
        /\ check_in_range(sm, h)
     THEN WithoutSharer(e, sm)
     ELSE e]]

del(t, sm, key) == delAll(t, sm, {key})

-----------------------------------------------------------------------------
(* What keeps a directory t usable; the modules with a state say why.      *)

FoundByProbe(t) ==
  \A h \in SM, i \in Idx :
    t[h][i].status # "INVALID" =>
      /\ t[h][i].key \in Key
      /\ get_home(t[h][i].key) = h
      /\ ProbeStopsAt(t, t[h][i].key, i)

ParkedOnWait(t) ==
  \A h \in SM, i \in Idx : \A f \in t[h][i].filtered :
    /\ t[h][i].status = "WAIT"
    /\ f.key = t[h][i].key
    /\ f.sid \in t[h][i].HI

LiveInRange(t) ==
  \A h \in SM, i \in Idx :
    t[h][i].status # "INVALID" =>
      /\ t[h][i].HI # {}
      /\ \A s \in t[h][i].HI : check_in_range(s, h)

=============================================================================
