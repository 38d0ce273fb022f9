--------------------------- MODULE MCHistProtocol ---------------------------
(* Instances of HistProtocol for TLC: how many accesses each SM makes.     *)
EXTENDS HistProtocol

(* The home makes two accesses, so that it evicts; so does its neighbour,  *)
(* which the home tracks; the SM out of range makes one.                   *)
Accesses221 == [s \in SM |-> IF s < 2 THEN 2 ELSE 1]

(* One SM runs through merged misses, evictions and re-accesses while the  *)
(* other competes with it once.                                            *)
Accesses41 == [s \in SM |-> IF s = 0 THEN 4 ELSE 1]

OneEach == [s \in SM |-> 1]

=============================================================================
