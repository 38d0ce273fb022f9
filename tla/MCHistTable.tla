----------------------------- MODULE MCHistTable -----------------------------
(* An instance of HistTable: three blocks of one home.                     *)
EXTENDS HistTable

MCKey == {k \in 1 .. 3 * NSM : get_home(k) = 0}
==============================================================================
