------------------------------ MODULE HistTorus ------------------------------
(***************************************************************************)
(* The torus of the SMs, looked at three SMs at a time: every triple is    *)
(* visited, so that what must hold of any three is an invariant.           *)
(***************************************************************************)
EXTENDS HistGeometry

VARIABLE triple

TorusInit == triple \in SM \X SM \X {0}

NextTriple == triple' = [triple EXCEPT ![3] = (@ + 1) % NSM]

TorusSpec == TorusInit /\ [][NextTriple]_triple

(* Distances are a metric, the SMs in range are the nearest ones, and the  *)
(* loop of check_in_range finds them.                                      *)
GeometryHolds ==
  LET a == triple[1]  b == triple[2]  home == triple[3]
  IN  /\ DistanceIsMetric(a, b, home)
      /\ RangeIsNearest(a, b, home)
      /\ WalkAgrees(a, home)
==============================================================================
