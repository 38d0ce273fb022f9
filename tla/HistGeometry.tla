---------------------------- MODULE HistGeometry ----------------------------
(***************************************************************************)
(* The arithmetic of the HIST table: where a block's home is and how far   *)
(* every shader core (SM) is from it.  The SMs sit on the smallest square  *)
(* torus that holds them; the home of a block is its key modulo the number *)
(* of SMs; the SMs a home tracks are the m_hist_range nearest ones.        *)
(***************************************************************************)
EXTENDS Integers, FiniteSets

CONSTANTS
  NSM,        (* n_total_sm, the number of shader cores                    *)
  HistRange   (* m_hist_range, how many SMs a home keeps a sharer bit for  *)

(* m_HI is set with the int expression 1 << core, so core numbers beyond   *)
(* 30 do not denote one bit of the word; the model covers 1 to 31 SMs.     *)
ASSUME GeometryAssumption == NSM \in 1 .. 31 /\ HistRange \in Nat

SM == 0 .. NSM - 1

(* Side of the torus: the square root of NSM, rounded up. *)
n_sm_sqrt == CHOOSE n \in 1 .. NSM : n * n >= NSM /\ (n - 1) * (n - 1) < NSM

get_home(key) == key % NSM

AB(x)     == IF x < 0 THEN -x ELSE x
MIN(x, y) == IF x <= y THEN x ELSE y
MAX(x, y) == IF x >= y THEN x ELSE y

(* Faulty: the wrap-around forgets which coordinate is the smaller one.    *)
Hops_Unordered(a, b) == MIN(AB(a - b), AB(a + n_sm_sqrt - b))

(* Hops along one dimension of the torus, the shorter way round. *)
Hops(a, b) == MIN(AB(a - b), AB(MIN(a, b) + n_sm_sqrt - MAX(a, b)))

NOC_distance(a, b) ==
  Hops(a % n_sm_sqrt, b % n_sm_sqrt) + Hops(a \div n_sm_sqrt, b \div n_sm_sqrt)

(***************************************************************************)
(* check_in_range walks over the SMs by distance from home and, at equal   *)
(* distance, by number; miss_SM is in range when fewer than m_hist_range   *)
(* SMs come before it.  The code tests its counter after counting an SM,   *)
(* so a range of 0 acts as 1.                                              *)
(***************************************************************************)
(* Faulty: of SMs at equal distance the later one is counted first.        *)
ComesBefore_LaterFirst(a, b, home) ==
  \/ NOC_distance(a, home) < NOC_distance(b, home)
  \/ NOC_distance(a, home) = NOC_distance(b, home) /\ a > b

ComesBefore(a, b, home) ==
  \/ NOC_distance(a, home) < NOC_distance(b, home)
  \/ NOC_distance(a, home) = NOC_distance(b, home) /\ a < b

(* Faulty: one SM too many.                                                *)
check_in_range_OneMore(miss_SM, home) ==
  Cardinality({s \in SM : ComesBefore(s, miss_SM, home)}) <= MAX(HistRange, 1)

check_in_range(miss_SM, home) ==
  Cardinality({s \in SM : ComesBefore(s, miss_SM, home)}) < MAX(HistRange, 1)

(* The walk itself, for comparison: step i looks at distance (i-1) \div NSM *)
(* and SM (i-1) % NSM; answer stays at its first value.                     *)
VisitSteps == (2 * n_sm_sqrt + 1) * NSM

Visit(before, sm, distance, miss_SM, home) ==
  IF before.answer # "none" \/ NOC_distance(sm, home) # distance THEN before
  ELSE [counter |-> before.counter + 1,
        answer  |-> IF sm = miss_SM THEN "true"
                    ELSE IF before.counter + 1 >= HistRange THEN "false"
                    ELSE "none"]

RangeWalk(miss_SM, home) ==
  LET visit[i \in 0 .. VisitSteps] ==
        IF i = 0 THEN [counter |-> 0, answer |-> "none"]
        ELSE Visit(visit[i - 1], (i - 1) % NSM, (i - 1) \div NSM, miss_SM, home)
  IN  visit[VisitSteps].answer = "true"

-----------------------------------------------------------------------------
(* NOC_distance is a distance on the torus: symmetric, zero only between   *)
(* an SM and itself, never longer than a detour, and at most half the side *)
(* in each dimension - also when the last row of the square is incomplete. *)
DistanceIsMetric(a, b, c) ==
  /\ NOC_distance(a, b) = NOC_distance(b, a)
  /\ NOC_distance(a, b) = 0 <=> a = b
  /\ NOC_distance(a, c) <= NOC_distance(a, b) + NOC_distance(b, c)
  /\ NOC_distance(a, b) <= 2 * (n_sm_sqrt \div 2)

(* The SMs a home tracks are the nearest ones and as many as configured:   *)
(* the home itself, nobody farther than an SM left out, and never fewer    *)
(* than m_hist_range while there are SMs.                                  *)
InRangeOf(home) == {s \in SM : check_in_range(s, home)}

RangeIsNearest(a, b, home) ==
  /\ check_in_range(home, home)
  /\ Cardinality(InRangeOf(home)) = MIN(MAX(HistRange, 1), NSM)
  /\ (check_in_range(a, home) /\ ~check_in_range(b, home))
       => NOC_distance(a, home) <= NOC_distance(b, home)

(* The loop of check_in_range, step by step, gives the answer of the       *)
(* definition the other modules use.                                       *)
WalkAgrees(a, home) == RangeWalk(a, home) = check_in_range(a, home)

=============================================================================
