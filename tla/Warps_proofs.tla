---------------------------- MODULE Warps_proofs ----------------------------
(***************************************************************************)
(* Safety of what keeps a warp from going on.                              *)
(*                                                                         *)
(* Scheduler, for any number of warps, any programs, ages and widths: each *)
(* policy's order has each warp once, and what a cycle does follows from   *)
(* the place of the first in it that can issue.  The model counts turns    *)
(* and instructions with recursive functions; what those are is proved by  *)
(* induction on numbers, in a form that takes a set where the library's    *)
(* takes an operator (LeastNat, NatInd).                                   *)
(*                                                                         *)
(* BarrierSet, for any slots, warps, barriers and programs without ARRIVE: *)
(* no warp of a CTA is through a barrier more often than one that has not  *)
(* exited, counting the visit that it waits in as not yet through.         *)
(***************************************************************************)
EXTENDS Scheduler, BarrierSet, SequenceTheorems, FiniteSetTheorems, TLAPS

-----------------------------------------------------------------------------
(* Induction, and lists that are made in the order of another.             *)

(* A set of numbers has a least one: the intervals up to its members are   *)
(* finite sets, among which inclusion is well founded.                     *)
LEMMA LeastNat ==
  ASSUME NEW T \in SUBSET Nat, T # {}
  PROVE  \E m \in T : \A n \in T : m <= n
<1>1. PICK A : A = {0 .. n : n \in T}
  OBVIOUS
<1>2. A \subseteq FiniteSubsetsOf(Nat) /\ A # {}
  <2>1. ASSUME NEW n \in T PROVE 0 .. n \in FiniteSubsetsOf(Nat)
    BY FS_Interval, 0 \in Int, n \in Int, 0 .. n \subseteq Nat DEF FiniteSubsetsOf
  <2>. QED
    BY <1>1, <2>1
<1>3. PICK X \in A : \A Y \in A : ~(<<Y, X>> \in StrictSubsetOrdering(Nat))
  BY <1>2, WFMin, FS_StrictSubsetOrderingWellFounded
<1>4. PICK m \in T : X = 0 .. m
  BY <1>1
<1>5. ASSUME NEW n \in T, n < m PROVE FALSE
  <2>1. 0 .. n \in A
    BY <1>1
  <2>2. 0 .. n \subseteq 0 .. m /\ m \in 0 .. m /\ m \notin 0 .. n
    BY <1>5
  <2>3. 0 .. n \in SUBSET Nat /\ 0 .. m \in SUBSET Nat /\ 0 .. n # 0 .. m
    BY <2>2
  <2>4. <<0 .. n, 0 .. m>> \in StrictSubsetOrdering(Nat)
    BY <2>2, <2>3 DEF StrictSubsetOrdering
  <2>. QED
    BY <1>3, <1>4, <2>1, <2>4
<1>. QED
  BY <1>5

(* What holds of 0 and of the number after each of which it holds.         *)
LEMMA NatInd ==
  ASSUME NEW T \in SUBSET Nat, 0 \in T, \A n \in T : n + 1 \in T
  PROVE  T = Nat
<1> SUFFICES ASSUME T # Nat PROVE FALSE
  OBVIOUS
<1>1. PICK m \in Nat \ T : \A n \in Nat \ T : m <= n
  <2>1. Nat \ T \in SUBSET Nat /\ Nat \ T # {}
    OBVIOUS
  <2>. QED
    BY <2>1, LeastNat
<1>2. m - 1 \in Nat
  BY <1>1
<1>. QED
  BY <1>1, <1>2

StrictOrder(S, before) ==
  /\ \A s \in S : <<s, s>> \notin before
  /\ \A s, t \in S : s # t => <<s, t>> \in before \/ <<t, s>> \in before
  /\ \A s, t, u \in S : <<s, t>> \in before /\ <<t, u>> \in before => <<s, u>> \in before

(* A finite set can be listed in the order of any strict total order: an   *)
(* element comes after as many as are before it.                           *)
LEMMA InOrderLists ==
  ASSUME NEW S, IsFiniteSet(S), NEW before, StrictOrder(S, before)
  PROVE  /\ InOrder(S, before) \in Bijection(1 .. Cardinality(S), S)
         /\ \A m, n \in 1 .. Cardinality(S) :
              m < n => <<InOrder(S, before)[m], InOrder(S, before)[n]>> \in before
<1>0. PICK k \in Nat : k = Cardinality(S)
  BY FS_CardinalityType
<1>1. PICK down : down = [s \in S |-> {t \in S : <<t, s>> \in before}]
  OBVIOUS
<1>2. PICK rank : rank = [s \in S |-> Cardinality(down[s]) + 1]
  OBVIOUS
<1>3. ASSUME NEW s \in S PROVE IsFiniteSet(down[s]) /\ Cardinality(down[s]) \in 0 .. k - 1
  <2>1. down[s] \in SUBSET S /\ down[s] # S
    BY <1>1 DEF StrictOrder
  <2>2. IsFiniteSet(down[s]) /\ Cardinality(down[s]) <= k /\ Cardinality(down[s]) # k
    BY <1>0, <2>1, FS_Subset
  <2>. QED
    BY <2>2, FS_CardinalityType
<1>4. ASSUME NEW s \in S, NEW t \in S, <<s, t>> \in before PROVE rank[s] < rank[t]
  <2>1. down[s] \in SUBSET down[t] /\ down[s] # down[t]
    BY <1>1, <1>4 DEF StrictOrder
  <2>2. Cardinality(down[s]) <= Cardinality(down[t]) /\ Cardinality(down[s]) # Cardinality(down[t])
    BY <1>3, <2>1, FS_Subset
  <2>. QED
    BY <1>2, <1>3, <2>2
<1>5. IsFiniteSet(1 .. k) /\ Cardinality(1 .. k) = k
  BY FS_Interval, 1 \in Int, k \in Int
<1>6. rank \in Injection(S, 1 .. k)
  <2>1. rank \in [S -> 1 .. k]
    BY <1>2, <1>3
  <2>2. ASSUME NEW s \in S, NEW t \in S, rank[s] = rank[t] PROVE s = t
    <3>1. ~(rank[s] < rank[t]) /\ ~(rank[t] < rank[s])
      BY <2>1, <2>2
    <3>. QED
      BY <3>1, <1>4 DEF StrictOrder
  <2>. QED
    BY <2>1, <2>2 DEF Injection, IsInjective
<1>7. rank \in Surjection(S, 1 .. k)
  BY <1>0, <1>5, <1>6, FS_Injection
<1>8. PICK g : g = [n \in 1 .. k |-> CHOOSE s \in S : rank[s] = n]
  OBVIOUS
<1>9. \A n \in 1 .. k : g[n] \in S /\ rank[g[n]] = n
  BY <1>7, <1>8 DEF Surjection
<1>10. ASSUME NEW m \in 1 .. k, NEW n \in 1 .. k, m < n PROVE <<g[m], g[n]>> \in before
  <2>1. g[m] \in S /\ g[n] \in S /\ g[m] # g[n] /\ ~(rank[g[n]] < rank[g[m]])
    BY <1>9, <1>10
  <2>. QED
    BY <1>4, <2>1 DEF StrictOrder
<1>11. g \in [1 .. k -> S] /\ \A m, n \in DOMAIN g : m < n => <<g[m], g[n]>> \in before
  BY <1>8, <1>9, <1>10
<1>12. PICK f : f = InOrder(S, before)
  OBVIOUS
<1>13. f \in [1 .. k -> S] /\ \A m, n \in DOMAIN f : m < n => <<f[m], f[n]>> \in before
  BY <1>0, <1>11, <1>12 DEF InOrder
<1>14. f \in Injection(1 .. k, S)
  <2>1. ASSUME NEW m \in 1 .. k, NEW n \in 1 .. k, f[m] = f[n] PROVE m = n
    <3>1. ~(m < n) /\ ~(n < m)
      BY <1>13, <2>1 DEF StrictOrder
    <3>. QED
      BY <3>1
  <2>. QED
    BY <1>13, <2>1 DEF Injection, IsInjective
<1>15. f \in Surjection(1 .. k, S)
  BY <1>0, <1>5, <1>14, FS_Injection
<1>. QED
  BY <1>0, <1>12, <1>13, <1>14, <1>15 DEF Bijection

(* Arithmetic of a round. *)
LEMMA ModRest ==
  ASSUME NEW L \in Nat \ {0}, NEW q \in Nat, NEW r \in 0 .. L - 1
  PROVE  (L * q + r) % L = r
OBVIOUS

(* Less than twice the length, one subtraction is the remainder. *)
LEMMA ModOnce ==
  ASSUME NEW L \in Nat \ {0}, NEW x \in 0 .. 2 * L - 1
  PROVE  x % L = IF x < L THEN x ELSE x - L
OBVIOUS

(* A remainder is in range, less than the length. *)
LEMMA ModRange ==
  ASSUME NEW L \in Nat \ {0}, NEW x \in Nat
  PROVE  x % L \in 0 .. L - 1
OBVIOUS

(* Every number is a multiple and a remainder: induction. *)
LEMMA QuotientExists ==
  ASSUME NEW L \in Nat \ {0}, NEW k \in Nat
  PROVE  \E q \in Nat, r \in 0 .. L - 1 : k = L * q + r
<1>1. PICK T : T = {x \in Nat : \E q \in Nat, r \in 0 .. L - 1 : x = L * q + r}
  OBVIOUS
<1>2. 0 \in T
  <2>1. 0 \in Nat /\ 0 \in 0 .. L - 1 /\ 0 = L * 0 + 0
    OBVIOUS
  <2>. QED
    BY <1>1, <2>1
<1>3. ASSUME NEW x \in T PROVE x + 1 \in T
  <2>1. PICK q \in Nat, r \in 0 .. L - 1 : x = L * q + r
    BY <1>1
  <2>2. CASE r = L - 1
    <3>1. x + 1 = L * (q + 1) + 0 /\ q + 1 \in Nat /\ 0 \in 0 .. L - 1 /\ x + 1 \in Nat
      BY <1>1, <2>1, <2>2
    <3>2. \E p \in Nat, s \in 0 .. L - 1 : x + 1 = L * p + s
      BY <3>1
    <3>. QED
      BY <1>1, <3>1, <3>2
  <2>3. CASE r # L - 1
    <3>1. x + 1 = L * q + (r + 1) /\ r + 1 \in 0 .. L - 1 /\ x + 1 \in Nat
      BY <1>1, <2>1, <2>3
    <3>. QED
      BY <1>1, <3>1
  <2>. QED
    BY <2>2, <2>3
<1>4. T = Nat
  BY <1>1, <1>2, <1>3, NatInd
<1>5. k \in T
  BY <1>4
<1>. QED
  BY <1>1, <1>5

(* A rotated list has what the list has, and each turn by one or more      *)
(* places up to its length moves the places by that.                       *)
LEMMA RotationKeeps ==
  ASSUME NEW D, NEW list \in Seq(D), list # <<>>, NEW k \in Nat
  PROVE  /\ order_lrr(list, k) \in Seq(D)
         /\ Len(order_lrr(list, k)) = Len(list)
         /\ \A n \in 1 .. Len(list) : \E m \in 1 .. Len(list) : order_lrr(list, k)[m] = list[n]
<1>1. PICK L \in Nat \ {0} : L = Len(list)
  OBVIOUS
<1>2. list \in [1 .. L -> D] /\ DOMAIN list = 1 .. L
  BY <1>1
<1>3. PICK turned : turned = order_lrr(list, k)
  OBVIOUS
<1>4. turned = [n \in 1 .. L |-> list[((k + n - 1) % L) + 1]]
  BY <1>1, <1>2, <1>3 DEF order_lrr
<1>5. \A n \in 1 .. L : ((k + n - 1) % L) + 1 \in 1 .. L
  <2>1. ASSUME NEW n \in 1 .. L PROVE ((k + n - 1) % L) + 1 \in 1 .. L
    <3>1. PICK x \in Nat : x = k + n - 1
      OBVIOUS
    <3>. QED
      BY <3>1, ModRange
  <2>. QED
    BY <2>1
<1>6. turned \in [1 .. L -> D]
  BY <1>2, <1>4, <1>5
<1>7. ASSUME NEW n \in 1 .. L PROVE \E m \in 1 .. L : turned[m] = list[n]
  <2>1. PICK q \in Nat, r \in 0 .. L - 1 : k = L * q + r
    BY QuotientExists
  <2>2. PICK m \in 1 .. L, p \in Nat : k + m - 1 = L * p + (n - 1)
    <3>1. CASE r < n
      <4>1. n - r \in 1 .. L /\ k + (n - r) - 1 = L * q + (n - 1)
        BY <2>1, <3>1
      <4>. QED
        BY <4>1
    <3>2. CASE ~(r < n)
      <4>1. n - r + L \in 1 .. L /\ k + (n - r + L) - 1 = L * (q + 1) + (n - 1) /\ q + 1 \in Nat
        BY <2>1, <3>2
      <4>. QED
        BY <4>1
    <3>. QED
      BY <3>1, <3>2
  <2>3. (k + m - 1) % L = n - 1
    BY <2>2, ModRest, n - 1 \in 0 .. L - 1
  <2>4. turned[m] = list[(n - 1) + 1]
    BY <1>4, <2>3
  <2>. QED
    BY <2>4
<1>8. turned \in Seq(D) /\ Len(turned) = L
  BY <1>6
<1>. QED
  BY <1>1, <1>3, <1>7, <1>8

(* v comes before w in a list, or w is not in it. *)
Before(list, v, w) ==
  \E m \in DOMAIN list : list[m] = v /\ \A n \in DOMAIN list : list[n] = w => m < n

(* What is behind the one that had its turn moves up in order, and that    *)
(* one is behind all of it.                                                *)
LEMMA RotationOrders ==
  ASSUME NEW D, NEW list \in Seq(D), IsInjective(list), NEW at \in 1 .. Len(list),
         NEW p \in 1 .. Len(list), at < p, NEW w, Before(list, list[p], w) \/ w = list[at]
  PROVE  Before(order_lrr(list, at), list[p], w)
<1>1. PICK L \in Nat \ {0} : L = Len(list)
  OBVIOUS
<1>2. list \in [1 .. L -> D] /\ DOMAIN list = 1 .. L
  BY <1>1
<1>3. PICK turned : turned = order_lrr(list, at)
  OBVIOUS
<1>4. turned = [n \in 1 .. L |-> list[((at + n - 1) % L) + 1]]
  BY <1>1, <1>2, <1>3 DEF order_lrr
<1>5. ASSUME NEW n \in 1 .. L
      PROVE  turned[n] = IF at + n <= L THEN list[at + n] ELSE list[at + n - L]
  <2>1. PICK x \in 0 .. 2 * L - 1 : x = at + n - 1
    BY <1>1
  <2>2. x % L = IF x < L THEN x ELSE x - L
    BY ModOnce
  <2>3. turned[n] = list[(IF x < L THEN x ELSE x - L) + 1]
    BY <1>4, <2>1, <2>2
  <2>4. CASE at + n <= L
    BY <1>1, <2>1, <2>3, <2>4
  <2>5. CASE ~(at + n <= L)
    BY <1>1, <2>1, <2>3, <2>5
  <2>. QED
    BY <2>4, <2>5
<1>6. p - at \in 1 .. L /\ turned[p - at] = list[p]
  <2>1. PICK n \in 1 .. L : n = p - at
    BY <1>1
  <2>2. at + n = p /\ at + n <= L
    BY <1>1, <2>1
  <2>3. turned[n] = list[at + n]
    BY <1>5, <2>2
  <2>. QED
    BY <2>1, <2>2, <2>3
<1>7. ASSUME NEW n \in 1 .. L, turned[n] = w PROVE p - at < n
  <2>1. PICK x \in 1 .. L : list[x] = w /\ x = IF at + n <= L THEN at + n ELSE at + n - L
    <3>1. CASE at + n <= L
      <4>1. turned[n] = list[at + n] /\ at + n \in 1 .. L
        BY <1>1, <1>5, <3>1
      <4>. QED
        BY <4>1, <3>1, <1>7
    <3>2. CASE ~(at + n <= L)
      <4>1. turned[n] = list[at + n - L] /\ at + n - L \in 1 .. L
        BY <1>1, <1>5, <3>2
      <4>. QED
        BY <4>1, <3>2, <1>7
    <3>. QED
      BY <3>1, <3>2
  <2>2. CASE Before(list, list[p], w)
    <3>1. p < x
      BY <1>1, <1>2, <2>1, <2>2 DEF Before, IsInjective
    <3>. QED
      BY <1>1, <2>1, <3>1
  <2>3. CASE w = list[at]
    <3>1. x = at
      BY <1>1, <1>2, <2>1, <2>3 DEF IsInjective
    <3>. QED
      BY <1>1, <2>1, <3>1
  <2>. QED
    BY <2>2, <2>3
<1>8. DOMAIN turned = 1 .. L
  BY <1>4
<1>. QED
  BY <1>3, <1>6, <1>7, <1>8 DEF Before

-----------------------------------------------------------------------------
(* The lists that the orders are made of.                                  *)

(* A part of a list is what there is of a set, in the order of the list.   *)
LEMMA OnlyLists ==
  ASSUME NEW D, NEW list \in Seq(D), NEW S
  PROVE  \E at \in SUBSET (DOMAIN list) : \E from \in Bijection(1 .. Cardinality(at), at) :
           /\ \A n \in DOMAIN list : n \in at <=> list[n] \in S
           /\ Only(list, S) = [n \in 1 .. Cardinality(at) |-> list[from[n]]]
           /\ \A m, n \in 1 .. Cardinality(at) : m < n => from[m] < from[n]
<1>0. PICK at : at = {n \in DOMAIN list : list[n] \in S}
  OBVIOUS
<1>1. PICK L \in Nat : L = Len(list)
  OBVIOUS
<1>2. DOMAIN list = 1 .. L
  BY <1>1
<1>3. IsFiniteSet(at) /\ at \subseteq Nat
  <2>1. IsFiniteSet(1 .. L)
    BY FS_Interval, 1 \in Int, L \in Int
  <2>. QED
    BY <1>0, <1>2, <2>1, FS_Subset
<1>4. PICK before : before = {p \in Nat \X Nat : p[1] < p[2]}
  OBVIOUS
<1>5. \A m, n \in Nat : <<m, n>> \in before <=> m < n
  BY <1>4
<1>6. StrictOrder(at, before)
  BY <1>3, <1>5 DEF StrictOrder
<1>7. PICK from : from = InOrder(at, before)
  OBVIOUS
<1>8. /\ from \in Bijection(1 .. Cardinality(at), at)
      /\ \A m, n \in 1 .. Cardinality(at) : m < n => <<from[m], from[n]>> \in before
  BY <1>3, <1>6, <1>7, InOrderLists
<1>9. from \in [1 .. Cardinality(at) -> at]
  BY <1>8 DEF Bijection, Injection
<1>10. ASSUME NEW m \in 1 .. Cardinality(at), NEW n \in 1 .. Cardinality(at), m < n
       PROVE  from[m] < from[n]
  BY <1>3, <1>5, <1>8, <1>9, <1>10
<1>11. Only(list, S) = [n \in 1 .. Cardinality(at) |-> list[from[n]]]
  BY <1>0, <1>4, <1>7, <1>9 DEF Only
<1>. QED
  BY <1>0, <1>8, <1>10, <1>11

(* The levels have each warp once. *)
LevelTypes ==
  /\ active \in Seq(Warp) /\ pending \in Seq(Warp)
  /\ LevelsPartition

(* The warps are a finite set, of NumWarps. *)
LEMMA WarpsFinite ==
  NumWarps \in Nat \ {0} /\ IsFiniteSet(Warp) /\ Cardinality(Warp) = NumWarps
<1>1. NumWarps \in Nat \ {0}
  BY SchedulerAssumption
<1>2. IsFiniteSet(1 .. NumWarps) /\ Cardinality(1 .. NumWarps) = NumWarps
  BY <1>1, FS_Interval, 1 \in Int, NumWarps \in Int
<1>. QED
  BY <1>1, <1>2 DEF Warp

(* A list of all warps that is no longer than they are many has no warp    *)
(* twice.                                                                  *)
LEMMA NoneTwice ==
  ASSUME NEW list \in Seq(Warp), Len(list) = NumWarps,
         \A w \in Warp : \E n \in 1 .. NumWarps : list[n] = w
  PROVE  IsInjective(list)
<1>1. list \in [1 .. NumWarps -> Warp]
  OBVIOUS
<1>2. IsFiniteSet(1 .. NumWarps) /\ Cardinality(1 .. NumWarps) = NumWarps
  BY WarpsFinite DEF Warp
<1>3. list \in Surjection(1 .. NumWarps, Warp)
  BY <1>1 DEF Surjection
<1>. QED
  BY <1>2, <1>3, FS_Surjection, WarpsFinite DEF Injection

(* Lined has all warps.  One that stays keeps its place before others that *)
(* were behind it, or came in behind it.                                   *)
LEMMA LinedHasAll ==
  ASSUME LevelTypes
  PROVE  /\ Lined \in Seq(Warp) /\ Len(Lined) = NumWarps
         /\ \A w \in Warp : \E n \in 1 .. NumWarps : Lined[n] = w
         /\ \A v, w \in Warp : Before(active, v, w) /\ ~Demoted(v) =>
              \E i \in 1 .. MaxActive : /\ Lined[i] = v
                                        /\ \A n \in 1 .. NumWarps : Lined[n] = w => i < n
<1>0. MaxActive \in Nat \ {0} /\ MaxActive <= NumWarps /\ NumWarps \in Nat
  BY SchedulerAssumption
<1>1. PICK stay, gone : stay = {w \in Warp : ~Demoted(w)} /\ gone = Warp \ stay
  OBVIOUS
<1>2. PICK at1 \in SUBSET (DOMAIN active) : \E from \in Bijection(1 .. Cardinality(at1), at1) :
           /\ \A n \in DOMAIN active : n \in at1 <=> active[n] \in stay
           /\ Only(active, stay) = [n \in 1 .. Cardinality(at1) |-> active[from[n]]]
           /\ \A m, n \in 1 .. Cardinality(at1) : m < n => from[m] < from[n]
  BY OnlyLists DEF LevelTypes
<1>3. PICK at2 \in SUBSET (DOMAIN active) : \E from \in Bijection(1 .. Cardinality(at2), at2) :
           /\ \A n \in DOMAIN active : n \in at2 <=> active[n] \in gone
           /\ Only(active, gone) = [n \in 1 .. Cardinality(at2) |-> active[from[n]]]
           /\ \A m, n \in 1 .. Cardinality(at2) : m < n => from[m] < from[n]
  BY OnlyLists DEF LevelTypes
<1>4. active \in [1 .. MaxActive -> Warp] /\ DOMAIN active = 1 .. MaxActive
  BY DEF LevelTypes, LevelsPartition
<1>5. IsFiniteSet(at1) /\ IsFiniteSet(at2) /\ Cardinality(at1) + Cardinality(at2) = MaxActive
  <2>1. IsFiniteSet(1 .. MaxActive) /\ Cardinality(1 .. MaxActive) = MaxActive
    <3>1. 1 \in Int /\ MaxActive \in Int /\ 1 <= MaxActive
      BY <1>0
    <3>. QED
      BY FS_Interval, <3>1
  <2>2. at1 \in SUBSET (1 .. MaxActive) /\ at2 \in SUBSET (1 .. MaxActive)
    BY <1>2, <1>3, <1>4
  <2>3. IsFiniteSet(at1) /\ IsFiniteSet(at2)
    BY <2>1, <2>2, FS_Subset
  <2>4. at1 \cap at2 = {} /\ at1 \cup at2 = 1 .. MaxActive
    BY <1>1, <1>2, <1>3, <1>4
  <2>5. Cardinality(at1 \cup at2) = Cardinality(at1) + Cardinality(at2) - Cardinality(at1 \cap at2)
    BY <2>3, FS_Union
  <2>6. Cardinality(at1 \cap at2) = 0
    BY <2>4, FS_EmptySet
  <2>7. Cardinality(at1) \in Nat /\ Cardinality(at2) \in Nat
    BY <2>3, FS_CardinalityType
  <2>8. Cardinality(at1 \cup at2) = MaxActive
    BY <2>1, <2>4
  <2>. QED
    BY <2>3, <2>5, <2>6, <2>7, <2>8
<1>6. PICK k1 \in Nat, k2 \in Nat : k1 = Cardinality(at1) /\ k2 = Cardinality(at2) /\ k1 + k2 = MaxActive
  BY <1>5, FS_CardinalityType
<1>7. PICK from1 \in Bijection(1 .. k1, at1) :
           /\ Only(active, stay) = [n \in 1 .. k1 |-> active[from1[n]]]
           /\ \A m, n \in 1 .. k1 : m < n => from1[m] < from1[n]
  BY <1>2, <1>6
<1>8. PICK from2 \in Bijection(1 .. k2, at2) :
           Only(active, gone) = [n \in 1 .. k2 |-> active[from2[n]]]
  BY <1>3, <1>6
<1>9. PICK keep : keep = Only(active, stay)
  OBVIOUS
<1>10. PICK back : back = Only(active, gone)
  OBVIOUS
<1>11. /\ keep \in Seq(Warp) /\ Len(keep) = k1 /\ from1 \in [1 .. k1 -> at1]
       /\ \A n \in 1 .. k1 : keep[n] = active[from1[n]]
       /\ \A n \in at1 : \E m \in 1 .. k1 : keep[m] = active[n] /\ from1[m] = n
  <2>1. from1 \in [1 .. k1 -> at1] /\ \A n \in at1 : \E m \in 1 .. k1 : from1[m] = n
    BY <1>7 DEF Bijection, Surjection
  <2>2. keep \in [1 .. k1 -> Warp]
    BY <1>2, <1>4, <1>7, <1>9, <2>1
  <2>. QED
    BY <1>7, <1>9, <2>1, <2>2
<1>12. /\ back \in Seq(Warp) /\ Len(back) = k2
       /\ \A n \in at2 : \E m \in 1 .. k2 : back[m] = active[n]
  <2>1. from2 \in [1 .. k2 -> at2] /\ \A n \in at2 : \E m \in 1 .. k2 : from2[m] = n
    BY <1>8 DEF Bijection, Surjection
  <2>2. back \in [1 .. k2 -> Warp]
    BY <1>3, <1>4, <1>8, <1>10, <2>1
  <2>. QED
    BY <1>8, <1>10, <2>1, <2>2
<1>13. PICK wait \in Nat : wait = Len(pending) /\ MaxActive + wait = NumWarps
  BY DEF LevelTypes, LevelsPartition
<1>14. /\ Lined \in Seq(Warp) /\ Len(Lined) = k1 + (wait + k2)
       /\ \A n \in 1 .. k1 : Lined[n] = keep[n]
       /\ \A n \in 1 .. wait : Lined[k1 + n] = pending[n]
       /\ \A n \in 1 .. k2 : Lined[k1 + (wait + n)] = back[n]
  <2>1. PICK rest : rest = pending \o back
    OBVIOUS
  <2>2. /\ rest \in Seq(Warp) /\ Len(rest) = wait + k2
        /\ \A n \in 1 .. wait + k2 : rest[n] = IF n <= wait THEN pending[n] ELSE back[n - wait]
    <3>1. pending \in Seq(Warp) /\ back \in Seq(Warp)
      BY <1>12 DEF LevelTypes
    <3>2. /\ rest \in Seq(Warp) /\ Len(rest) = Len(pending) + Len(back)
          /\ \A n \in 1 .. Len(pending) + Len(back) :
               rest[n] = IF n <= Len(pending) THEN pending[n] ELSE back[n - Len(pending)]
      BY <2>1, <3>1, ConcatProperties
    <3>. QED
      BY <1>12, <1>13, <3>2
  <2>3. Lined = keep \o rest
    BY <1>1, <1>9, <1>10, <2>1 DEF Lined
  <2>4. /\ Lined \in Seq(Warp) /\ Len(Lined) = k1 + (wait + k2)
        /\ \A n \in 1 .. k1 + (wait + k2) : Lined[n] = IF n <= k1 THEN keep[n] ELSE rest[n - k1]
    <3>0. keep \in Seq(Warp) /\ rest \in Seq(Warp)
      BY <1>11, <2>2
    <3>1. /\ Lined \in Seq(Warp) /\ Len(Lined) = Len(keep) + Len(rest)
          /\ \A n \in 1 .. Len(keep) + Len(rest) :
               Lined[n] = IF n <= Len(keep) THEN keep[n] ELSE rest[n - Len(keep)]
      BY <2>3, <3>0, ConcatProperties
    <3>. QED
      BY <1>11, <2>2, <3>1
  <2>5. ASSUME NEW n \in 1 .. wait + k2 PROVE Lined[k1 + n] = rest[n]
    <3>1. k1 + n \in 1 .. k1 + (wait + k2) /\ ~(k1 + n <= k1) /\ k1 + n - k1 = n
      OBVIOUS
    <3>. QED
      BY <2>4, <3>1
  <2>6. ASSUME NEW n \in 1 .. wait PROVE Lined[k1 + n] = pending[n]
    BY <2>2, <2>5
  <2>7. ASSUME NEW n \in 1 .. k2 PROVE Lined[k1 + (wait + n)] = back[n]
    <3>1. wait + n \in 1 .. wait + k2 /\ ~(wait + n <= wait) /\ wait + n - wait = n
      OBVIOUS
    <3>2. Lined[k1 + (wait + n)] = rest[wait + n] /\ rest[wait + n] = back[wait + n - wait]
      BY <2>2, <2>5, <3>1
    <3>. QED
      BY <3>1, <3>2
  <2>8. ASSUME NEW n \in 1 .. k1 PROVE Lined[n] = keep[n]
    <3>1. n \in 1 .. k1 + (wait + k2) /\ n <= k1
      OBVIOUS
    <3>. QED
      BY <2>4, <3>1
  <2>9. Lined \in Seq(Warp) /\ Len(Lined) = k1 + (wait + k2)
    BY <2>4
  <2>. QED
    BY <2>6, <2>7, <2>8, <2>9
<1>15. k1 + (wait + k2) = NumWarps
  BY <1>6, <1>13
<1>16. ASSUME NEW w \in Warp PROVE \E n \in 1 .. NumWarps : Lined[n] = w
  <2>1. CASE w \in Range(pending)
    <3>1. PICK n \in 1 .. wait : pending[n] = w
      BY <1>13, <2>1 DEF Range, LevelTypes
    <3>2. k1 + n \in 1 .. NumWarps
      BY <1>15
    <3>. QED
      BY <1>14, <3>1, <3>2
  <2>2. CASE w \in Range(active)
    <3>1. PICK n \in 1 .. MaxActive : active[n] = w
      BY <1>4, <2>2 DEF Range
    <3>2. CASE n \in at1
      <4>1. PICK m \in 1 .. k1 : keep[m] = w
        BY <1>11, <3>1, <3>2
      <4>2. m \in 1 .. NumWarps
        BY <1>15
      <4>. QED
        BY <1>14, <4>1, <4>2
    <3>3. CASE n \in at2
      <4>1. PICK m \in 1 .. k2 : back[m] = w
        BY <1>12, <3>1, <3>3
      <4>2. k1 + (wait + m) \in 1 .. NumWarps
        BY <1>15
      <4>. QED
        BY <1>14, <4>1, <4>2
    <3>4. n \in at1 \/ n \in at2
      BY <1>1, <1>2, <1>3, <1>4, <3>1
    <3>. QED
      BY <3>2, <3>3, <3>4
  <2>. QED
    BY <2>1, <2>2 DEF LevelTypes, LevelsPartition
<1>17. ASSUME NEW v \in Warp, NEW w \in Warp, Before(active, v, w), ~Demoted(v)
       PROVE  \E i \in 1 .. MaxActive : /\ Lined[i] = v
                                        /\ \A n \in 1 .. NumWarps : Lined[n] = w => i < n
  <2>1. PICK m \in 1 .. MaxActive : /\ active[m] = v
                                    /\ \A n \in 1 .. MaxActive : active[n] = w => m < n
    BY <1>4, <1>17 DEF Before
  <2>2. PICK i \in 1 .. k1 : keep[i] = v /\ from1[i] = m
    BY <1>1, <1>2, <1>4, <1>11, <1>17, <2>1
  <2>3. i \in 1 .. MaxActive /\ Lined[i] = v
    BY <1>6, <1>14, <2>2
  <2>4. ASSUME NEW n \in 1 .. NumWarps, Lined[n] = w PROVE i < n
    <3>1. CASE n \in 1 .. k1
      <4>1. active[from1[n]] = w /\ from1[n] \in 1 .. MaxActive
        BY <1>2, <1>4, <1>11, <1>14, <2>4, <3>1
      <4>2. m < from1[n]
        BY <2>1, <4>1
      <4>3. from1[i] < from1[n] /\ from1[i] \in Int /\ from1[n] \in Int
        BY <2>2, <4>1, <4>2
      <4>4. n < i => from1[n] < from1[i]
        BY <1>7, <3>1
      <4>. QED
        BY <3>1, <4>3, <4>4
    <3>2. CASE n \notin 1 .. k1
      BY <3>2
    <3>. QED
      BY <3>1, <3>2
  <2>. QED
    BY <2>3, <2>4
<1>. QED
  BY <1>14, <1>15, <1>16, <1>17

(* Levels shares the warps out anew: the active level is full again, and   *)
(* no warp is in a level twice.                                            *)
LEMMA LevelsShare ==
  ASSUME LevelTypes
  PROVE  /\ Levels.active \in Seq(Warp) /\ Levels.pending \in Seq(Warp)
         /\ Len(Levels.active) = MaxActive /\ MaxActive + Len(Levels.pending) = NumWarps
         /\ Range(Levels.active) \union Range(Levels.pending) = Warp
         /\ IsInjective(Levels.active)
         /\ \A v, w \in Warp : Before(active, v, w) /\ ~Demoted(v) => Before(Levels.active, v, w)
<1>0. MaxActive \in Nat \ {0} /\ MaxActive <= NumWarps /\ NumWarps \in Nat
  BY SchedulerAssumption
<1>1. PICK list : list = Lined
  OBVIOUS
<1>2. /\ list \in Seq(Warp) /\ Len(list) = NumWarps /\ list \in [1 .. NumWarps -> Warp]
      /\ \A w \in Warp : \E n \in 1 .. NumWarps : list[n] = w
  BY <1>1, LinedHasAll
<1>3. IsInjective(list)
  BY <1>2, NoneTwice
<1>4. PICK act, pend : act = Levels.active /\ pend = Levels.pending
  OBVIOUS
<1>5. act = SubSeq(list, 1, MaxActive) /\ pend = SubSeq(list, MaxActive + 1, NumWarps)
  BY <1>1, <1>4 DEF Levels
<1>6. /\ act \in Seq(Warp) /\ Len(act) = MaxActive
      /\ \A i \in 1 .. MaxActive : act[i] = list[i]
  <2>1. 1 \in Int /\ MaxActive \in Int /\ \A i \in 1 .. MaxActive : list[i] \in Warp
    BY <1>0, <1>2
  <2>2. /\ act \in Seq(Warp)
        /\ Len(act) = IF 1 <= MaxActive THEN MaxActive - 1 + 1 ELSE 0
        /\ \A i \in 1 .. MaxActive - 1 + 1 : act[i] = list[1 + i - 1]
    BY <1>5, <2>1, SubSeqProperties
  <2>3. ASSUME NEW i \in 1 .. MaxActive PROVE act[i] = list[i]
    <3>1. i \in 1 .. MaxActive - 1 + 1 /\ 1 + i - 1 = i
      BY <1>0
    <3>. QED
      BY <2>2, <3>1
  <2>. QED
    BY <1>0, <2>2, <2>3
<1>7. /\ pend \in Seq(Warp) /\ Len(pend) = NumWarps - MaxActive
      /\ \A i \in 1 .. NumWarps - MaxActive : pend[i] = list[MaxActive + i]
  <2>1. /\ MaxActive + 1 \in Int /\ NumWarps \in Int
        /\ \A i \in MaxActive + 1 .. NumWarps : list[i] \in Warp
    BY <1>0, <1>2
  <2>2. PICK m \in Int : m = MaxActive + 1
    BY <2>1
  <2>3. /\ pend \in Seq(Warp)
        /\ Len(pend) = IF m <= NumWarps THEN NumWarps - m + 1 ELSE 0
        /\ \A i \in 1 .. NumWarps - m + 1 : pend[i] = list[m + i - 1]
    BY <1>5, <2>1, <2>2, SubSeqProperties
  <2>4. ASSUME NEW i \in 1 .. NumWarps - MaxActive PROVE pend[i] = list[MaxActive + i]
    <3>1. i \in 1 .. NumWarps - m + 1 /\ m + i - 1 = MaxActive + i
      BY <1>0, <2>2
    <3>. QED
      BY <2>3, <3>1
  <2>. QED
    BY <1>0, <2>2, <2>3, <2>4
<1>8. DOMAIN act = 1 .. MaxActive /\ DOMAIN pend = 1 .. NumWarps - MaxActive
  BY <1>6, <1>7
<1>9. Range(act) \union Range(pend) = Warp
  <2>1. ASSUME NEW w \in Warp PROVE w \in Range(act) \/ w \in Range(pend)
    <3>1. PICK n \in 1 .. NumWarps : list[n] = w
      BY <1>2
    <3>2. CASE n <= MaxActive
      BY <1>0, <1>6, <1>8, <3>1, <3>2 DEF Range
    <3>3. CASE ~(n <= MaxActive)
      <4>1. n - MaxActive \in 1 .. NumWarps - MaxActive /\ MaxActive + (n - MaxActive) = n
        BY <1>0, <3>3
      <4>2. pend[n - MaxActive] = w
        BY <1>7, <3>1, <4>1
      <4>. QED
        BY <1>8, <4>1, <4>2 DEF Range
    <3>. QED
      BY <3>2, <3>3
  <2>2. Range(act) \subseteq Warp /\ Range(pend) \subseteq Warp
    BY <1>6, <1>7 DEF Range
  <2>. QED
    BY <2>1, <2>2
<1>10. IsInjective(act)
  BY <1>0, <1>2, <1>3, <1>6, <1>8 DEF IsInjective
<1>11. ASSUME NEW v \in Warp, NEW w \in Warp, Before(active, v, w), ~Demoted(v) PROVE Before(act, v, w)
  <2>1. PICK i \in 1 .. MaxActive : /\ list[i] = v
                                    /\ \A n \in 1 .. NumWarps : list[n] = w => i < n
    BY <1>1, <1>11, LinedHasAll
  <2>. QED
    BY <1>0, <1>6, <1>8, <2>1 DEF Before
<1>. QED
  BY <1>0, <1>4, <1>6, <1>7, <1>9, <1>10, <1>11

-----------------------------------------------------------------------------
(* What a turn makes of the warps.                                         *)

Plans ==
  /\ prog \in [Warp -> Seq([op : Op, dep : BOOLEAN])]
  /\ \A w \in Warp : \A n \in DOMAIN prog[w] : prog[w][n].op = "EXIT" <=> n = Len(prog[w])

WarpRecord == [pc : Nat, buffered : 0 .. 2, stale : BOOLEAN, result : {"none", "short", "long"}]

StateOK(s) ==
  /\ s = [warp |-> s.warp, barrier |-> s.barrier, room |-> s.room]
  /\ s.warp \in [Warp -> WarpRecord]
  /\ \A w \in Warp : /\ s.warp[w].pc \in 1 .. Len(prog[w]) + 1
                     /\ s.warp[w].stale => s.warp[w].buffered > 0
  /\ s.barrier \subseteq {w \in Warp : s.warp[w].pc <= Len(prog[w])}
  /\ s.room \in [Pipe -> 0 .. Width]

(* An instruction that has a pipe has room in it when it can issue. *)
LEMMA PipeHasRoom ==
  ASSUME NEW s, NEW w \in Warp, NEW p \in PipeFor(s, w)
  PROVE  p \in Pipe /\ s.room[p] > 0
<1>1. PICK fits : fits = CASE NextInst(s, w).op = "LOAD"    -> <<"MEM">>
                           [] NextInst(s, w).op = "SFU"     -> <<"SFU">>
                           [] NextInst(s, w).op = "ALU_SFU" -> <<"SP", "SFU">>
                           [] OTHER                         -> <<"SP">>
  OBVIOUS
<1>2. PICK n \in DOMAIN fits : p = fits[n] /\ s.room[fits[n]] > 0
  BY <1>1 DEF PipeFor
<1>3. fits \in {<<"MEM">>, <<"SFU">>, <<"SP", "SFU">>, <<"SP">>}
  BY <1>1
<1>4. fits[n] \in Pipe
  BY <1>3 DEF Pipe
<1>. QED
  BY <1>2, <1>4

(* A taken branch empties the buffer and leaves the types alone. *)
LEMMA FlushKeeps ==
  ASSUME NEW s, StateOK(s), NEW w \in Warp
  PROVE  /\ StateOK(ibuffer_flush(s, w))
         /\ ibuffer_flush(s, w).warp[w].pc = s.warp[w].pc
         /\ \A v \in Warp \ {w} : ibuffer_flush(s, w).warp[v] = s.warp[v]
<1>1. PICK u : u = ibuffer_flush(s, w)
  OBVIOUS
<1>2. /\ u = [warp |-> u.warp, barrier |-> u.barrier, room |-> u.room]
      /\ u.warp = [s.warp EXCEPT ![w].buffered = 0, ![w].stale = FALSE]
      /\ u.barrier = s.barrier /\ u.room = s.room
  BY <1>1 DEF StateOK, ibuffer_flush
<1>3. PICK rec : rec = [s.warp[w] EXCEPT !.buffered = 0, !.stale = FALSE]
  OBVIOUS
<1>4. rec \in WarpRecord /\ rec.pc = s.warp[w].pc /\ ~rec.stale
  <2>1. PICK old \in WarpRecord : old = s.warp[w]
    BY DEF StateOK
  <2>2. rec = [pc |-> old.pc, buffered |-> 0, stale |-> FALSE, result |-> old.result]
    BY <1>3, <2>1 DEF WarpRecord
  <2>. QED
    BY <2>1, <2>2 DEF WarpRecord
<1>5. u.warp \in [Warp -> WarpRecord] /\ u.warp[w] = rec /\ \A v \in Warp \ {w} : u.warp[v] = s.warp[v]
  <2>1. u.warp = [s.warp EXCEPT ![w] = rec]
    BY <1>2, <1>3 DEF StateOK
  <2>. QED
    BY <1>4, <2>1 DEF StateOK
<1>6. \A v \in Warp : /\ u.warp[v].pc = s.warp[v].pc
                      /\ u.warp[v].stale => u.warp[v].buffered > 0
  BY <1>4, <1>5 DEF StateOK
<1>. QED
  BY <1>1, <1>2, <1>4, <1>5, <1>6 DEF StateOK

(* issue_warp changes the one warp, and takes one place of the pipe. *)
LEMMA IssueKeeps ==
  ASSUME Plans, NEW s, StateOK(s), NEW w \in Warp, CanIssue(s, w), NEW p \in PipeFor(s, w)
  PROVE  /\ StateOK(issue_warp(s, w, p))
         /\ \A v \in Warp \ {w} : issue_warp(s, w, p).warp[v] = s.warp[v]
<1>1. PICK u : u = issue_warp(s, w, p)
  OBVIOUS
<1>2. PICK op : op = NextInst(s, w).op
  OBVIOUS
<1>3. PICK at \in Nat : at = s.warp[w].pc
  BY DEF StateOK, WarpRecord
<1>4. PICK len \in Nat : len = Len(prog[w])
  BY DEF Plans
<1>5. 1 <= at /\ at <= len /\ op \in Op /\ s.warp[w].buffered > 0 /\ w \notin s.barrier
  <2>1. at <= len /\ s.warp[w].buffered > 0 /\ w \notin s.barrier
    BY <1>3, <1>4 DEF CanIssue, Tested
  <2>2. 1 <= at
    BY <1>3 DEF StateOK
  <2>3. prog[w] \in Seq([op : Op, dep : BOOLEAN]) /\ at \in 1 .. Len(prog[w])
    <3>1. at \in 1 .. len
      BY <2>1, <2>2
    <3>. QED
      BY <1>4, <3>1 DEF Plans
  <2>4. prog[w][at] \in [op : Op, dep : BOOLEAN]
    BY <2>3, ElementOfSeq
  <2>5. op = prog[w][at].op
    BY <1>2, <1>3 DEF NextInst
  <2>. QED
    BY <2>1, <2>2, <2>4, <2>5
<1>6. op = "EXIT" <=> at = len
  BY <1>2, <1>3, <1>4, <1>5 DEF NextInst, Plans
<1>7. PICK left : left = IF op = "EXIT" THEN 0 ELSE s.warp[w].buffered - 1
  OBVIOUS
<1>8. left \in 0 .. 2
  BY <1>5, <1>7 DEF StateOK, WarpRecord
<1>9. PICK rec : rec = [pc |-> at + 1, buffered |-> left,
                        stale |-> op = "BRANCH" /\ left > 0,
                        result |-> CASE op = "LOAD" -> "long"
                                     [] op \in {"ALU", "SFU", "ALU_SFU"} /\ s.warp[w].result = "none" -> "short"
                                     [] OTHER -> s.warp[w].result]
  OBVIOUS
<1>10. rec \in WarpRecord /\ rec.pc = at + 1 /\ (rec.stale => rec.buffered > 0)
  <2>1. PICK res : res = CASE op = "LOAD" -> "long"
                          [] op \in {"ALU", "SFU", "ALU_SFU"} /\ s.warp[w].result = "none" -> "short"
                          [] OTHER -> s.warp[w].result
    OBVIOUS
  <2>2. res \in {"none", "short", "long"}
    BY <2>1 DEF StateOK, WarpRecord
  <2>3. PICK branch \in BOOLEAN : branch = (op = "BRANCH" /\ left > 0)
    OBVIOUS
  <2>4. rec = [pc |-> at + 1, buffered |-> left, stale |-> branch, result |-> res]
    BY <1>9, <2>1, <2>3
  <2>5. at + 1 \in Nat
    OBVIOUS
  <2>6. rec \in WarpRecord /\ rec.pc = at + 1 /\ rec.stale = branch /\ rec.buffered = left
    BY <1>8, <2>2, <2>4, <2>5 DEF WarpRecord
  <2>. QED
    BY <2>3, <2>6
<1>11. /\ u = [warp |-> u.warp, barrier |-> u.barrier, room |-> u.room]
       /\ u.warp = [s.warp EXCEPT ![w] = rec]
       /\ u.barrier = Arrivals(s, w) /\ u.room = [s.room EXCEPT ![p] = @ - 1]
  BY <1>1, <1>2, <1>3, <1>7, <1>9 DEF issue_warp
<1>12. u.warp \in [Warp -> WarpRecord] /\ u.warp[w] = rec /\ \A v \in Warp \ {w} : u.warp[v] = s.warp[v]
  BY <1>10, <1>11 DEF StateOK
<1>13. \A v \in Warp : /\ u.warp[v].pc \in 1 .. Len(prog[v]) + 1
                       /\ u.warp[v].stale => u.warp[v].buffered > 0
  BY <1>3, <1>4, <1>5, <1>10, <1>12 DEF StateOK
<1>14. u.barrier \subseteq {v \in Warp : u.warp[v].pc <= Len(prog[v])}
  <2>1. u.barrier \subseteq s.barrier \union (IF op = "BARRIER" THEN {w} ELSE {})
    BY <1>2, <1>11 DEF Arrivals
  <2>2. op = "BARRIER" => at + 1 <= len
    BY <1>5, <1>6
  <2>3. op = "BARRIER" => u.warp[w].pc <= Len(prog[w])
    BY <1>4, <1>10, <1>12, <2>2
  <2>4. \A v \in s.barrier : v \in Warp /\ u.warp[v].pc <= Len(prog[v])
    BY <1>5, <1>12 DEF StateOK
  <2>. QED
    BY <2>1, <2>3, <2>4
<1>15. u.room \in [Pipe -> 0 .. Width]
  <2>1. p \in Pipe /\ s.room[p] > 0
    BY PipeHasRoom
  <2>2. s.room \in [Pipe -> 0 .. Width] /\ s.room[p] - 1 \in 0 .. Width
    BY <2>1, SchedulerAssumption DEF StateOK
  <2>. QED
    BY <1>11, <2>1, <2>2
<1>. QED
  BY <1>1, <1>11, <1>12, <1>13, <1>14, <1>15 DEF StateOK

(* What is true of w's turn at each of its instructions.                   *)
TurnOK(t, s, w) ==
  /\ t = [s |-> t.s, issued |-> t.issued, on |-> t.on]
  /\ StateOK(t.s) /\ t.issued \in Nat
  /\ \A v \in Warp \ {w} : t.s.warp[v] = s.warp[v]

(* One instruction of a turn: it is issued, flushed or left. *)
LEMMA TryKeeps ==
  ASSUME Plans, NEW s, NEW w \in Warp, NEW t, TurnOK(t, s, w)
  PROVE  TurnOK(Try(t, w), s, w)
<1>1. PICK u : u = Try(t, w)
  OBVIOUS
<1>2. CASE ~t.on \/ ~Tested(t.s, w)
  BY <1>1, <1>2 DEF Try, TurnOK
<1>3. CASE t.on /\ Tested(t.s, w) /\ t.s.warp[w].stale
  <2>1. PICK f : f = ibuffer_flush(t.s, w)
    OBVIOUS
  <2>2. StateOK(f) /\ \A v \in Warp \ {w} : f.warp[v] = t.s.warp[v]
    BY <2>1, FlushKeeps DEF TurnOK
  <2>3. u = [t EXCEPT !.s = f, !.on = FALSE]
    BY <1>1, <1>3, <2>1 DEF Try
  <2>4. u = [s |-> f, issued |-> t.issued, on |-> FALSE]
    BY <2>3 DEF TurnOK
  <2>. QED
    BY <1>1, <2>2, <2>4 DEF TurnOK
<1>4. CASE t.on /\ Tested(t.s, w) /\ ~t.s.warp[w].stale /\ CanIssue(t.s, w)
  <2>1. PICK p \in PipeFor(t.s, w) : p = CHOOSE q \in PipeFor(t.s, w) : TRUE
    BY <1>4 DEF CanIssue
  <2>2. PICK f : f = issue_warp(t.s, w, p)
    OBVIOUS
  <2>3. StateOK(f) /\ \A v \in Warp \ {w} : f.warp[v] = t.s.warp[v]
    BY <1>4, <2>2, IssueKeeps DEF TurnOK
  <2>4. u = [s |-> f, issued |-> t.issued + 1, on |-> TRUE]
    BY <1>1, <1>4, <2>1, <2>2 DEF Try
  <2>. QED
    BY <1>1, <2>3, <2>4 DEF TurnOK
<1>5. CASE t.on /\ Tested(t.s, w) /\ ~t.s.warp[w].stale /\ ~CanIssue(t.s, w)
  BY <1>1, <1>5 DEF Try, TurnOK
<1>. QED
  BY <1>2, <1>3, <1>4, <1>5

IsTurn(turn, start, w, K) ==
  turn = [n \in 0 .. K |-> IF n = 0 THEN start ELSE {Try(u, w) : u \in turn[n - 1]}]

(* The recursive function of a turn has the values that it states. *)
LEMMA TurnExists ==
  ASSUME NEW start, NEW w, NEW K \in Nat
  PROVE  \E turn : IsTurn(turn, start, w, K)
<1>1. PICK T : T = {k \in Nat : \E turn : IsTurn(turn, start, w, k)}
  OBVIOUS
<1>2. 0 \in T
  <2>1. PICK turn : turn = [n \in 0 .. 0 |-> start]
    OBVIOUS
  <2>2. turn = [n \in 0 .. 0 |-> IF n = 0 THEN start ELSE {Try(u, w) : u \in turn[n - 1]}]
    BY <2>1
  <2>3. IsTurn(turn, start, w, 0)
    BY <2>2 DEF IsTurn
  <2>. QED
    BY <1>1, <2>3
<1>3. ASSUME NEW k \in T PROVE k + 1 \in T
  <2>0. PICK turn : IsTurn(turn, start, w, k)
    BY <1>1
  <2>1. turn = [n \in 0 .. k |-> IF n = 0 THEN start ELSE {Try(u, w) : u \in turn[n - 1]}]
    BY <2>0 DEF IsTurn
  <2>2. k \in Nat
    BY <1>1
  <2>3. PICK next : next = {Try(u, w) : u \in turn[k]}
    OBVIOUS
  <2>4. PICK more : more = [n \in 0 .. k + 1 |-> IF n = k + 1 THEN next ELSE turn[n]]
    OBVIOUS
  <2>5. ASSUME NEW n \in 0 .. k + 1
        PROVE  more[n] = IF n = 0 THEN start ELSE {Try(u, w) : u \in more[n - 1]}
    <3>1. CASE n = 0
      <4>1. more[n] = turn[0] /\ turn[0] = start
        BY <2>1, <2>2, <2>4, <3>1
      <4>. QED
        BY <3>1, <4>1
    <3>2. CASE n \in 1 .. k
      <4>1. more[n] = turn[n] /\ more[n - 1] = turn[n - 1]
        BY <2>2, <2>4, <3>2
      <4>2. turn[n] = {Try(u, w) : u \in turn[n - 1]}
        BY <2>1, <2>2, <3>2
      <4>. QED
        BY <3>2, <4>1, <4>2
    <3>3. CASE n = k + 1
      <4>1. more[n] = next /\ more[n - 1] = turn[k] /\ n # 0
        BY <2>2, <2>4, <3>3
      <4>. QED
        BY <2>3, <4>1
    <3>. QED
      BY <2>2, <3>1, <3>2, <3>3
  <2>6. more = [n \in 0 .. k + 1 |-> IF n = 0 THEN start ELSE {Try(u, w) : u \in more[n - 1]}]
    BY <2>4, <2>5
  <2>7. IsTurn(more, start, w, k + 1)
    BY <2>6 DEF IsTurn
  <2>. QED
    BY <1>1, <2>2, <2>7
<1>4. K \in T
  BY <1>1, <1>2, <1>3, NatInd
<1>. QED
  BY <1>1, <1>4

(* A turn gives one state, that keeps what every instruction keeps; with a *)
(* single instruction in a turn, a warp that can issue issues it.          *)
LEMMA TurnKeeps ==
  ASSUME Plans, policy \in Policies, NEW s, StateOK(s), NEW w \in Warp, NEW t \in Turn(s, w)
  PROVE  /\ TurnOK(t, s, w)
         /\ MaxIssue[policy] = 1 /\ CanIssue(s, w) => t.issued = 1
<1>1. PICK K \in Nat \ {0} : K = MaxIssue[policy]
  BY SchedulerAssumption
<1>2. PICK t0 : t0 = [s |-> s, issued |-> 0, on |-> TRUE]
  OBVIOUS
<1>3. PICK start : start = {t0}
  OBVIOUS
<1>4. PICK turn : /\ turn = [n \in 0 .. K |-> IF n = 0 THEN start ELSE {Try(u, w) : u \in turn[n - 1]}]
                  /\ Turn(s, w) = turn[K]
  <2>1. PICK f : f = CHOOSE turn : turn = [n \in 0 .. K |->
                       IF n = 0 THEN start ELSE {Try(u, w) : u \in turn[n - 1]}]
    OBVIOUS
  <2>2. \E turn : IsTurn(turn, start, w, K)
    BY TurnExists
  <2>3. f = [n \in 0 .. K |-> IF n = 0 THEN start ELSE {Try(u, w) : u \in f[n - 1]}]
    BY <2>1, <2>2 DEF IsTurn
  <2>4. Turn(s, w) = f[K]
    BY <1>1, <1>2, <1>3, <2>1 DEF Turn
  <2>. QED
    BY <2>3, <2>4
<1>5. TurnOK(t0, s, w)
  BY <1>2 DEF TurnOK
<1>6. PICK T : T = {n \in Nat : n <= K => \A u \in turn[n] : TurnOK(u, s, w)}
  OBVIOUS
<1>7. 0 \in T
  <2>1. turn[0] = {t0}
    BY <1>3, <1>4
  <2>. QED
    BY <1>5, <1>6, <2>1
<1>8. ASSUME NEW n \in T PROVE n + 1 \in T
  <2>1. n \in Nat
    BY <1>6
  <2>2. SUFFICES ASSUME n + 1 <= K, NEW u \in turn[n + 1] PROVE TurnOK(u, s, w)
    BY <1>6, <2>1
  <2>3. turn[n + 1] = {Try(v, w) : v \in turn[n]}
    <3>1. PICK m \in 0 .. K : m = n + 1 /\ m # 0 /\ m - 1 = n
      BY <2>1, <2>2
    <3>2. turn[m] = {Try(v, w) : v \in turn[m - 1]}
      BY <1>4, <3>1
    <3>. QED
      BY <3>1, <3>2
  <2>4. PICK v \in turn[n] : u = Try(v, w)
    BY <2>2, <2>3
  <2>5. TurnOK(v, s, w)
    BY <1>6, <2>1, <2>2, <2>4
  <2>. QED
    BY <2>4, <2>5, TryKeeps
<1>9. K \in T
  BY <1>6, <1>7, <1>8, NatInd
<1>10. TurnOK(t, s, w)
  BY <1>4, <1>6, <1>9
<1>11. ASSUME K = 1, CanIssue(s, w) PROVE t.issued = 1
  <2>1. turn[0] = {t0} /\ turn[1] = {Try(u, w) : u \in turn[0]}
    BY <1>3, <1>4, <1>11
  <2>2. t = Try(t0, w)
    BY <1>4, <1>11, <2>1
  <2>. QED
    BY <1>2, <1>11, <2>2 DEF Try, CanIssue
<1>. QED
  BY <1>1, <1>10, <1>11

-----------------------------------------------------------------------------
(* What a scheduler keeps, and its cycle.                                  *)

SchedTypes ==
  /\ policy \in Policies /\ prog \in Programs /\ age \in Ages
  /\ StateOK(Now)
  /\ last \in 0 .. NumWarps /\ (policy \in {"gto", "swl"} => last \in Warp)
  /\ LevelTypes
  /\ over \in [Warp -> SUBSET Warp]

(* The assumption on the programs, of the program that was chosen. *)
LEMMA PlansHold ==
  ASSUME prog \in Programs
  PROVE  Plans
BY SchedulerAssumption DEF Plans

(* Waiting warps come after the others, and each kind in order of age.     *)
LEMMA OlderOrders ==
  ASSUME age \in Ages, NEW S \in SUBSET Warp
  PROVE  IsFiniteSet(S) /\ StrictOrder(S, {p \in Warp \X Warp : Older(p[1], p[2])})
<1>1. PICK before : before = {p \in Warp \X Warp : Older(p[1], p[2])}
  OBVIOUS
<1>2. \A v, w \in Warp : <<v, w>> \in before <=> Older(v, w)
  BY <1>1
<1>3. age \in [Warp -> Nat] /\ \A v, w \in Warp : age[v] = age[w] => v = w
  BY SchedulerAssumption
<1>4. \A v, w \in Warp : v # w => age[v] < age[w] \/ age[w] < age[v]
  BY <1>3
<1>5. \A v \in Warp : ~(age[v] < age[v])
  BY <1>3
<1>6. \A u, v, w \in Warp : age[u] < age[v] /\ age[v] < age[w] => age[u] < age[w]
  BY <1>3
<1>7. StrictOrder(S, before)
  <2>1. ASSUME NEW v \in S PROVE <<v, v>> \notin before
    BY <1>2, <1>5 DEF Older
  <2>2. ASSUME NEW v \in S, NEW w \in S, v # w PROVE <<v, w>> \in before \/ <<w, v>> \in before
    <3>1. waiting(v) \in BOOLEAN /\ waiting(w) \in BOOLEAN
      BY DEF waiting
    <3>2. Older(v, w) \/ Older(w, v)
      BY <1>4, <2>2, <3>1 DEF Older
    <3>. QED
      BY <1>2, <3>2
  <2>3. ASSUME NEW u \in S, NEW v \in S, NEW w \in S, <<u, v>> \in before, <<v, w>> \in before
        PROVE  <<u, w>> \in before
    BY <1>2, <1>6, <2>3 DEF Older
  <2>. QED
    BY <2>1, <2>2, <2>3 DEF StrictOrder
<1>. QED
  BY <1>1, <1>7, WarpsFinite, FS_Subset

(* The order by priority: the greedy one, and the others of S sorted.      *)
LEMMA SortedLists ==
  ASSUME age \in Ages, NEW greedy \in Warp, NEW S \in SUBSET Warp
  PROVE  /\ <<greedy>> \o Sorted(S) \in Seq(Warp)
         /\ Len(<<greedy>> \o Sorted(S)) = Cardinality(S) + 1 /\ Cardinality(S) \in Nat
         /\ (<<greedy>> \o Sorted(S))[1] = greedy
         /\ \A w \in S : \E n \in 2 .. Cardinality(S) + 1 : (<<greedy>> \o Sorted(S))[n] = w
         /\ \A m, n \in 2 .. Cardinality(S) + 1 :
              m < n => Older((<<greedy>> \o Sorted(S))[m], (<<greedy>> \o Sorted(S))[n])
<1>1. PICK before : before = {p \in Warp \X Warp : Older(p[1], p[2])}
  OBVIOUS
<1>2. IsFiniteSet(S) /\ StrictOrder(S, before)
  BY <1>1, OlderOrders
<1>3. PICK k \in Nat : k = Cardinality(S)
  BY <1>2, FS_CardinalityType
<1>4. PICK f : f = Sorted(S)
  OBVIOUS
<1>5. f \in Bijection(1 .. k, S) /\ \A m, n \in 1 .. k : m < n => <<f[m], f[n]>> \in before
  BY <1>1, <1>2, <1>3, <1>4, InOrderLists DEF Sorted
<1>6. f \in [1 .. k -> S] /\ \A w \in S : \E n \in 1 .. k : f[n] = w
  BY <1>5 DEF Bijection, Surjection
<1>7. \A m, n \in 1 .. k : m < n => Older(f[m], f[n])
  BY <1>1, <1>5
<1>8. f \in Seq(Warp) /\ Len(f) = k /\ <<greedy>> \in Seq(Warp) /\ Len(<<greedy>>) = 1 /\ <<greedy>>[1] = greedy
  BY <1>6
<1>9. PICK order : order = <<greedy>> \o f
  OBVIOUS
<1>10. /\ order \in Seq(Warp) /\ Len(order) = k + 1 /\ order[1] = greedy
       /\ \A n \in 1 .. 1 + k : order[n] = IF n <= 1 THEN <<greedy>>[n] ELSE f[n - 1]
  <2>1. PICK first : first = <<greedy>>
    OBVIOUS
  <2>2. /\ order \in Seq(Warp) /\ Len(order) = Len(first) + Len(f)
        /\ \A n \in 1 .. Len(first) + Len(f) : order[n] = IF n <= Len(first) THEN first[n] ELSE f[n - Len(first)]
    BY <1>8, <1>9, <2>1, ConcatProperties
  <2>. QED
    BY <1>8, <2>1, <2>2
<1>11. \A n \in 2 .. k + 1 : n - 1 \in 1 .. k /\ order[n] = f[n - 1]
  BY <1>10
<1>12. ASSUME NEW w \in S PROVE \E n \in 2 .. k + 1 : order[n] = w
  <2>1. PICK n \in 1 .. k : f[n] = w
    BY <1>6
  <2>2. PICK m \in 2 .. k + 1 : m = n + 1 /\ m - 1 = n
    OBVIOUS
  <2>. QED
    BY <1>11, <2>1, <2>2
<1>13. ASSUME NEW m \in 2 .. k + 1, NEW n \in 2 .. k + 1, m < n PROVE Older(order[m], order[n])
  <2>1. PICK i \in 1 .. k, j \in 1 .. k : i = m - 1 /\ j = n - 1 /\ i < j
    BY <1>13
  <2>2. Older(f[i], f[j]) /\ order[m] = f[i] /\ order[n] = f[j]
    BY <1>7, <1>11, <2>1
  <2>. QED
    BY <2>2
<1>. QED
  BY <1>3, <1>4, <1>9, <1>10, <1>12, <1>13

(* Every policy gives a list of warps. *)
LEMMA OrderIsList ==
  ASSUME SchedTypes
  PROVE  order_warps \in Seq(Warp)
<1>1. Policies \subseteq {"lrr", "gto", "two_level", "swl"}
  BY SchedulerAssumption
<1>2. CASE policy = "lrr"
  <2>1. PICK list : list = [w \in Warp |-> w]
    OBVIOUS
  <2>2. list \in Seq(Warp) /\ list # <<>>
    BY <2>1, WarpsFinite DEF Warp
  <2>. QED
    BY <1>2, <2>1, <2>2, RotationKeeps DEF order_warps, lrr_order, SchedTypes
<1>3. CASE policy \in {"gto", "swl"}
  <2>1. last \in Warp /\ age \in Ages
    BY <1>3 DEF SchedTypes
  <2>2. ASSUME NEW num PROVE order_by_priority(last, num) \in Seq(Warp)
    <3>1. Oldest(num) \ {last} \in SUBSET Warp
      BY DEF Oldest
    <3>. QED
      BY <2>1, <3>1, SortedLists DEF order_by_priority
  <2>. QED
    BY <1>3, <2>2 DEF order_warps, gto_order, swl_order
<1>4. CASE policy = "two_level"
  BY <1>4, LevelsShare DEF order_warps, SchedTypes
<1>. QED
  BY <1>1, <1>2, <1>3, <1>4 DEF SchedTypes

(* Min0 is the least member of a set of numbers, or 0. *)
LEMMA FirstOf ==
  ASSUME NEW S \in SUBSET (Nat \ {0})
  PROVE  IF S = {} THEN Min0(S) = 0 ELSE Min0(S) \in S /\ \A m \in S : Min0(S) <= m
<1>1. CASE S = {}
  BY <1>1 DEF Min0
<1>2. CASE S # {}
  <2>1. PICK n \in S : \A m \in S : n <= m
    BY <1>2, LeastNat
  <2>2. n \in S \union {0} /\ ((S = {} /\ n = 0) \/ (n \in S /\ \A m \in S : n <= m))
    BY <2>1
  <2>. QED
    BY <1>2, <2>2 DEF Min0
<1>. QED
  BY <1>1, <1>2

Outcome(order, at, t) ==
  /\ warp' = t.s.warp /\ barrier' = t.s.barrier /\ room' = t.s.room
  /\ last' = IF at = 0 \/ policy = "two_level" THEN last ELSE order[at]
  /\ active' = IF policy # "two_level" THEN active
               ELSE IF at = 0 THEN order ELSE Rotated(order, at, t.issued)
  /\ pending' = IF policy = "two_level" THEN Levels.pending ELSE pending
  /\ over' = IF at = 0 \/ policy \in {"gto", "swl"} THEN [v \in Warp |-> {}]
             ELSE Passed(order[at], order)
  /\ UNCHANGED <<policy, prog, age>>

(* A cycle: the first of the order that can issue is at the place at, or   *)
(* there is none; it alone makes progress, and t is what comes of that.    *)
CycleOf(order, at, t) ==
  /\ order = order_warps /\ order \in Seq(Warp) /\ at \in 0 .. Len(order)
  /\ \A n \in 1 .. Len(order) : CanIssue(Now, order[n]) => at # 0 /\ at <= n
  /\ at # 0 => CanIssue(Now, order[at])
  /\ StateOK(t.s) /\ t.issued \in Nat
  /\ \A v \in Warp : at = 0 \/ v # order[at] => t.s.warp[v].pc = warp[v].pc
  /\ at # 0 /\ MaxIssue[policy] = 1 => t.issued = 1
  /\ Outcome(order, at, t)

(* cycle is CycleOf, for some order, place and turn. *)
LEMMA CycleDoes ==
  ASSUME SchedTypes, cycle
  PROVE  \E order, at, t : CycleOf(order, at, t)
<1>1. PICK order, at, flush, s :
        /\ order = order_warps /\ at = Min0({n \in DOMAIN order : CanIssue(Now, order[n])})
        /\ flush = Flushed(at, order)
        /\ s = [Now EXCEPT !.warp = [w \in Warp |-> IF w \in flush THEN ibuffer_flush(Now, w).warp[w]
                                                    ELSE warp[w]]]
        /\ \E t \in IF at = 0 THEN {[s |-> s, issued |-> 0]} ELSE Turn(s, order[at]) :
             Outcome(order, at, t)
  BY Zenon DEF cycle, Outcome
<1>2. PICK can : can = {n \in DOMAIN order : CanIssue(Now, order[n])}
  OBVIOUS
<1>3. order \in Seq(Warp) /\ at = Min0(can)
  BY <1>1, <1>2, OrderIsList
<1>5. PICK flushed : flushed = [w \in Warp |-> IF w \in flush THEN ibuffer_flush(Now, w).warp[w] ELSE warp[w]]
  OBVIOUS
<1>6. s = [Now EXCEPT !.warp = flushed]
  BY <1>1, <1>5
<1>7. PICK t \in IF at = 0 THEN {[s |-> s, issued |-> 0]} ELSE Turn(s, order[at]) : Outcome(order, at, t)
  BY <1>1
<1>8. can \in SUBSET (Nat \ {0}) /\ can \subseteq 1 .. Len(order)
  BY <1>2, <1>3
<1>9. /\ at \in 0 .. Len(order)
      /\ \A n \in 1 .. Len(order) : CanIssue(Now, order[n]) => at # 0 /\ at <= n
      /\ at # 0 => CanIssue(Now, order[at]) /\ order[at] \in Warp
  <2>1. IF can = {} THEN at = 0 ELSE at \in can /\ \A m \in can : at <= m
    BY <1>3, <1>8, FirstOf
  <2>2. DOMAIN order = 1 .. Len(order) /\ Len(order) \in Nat
    BY <1>3
  <2>3. \A n \in 1 .. Len(order) : CanIssue(Now, order[n]) => n \in can
    BY <1>2, <2>2
  <2>4. \A n \in can : CanIssue(Now, order[n]) /\ order[n] \in Warp /\ n # 0
    BY <1>2, <1>3, <1>8
  <2>5. at \in 0 .. Len(order)
    <3>1. at = 0 \/ at \in 1 .. Len(order)
      BY <1>8, <2>1
    <3>. QED
      BY <2>2, <3>1
  <2>6. at # 0 => at \in can
    BY <2>1
  <2>7. ASSUME NEW n \in 1 .. Len(order), CanIssue(Now, order[n]) PROVE at # 0 /\ at <= n
    <3>1. n \in can
      BY <2>3, <2>7
    <3>. QED
      BY <2>1, <2>4, <3>1
  <2>. QED
    BY <2>4, <2>5, <2>6, <2>7
<1>10. /\ s = [warp |-> flushed, barrier |-> barrier, room |-> room]
       /\ Now.warp = warp /\ Now.barrier = barrier /\ Now.room = room
  BY <1>6 DEF Now
<1>11. ASSUME NEW w \in Warp
       PROVE  /\ flushed[w] \in WarpRecord /\ flushed[w].pc = warp[w].pc
              /\ flushed[w].stale => flushed[w].buffered > 0
              /\ ~warp[w].stale => flushed[w] = warp[w]
  <2>1. warp[w] \in WarpRecord /\ (warp[w].stale => warp[w].buffered > 0)
    BY <1>10 DEF SchedTypes, StateOK
  <2>2. PICK f : f = ibuffer_flush(Now, w)
    OBVIOUS
  <2>3. StateOK(f) /\ f.warp[w].pc = warp[w].pc
    BY <1>10, <2>2, FlushKeeps DEF SchedTypes
  <2>4. f.warp[w] \in WarpRecord /\ (f.warp[w].stale => f.warp[w].buffered > 0)
    BY <2>3 DEF StateOK
  <2>5. w \in flush => warp[w].stale
    BY <1>1 DEF Flushed
  <2>. QED
    BY <1>5, <2>1, <2>2, <2>3, <2>4, <2>5
<1>12. StateOK(s)
  <2>1. flushed \in [Warp -> WarpRecord]
    BY <1>5, <1>11
  <2>2. StateOK(Now)
    BY DEF SchedTypes
  <2>. QED
    BY <1>10, <1>11, <2>1, <2>2 DEF StateOK
<1>13. /\ StateOK(t.s) /\ t.issued \in Nat
       /\ \A v \in Warp : at = 0 \/ v # order[at] => t.s.warp[v].pc = warp[v].pc
       /\ at # 0 /\ MaxIssue[policy] = 1 => t.issued = 1
  <2>1. CASE at = 0
    <3>1. t = [s |-> s, issued |-> 0]
      BY <1>7, <2>1
    <3>2. t.s = s /\ t.issued = 0
      BY <3>1
    <3>. QED
      BY <1>10, <1>11, <1>12, <2>1, <3>2
  <2>2. CASE at # 0
    <3>1. PICK w \in Warp : w = order[at] /\ CanIssue(Now, w)
      BY <1>9, <2>2
    <3>2. t \in Turn(s, w)
      BY <1>7, <2>2, <3>1
    <3>3. flushed[w] = warp[w]
      BY <1>10, <1>11, <3>1 DEF CanIssue
    <3>4. CanIssue(s, w)
      <4>1. /\ s.warp[w] = Now.warp[w] /\ s.barrier = Now.barrier /\ s.room = Now.room
            /\ s.warp[w].pc = Now.warp[w].pc
        BY <1>10, <3>3
      <4>2. NextInst(s, w) = NextInst(Now, w)
        BY <4>1 DEF NextInst
      <4>3. PipeFor(s, w) = PipeFor(Now, w)
        BY <4>1, <4>2 DEF PipeFor
      <4>. QED
        BY <3>1, <4>1, <4>2, <4>3 DEF CanIssue, Tested, Collides
    <3>5. Plans /\ policy \in Policies
      BY PlansHold DEF SchedTypes
    <3>6. TurnOK(t, s, w) /\ (MaxIssue[policy] = 1 => t.issued = 1)
      BY <1>12, <3>2, <3>4, <3>5, TurnKeeps
    <3>7. \A v \in Warp : v # w => t.s.warp[v].pc = warp[v].pc
      BY <1>10, <1>11, <3>6 DEF TurnOK
    <3>. QED
      BY <2>2, <3>1, <3>6, <3>7 DEF TurnOK
  <2>. QED
    BY <2>1, <2>2
<1>14. CycleOf(order, at, t)
  BY <1>1, <1>3, <1>7, <1>9, <1>13 DEF CycleOf
<1>. QED
  BY <1>14

-----------------------------------------------------------------------------
(* The warps are shared out between the levels, whatever the policy.       *)

(* The schedulers begin with their types. *)
LEMMA InitTypes ==
  ASSUME Init
  PROVE  SchedTypes
<1>1. Plans
  BY PlansHold DEF Init
<1>2. StateOK(Now)
  <2>1. Now = [warp |-> warp, barrier |-> barrier, room |-> room]
    BY DEF Now
  <2>2. \A w \in Warp : Len(prog[w]) \in Nat
    BY <1>1 DEF Plans
  <2>3. warp \in [Warp -> WarpRecord]
    BY DEF Init, WarpRecord
  <2>4. room \in [Pipe -> 0 .. Width]
    BY SchedulerAssumption DEF Init
  <2>5. \A w \in Warp : warp[w].pc = 1 /\ ~warp[w].stale
    BY DEF Init
  <2>6. barrier = {}
    BY DEF Init
  <2>. QED
    BY <2>1, <2>2, <2>3, <2>4, <2>5, <2>6 DEF StateOK
<1>3. last \in 0 .. NumWarps /\ (policy \in {"gto", "swl"} => last \in Warp)
  BY WarpsFinite DEF Init, done_adding_supervised_warps, Warp
<1>4. LevelTypes
  <2>1. MaxActive \in Nat /\ NumWarps \in Nat /\ MaxActive <= NumWarps
    BY SchedulerAssumption
  <2>2. active = [n \in 1 .. MaxActive |-> n] /\ pending = [n \in 1 .. NumWarps - MaxActive |-> MaxActive + n]
    BY DEF Init, ActiveAtFirst, PendingAtFirst
  <2>3. active \in Seq(Warp) /\ Len(active) = MaxActive /\ DOMAIN active = 1 .. MaxActive
    BY <2>1, <2>2 DEF Warp
  <2>4. /\ pending \in Seq(Warp) /\ Len(pending) = NumWarps - MaxActive
        /\ DOMAIN pending = 1 .. NumWarps - MaxActive
    BY <2>1, <2>2 DEF Warp
  <2>5. ASSUME NEW w \in Warp PROVE w \in Range(active) \/ w \in Range(pending)
    <3>1. CASE w <= MaxActive
      <4>1. w \in DOMAIN active /\ active[w] = w
        BY <2>1, <2>2, <2>3, <3>1 DEF Warp
      <4>. QED
        BY <4>1 DEF Range
    <3>2. CASE ~(w <= MaxActive)
      <4>1. w - MaxActive \in DOMAIN pending /\ pending[w - MaxActive] = w
        BY <2>1, <2>2, <2>4, <3>2 DEF Warp
      <4>. QED
        BY <4>1 DEF Range
    <3>. QED
      BY <3>1, <3>2
  <2>6. Range(active) \subseteq Warp /\ Range(pending) \subseteq Warp
    BY <2>3, <2>4 DEF Range
  <2>7. Len(active) + Len(pending) = NumWarps
    BY <2>1, <2>3, <2>4
  <2>. QED
    BY <2>3, <2>4, <2>5, <2>6, <2>7 DEF LevelTypes, LevelsPartition
<1>. QED
  BY <1>2, <1>3, <1>4 DEF Init, SchedTypes

(* A warp's record alone changes, and stays one. *)
LEMMA OneRecord ==
  ASSUME SchedTypes, NEW w \in Warp, NEW rec \in WarpRecord,
         rec.pc = warp[w].pc, rec.stale => rec.buffered > 0,
         warp' = [warp EXCEPT ![w] = rec],
         UNCHANGED <<policy, prog, age, barrier, room, last, active, pending, over>>
  PROVE  SchedTypes'
<1>1. /\ warp \in [Warp -> WarpRecord] /\ barrier \subseteq {v \in Warp : warp[v].pc <= Len(prog[v])}
      /\ room \in [Pipe -> 0 .. Width]
      /\ \A v \in Warp : /\ warp[v].pc \in 1 .. Len(prog[v]) + 1
                         /\ warp[v].stale => warp[v].buffered > 0
  BY DEF SchedTypes, StateOK, Now
<1>2. warp' \in [Warp -> WarpRecord] /\ warp'[w] = rec /\ \A v \in Warp \ {w} : warp'[v] = warp[v]
  BY <1>1
<1>3. \A v \in Warp : /\ warp'[v].pc = warp[v].pc
                      /\ warp'[v].stale => warp'[v].buffered > 0
  BY <1>1, <1>2
<1>4. StateOK(Now)'
  BY <1>1, <1>2, <1>3 DEF StateOK, Now
<1>5. LevelTypes'
  BY DEF SchedTypes, LevelTypes, LevelsPartition
<1>. QED
  BY <1>4, <1>5 DEF SchedTypes

(* A cycle keeps the types: where the levels are shared out, no warp is lost. *)
LEMMA CycleTypes ==
  ASSUME SchedTypes, cycle
  PROVE  SchedTypes'
<1>1. PICK order, at, t : CycleOf(order, at, t)
  BY CycleDoes
<1>2. at # 0 => order[at] \in Warp
  BY <1>1 DEF CycleOf
<1>3. StateOK(Now)'
  BY <1>1 DEF CycleOf, Outcome, StateOK, Now
<1>4. last' \in 0 .. NumWarps /\ (policy \in {"gto", "swl"} => last' \in Warp)
  BY <1>1, <1>2, WarpsFinite DEF CycleOf, Outcome, SchedTypes, Warp
<1>5. over' \in [Warp -> SUBSET Warp]
  <2>1. at # 0 => Passed(order[at], order) \in [Warp -> SUBSET Warp]
    BY <1>2 DEF Passed, SchedTypes
  <2>. QED
    BY <1>1, <2>1 DEF CycleOf, Outcome
<1>6. LevelTypes'
  <2>1. CASE policy # "two_level"
    BY <1>1, <2>1 DEF CycleOf, Outcome, SchedTypes, LevelTypes, LevelsPartition
  <2>2. CASE policy = "two_level"
    <3>1. PICK pend : pend = Levels.pending
      OBVIOUS
    <3>2. /\ order \in Seq(Warp) /\ pend \in Seq(Warp)
          /\ Len(order) = MaxActive /\ MaxActive + Len(pend) = NumWarps
          /\ Range(order) \union Range(pend) = Warp
      BY <1>1, <2>2, <3>1, LevelsShare DEF CycleOf, order_warps, SchedTypes
    <3>3. pending' = pend
      BY <1>1, <2>2, <3>1 DEF CycleOf, Outcome
    <3>4. active' \in Seq(Warp) /\ Len(active') = MaxActive /\ Range(order) \subseteq Range(active')
      <4>1. CASE at = 0
        BY <1>1, <2>2, <3>2, <4>1 DEF CycleOf, Outcome
      <4>2. CASE at # 0
        <5>1. PICK k \in Nat : k = t.issued * at
          BY <1>1 DEF CycleOf
        <5>2. active' = order_lrr(order, k)
          BY <1>1, <2>2, <4>2, <5>1 DEF CycleOf, Outcome, Rotated
        <5>3. order # <<>>
          BY <3>2, SchedulerAssumption
        <5>4. /\ active' \in Seq(Warp) /\ Len(active') = MaxActive
              /\ \A n \in 1 .. MaxActive : \E m \in 1 .. MaxActive : active'[m] = order[n]
          BY <3>2, <5>2, <5>3, RotationKeeps
        <5>5. DOMAIN order = 1 .. MaxActive /\ DOMAIN active' = 1 .. MaxActive
          BY <3>2, <5>4
        <5>. QED
          BY <5>4, <5>5 DEF Range
      <4>. QED
        BY <4>1, <4>2
    <3>5. Range(active') \subseteq Warp
      BY <3>4 DEF Range
    <3>. QED
      BY <3>2, <3>3, <3>4, <3>5 DEF LevelTypes, LevelsPartition
  <2>. QED
    BY <2>1, <2>2
<1>7. policy' = policy /\ prog' = prog /\ age' = age
  BY <1>1 DEF CycleOf, Outcome
<1>. QED
  BY <1>3, <1>4, <1>5, <1>6, <1>7 DEF SchedTypes

(* So does every step: decode and the write back change one record. *)
LEMMA NextTypes ==
  ASSUME SchedTypes, [Next]_vars
  PROVE  SchedTypes'
<1>0. \A w \in Warp : warp[w] \in WarpRecord
  BY DEF SchedTypes, StateOK, Now
<1>1. CASE cycle
  BY <1>1, CycleTypes
<1>2. ASSUME NEW w \in Warp, Decode(w) PROVE SchedTypes'
  <2>1. PICK n \in 1 .. 2 : warp' = [warp EXCEPT ![w].buffered = n]
    BY <1>2 DEF Decode
  <2>2. PICK rec : rec = [warp[w] EXCEPT !.buffered = n]
    OBVIOUS
  <2>3. rec \in WarpRecord /\ rec.pc = warp[w].pc /\ rec.buffered > 0
    BY <1>0, <2>2 DEF WarpRecord
  <2>4. warp' = [warp EXCEPT ![w] = rec]
    BY <2>1, <2>2 DEF SchedTypes, StateOK, Now
  <2>. QED
    BY <1>2, <2>3, <2>4, OneRecord DEF Decode
<1>3. ASSUME NEW w \in Warp, Result(w) PROVE SchedTypes'
  <2>1. PICK rec : rec = [warp[w] EXCEPT !.result = "none"]
    OBVIOUS
  <2>2. rec \in WarpRecord /\ rec.pc = warp[w].pc /\ (rec.stale => rec.buffered > 0)
    <3>1. warp[w].stale => warp[w].buffered > 0
      BY DEF SchedTypes, StateOK, Now
    <3>. QED
      BY <1>0, <2>1, <3>1 DEF WarpRecord
  <2>3. warp' = [warp EXCEPT ![w] = rec]
    BY <1>3, <2>1 DEF Result, SchedTypes, StateOK, Now
  <2>. QED
    BY <1>3, <2>2, <2>3, OneRecord DEF Result
<1>4. ASSUME NEW p \in Pipe, Take(p) PROVE SchedTypes'
  <2>1. room' \in [Pipe -> 0 .. Width]
    <3>1. room \in [Pipe -> 0 .. Width] /\ room[p] < Width
      BY <1>4 DEF Take, SchedTypes, StateOK, Now
    <3>. QED
      BY <1>4, <3>1, SchedulerAssumption DEF Take
  <2>2. StateOK(Now)'
    BY <1>4, <2>1 DEF Take, SchedTypes, StateOK, Now
  <2>3. LevelTypes'
    BY <1>4 DEF Take, SchedTypes, LevelTypes, LevelsPartition
  <2>. QED
    BY <1>4, <2>2, <2>3 DEF Take, SchedTypes
<1>5. CASE UNCHANGED vars
  <2>1. StateOK(Now)'
    BY <1>5 DEF vars, SchedTypes, StateOK, Now
  <2>2. LevelTypes'
    BY <1>5 DEF vars, SchedTypes, LevelTypes, LevelsPartition
  <2>. QED
    BY <1>5, <2>1, <2>2 DEF vars, SchedTypes
<1>. QED
  BY <1>1, <1>2, <1>3, <1>4, <1>5 DEF Next

(* LevelsHold is what the types say. *)
LEMMA TypesGiveLevels ==
  ASSUME SchedTypes
  PROVE  LevelsHold
<1>1. \A w \in Warp : /\ warp[w].pc \in 1 .. Len(prog[w]) + 1
                      /\ warp[w].buffered \in 0 .. 2
                      /\ warp[w].result \in {"none", "short", "long"}
                      /\ warp[w].stale => warp[w].buffered > 0
  BY DEF SchedTypes, StateOK, Now, WarpRecord
<1>2. barrier \subseteq Live
  BY DEF SchedTypes, StateOK, Now, Live, Done
<1>3. room \in [Pipe -> 0 .. Width]
  BY DEF SchedTypes, StateOK, Now
<1>. QED
  BY <1>1, <1>2, <1>3 DEF LevelsHold, TypeOK, SchedTypes, LevelTypes

(* Under every policy and for any number of warps: the active level is     *)
(* full and no warp is lost when levels are shared out anew; what a turn   *)
(* of several instructions does to a warp, the barrier and the register    *)
(* sets keeps their types.                                                 *)
THEOREM LevelsAlwaysHold == Spec => []LevelsHold
<1>1. Init => SchedTypes
  BY InitTypes
<1>2. SchedTypes /\ [Next]_vars => SchedTypes'
  BY NextTypes
<1>3. SchedTypes => LevelsHold
  BY TypesGiveLevels
<1>. QED
  BY <1>1, <1>2, <1>3, PTL DEF Spec

-----------------------------------------------------------------------------
(* The promises of the orders.                                             *)

(* Who can issue is not waiting. *)
LEMMA CanIssueRuns ==
  ASSUME SchedTypes, NEW w \in Warp, CanIssue(Now, w)
  PROVE  ~waiting(w) /\ ~Demoted(w)
BY DEF CanIssue, Tested, Collides, Demoted, waiting, Done, Now, SchedTypes, StateOK

(* Who issues is the one that the cycle has chosen. *)
LEMMA IssuerIsChosen ==
  ASSUME SchedTypes, [Next]_vars, NEW w \in Warp, Issued(w)
  PROVE  \E order, at, t : CycleOf(order, at, t) /\ at # 0 /\ order[at] = w
<1>0. warp \in [Warp -> WarpRecord]
  BY DEF SchedTypes, StateOK, Now
<1>1. CASE cycle
  <2>1. PICK order, at, t : CycleOf(order, at, t)
    BY <1>1, CycleDoes
  <2>2. warp'[w].pc # warp[w].pc
    BY DEF Issued
  <2>3. at # 0 /\ order[at] = w
    BY <2>1, <2>2 DEF CycleOf, Outcome
  <2>. QED
    BY <2>1, <2>3
<1>2. ASSUME NEW v \in Warp, Decode(v) PROVE FALSE
  BY <1>0, <1>2 DEF Decode, Issued, WarpRecord
<1>3. ASSUME NEW v \in Warp, Result(v) PROVE FALSE
  BY <1>0, <1>3 DEF Result, Issued, WarpRecord
<1>4. ASSUME NEW p \in Pipe, Take(p) PROVE FALSE
  BY <1>4 DEF Take, Issued
<1>5. CASE UNCHANGED vars
  BY <1>5 DEF vars, Issued
<1>. QED
  BY <1>1, <1>2, <1>3, <1>4, <1>5 DEF Next

(* A step of gto issues from the greedy warp, or the oldest that can. *)
LEMMA GreedyStep ==
  ASSUME SchedTypes, [Next]_vars, policy = "gto", NEW w \in Warp, Issued(w)
  PROVE  \/ w = last
         \/ ~CanIssue(Now, last) /\ \A v \in Warp : CanIssue(Now, v) => age[w] <= age[v]
<1>1. PICK order, at, t : CycleOf(order, at, t) /\ at # 0 /\ order[at] = w
  BY IssuerIsChosen
<1>2. PICK S \in SUBSET Warp : S = Warp \ {last} /\ order = <<last>> \o Sorted(S)
  <2>1. ASSUME NEW v \in Warp PROVE v \in Oldest(NumWarps)
    <3>1. PICK before : before = {u \in Warp : Older(u, v)}
      OBVIOUS
    <3>2. age[v] \in Nat
      BY SchedulerAssumption DEF SchedTypes
    <3>3. v \notin before
      BY <3>1, <3>2 DEF Older
    <3>4. before \in SUBSET Warp /\ before # Warp
      BY <3>1, <3>3
    <3>5. IsFiniteSet(before) /\ Cardinality(before) <= NumWarps /\ Cardinality(before) # NumWarps
      BY <3>4, WarpsFinite, FS_Subset
    <3>6. Cardinality(before) < NumWarps
      BY <3>5, WarpsFinite, FS_CardinalityType
    <3>. QED
      BY <3>1, <3>6 DEF Oldest
  <2>2. Oldest(NumWarps) = Warp
    BY <2>1 DEF Oldest
  <2>. QED
    BY <1>1, <2>2 DEF CycleOf, order_warps, gto_order, order_by_priority
<1>3. last \in Warp /\ age \in Ages /\ age \in [Warp -> Nat]
  BY SchedulerAssumption DEF SchedTypes
<1>4. PICK k \in Nat : /\ k = Cardinality(S) /\ Len(order) = k + 1 /\ order[1] = last
                       /\ \A v \in S : \E n \in 2 .. k + 1 : order[n] = v
                       /\ \A m, n \in 2 .. k + 1 : m < n => Older(order[m], order[n])
  <2>1. /\ Len(order) = Cardinality(S) + 1 /\ Cardinality(S) \in Nat /\ order[1] = last
        /\ \A v \in S : \E n \in 2 .. Cardinality(S) + 1 : order[n] = v
        /\ \A m, n \in 2 .. Cardinality(S) + 1 : m < n => Older(order[m], order[n])
    <3>1. order = <<last>> \o Sorted(S)
      BY <1>2
    <3>. QED
      BY <1>3, <3>1, SortedLists
  <2>. QED
    BY <2>1
<1>5. /\ at \in 1 .. k + 1
      /\ \A n \in 1 .. k + 1 : CanIssue(Now, order[n]) => at <= n
      /\ CanIssue(Now, w)
  BY <1>1, <1>4 DEF CycleOf
<1>6. CASE at = 1
  BY <1>1, <1>4, <1>6
<1>7. CASE at # 1
  <2>1. ~CanIssue(Now, last)
    <3>1. 1 \in 1 .. k + 1 /\ ~(at <= 1)
      BY <1>5, <1>7
    <3>. QED
      BY <1>4, <1>5, <3>1
  <2>2. ASSUME NEW v \in Warp, CanIssue(Now, v) PROVE age[w] <= age[v]
    <3>1. v \in S
      BY <1>2, <2>1, <2>2
    <3>2. PICK n \in 2 .. k + 1 : order[n] = v
      BY <1>4, <3>1
    <3>3. at <= n /\ at \in 2 .. k + 1
      BY <1>5, <1>7, <2>2, <3>2
    <3>4. CASE at = n
      BY <1>1, <1>3, <3>2, <3>4
    <3>5. CASE at < n
      <4>1. Older(w, v)
        BY <1>1, <1>4, <3>2, <3>3, <3>5
      <4>2. ~waiting(v) /\ ~waiting(w)
        BY <1>5, <2>2, CanIssueRuns
      <4>3. age[w] < age[v]
        BY <4>1, <4>2 DEF Older
      <4>. QED
        BY <1>3, <4>3
    <3>. QED
      BY <3>3, <3>4, <3>5
  <2>. QED
    BY <2>1, <2>2
<1>. QED
  BY <1>6, <1>7

(* Greedy then oldest never leaves the warp it is at while that can issue, *)
(* and then goes to the oldest that can.                                   *)
THEOREM GreedyThenOldestHolds == Spec => GreedyThenOldest
<1>1. SchedTypes /\ [Next]_vars =>
        [policy = "gto" => \A w \in Warp : Issued(w) =>
           \/ w = last
           \/ ~CanIssue(Now, last) /\ \A v \in Warp : CanIssue(Now, v) => age[w] <= age[v]]_vars
  BY GreedyStep
<1>2. Init => SchedTypes
  BY InitTypes
<1>3. SchedTypes /\ [Next]_vars => SchedTypes'
  BY NextTypes
<1>. QED
  BY <1>1, <1>2, <1>3, PTL DEF Spec, GreedyThenOldest

(* The list that a round goes through, and the warps it has passed over:   *)
(* whoever was issued in place of a warp comes after it.                   *)
Line == IF policy = "lrr" THEN lrr_order ELSE active

OverInv ==
  \A v, w \in Warp : w \in over[v] => policy \in {"lrr", "two_level"} /\ Before(Line, v, w)

OnePerTurn == "two_level" \in Policies => MaxIssue["two_level"] = 1

(* The place that is n on from the place k, going round. *)
Place(N, k, n) == IF k + n <= N THEN k + n ELSE k + n - N

(* A place on the round is a place. *)
LEMMA TurnedPlace ==
  ASSUME NEW N \in Nat \ {0}, NEW k \in 0 .. N, NEW n \in 1 .. N
  PROVE  Place(N, k, n) \in 1 .. N
BY DEF Place

(* The element of a turned list at a place. *)
LEMMA TurnedElement ==
  ASSUME NEW N \in Nat \ {0}, NEW list, DOMAIN list = 1 .. N, Len(list) = N,
         NEW k \in 0 .. N, NEW n \in 1 .. N
  PROVE  order_lrr(list, k)[n] = list[Place(N, k, n)]
<1>1. PICK x \in 0 .. 2 * N - 1 : x = k + n - 1
  OBVIOUS
<1>2. x % N = IF x < N THEN x ELSE x - N
  BY ModOnce
<1>3. (x % N) + 1 = Place(N, k, n)
  BY <1>1, <1>2 DEF Place
<1>4. order_lrr(list, k)[n] = list[(x % N) + 1]
  BY <1>1 DEF order_lrr
<1>. QED
  BY <1>3, <1>4

(* Two places as far on from k are one. *)
LEMMA PlaceOnce ==
  ASSUME NEW N \in Nat \ {0}, NEW k \in 0 .. N, NEW m \in 1 .. N, NEW n \in 1 .. N,
         Place(N, k, m) = Place(N, k, n)
  PROVE  m = n
BY DEF Place

(* The place that is i on from at, where the place e is at on from f. *)
LEMMA PlacesAdd ==
  ASSUME NEW N \in Nat \ {0}, NEW f \in 0 .. N, NEW at \in 1 .. N, NEW n \in 1 .. N,
         NEW i \in 1 .. N, i = Place(N, at, n),
         NEW e \in 1 .. N, e = Place(N, f, at)
  PROVE  Place(N, f, i) = Place(N, e, n)
<1>1. i = at + n \/ i = at + n - N
  BY DEF Place
<1>2. e = f + at \/ e = f + at - N
  BY DEF Place
<1>. QED
  BY <1>1, <1>2 DEF Place

(* The round of lrr begins anew after the warp that was issued: it is the  *)
(* old round, turned.                                                      *)
LEMMA CountTurns ==
  ASSUME NEW N \in Nat \ {0}, NEW from \in 0 .. N, NEW at \in 1 .. N,
         NEW list, DOMAIN list = 1 .. N, Len(list) = N, \A n \in 1 .. N : list[n] = n,
         NEW round, DOMAIN round = 1 .. N, Len(round) = N,
         \A n \in 1 .. N : round[n] = Place(N, from, n)
  PROVE  /\ IsInjective(round)
         /\ order_lrr(list, round[at]) = order_lrr(round, at)
<1>1. IsInjective(round)
  <2>1. ASSUME NEW m \in 1 .. N, NEW n \in 1 .. N, round[m] = round[n] PROVE m = n
    <3>1. /\ round[m] = Place(N, from, m)
          /\ round[n] = Place(N, from, n)
      OBVIOUS
    <3>2. Place(N, from, m) = Place(N, from, n)
      BY <2>1, <3>1
    <3>. QED
      BY <3>2, PlaceOnce
  <2>. QED
    BY <2>1 DEF IsInjective
<1>2. PICK e \in 1 .. N : e = round[at]
  <2>1. Place(N, from, at) \in 1 .. N
    BY TurnedPlace
  <2>. QED
    BY <2>1
<1>3. ASSUME NEW n \in 1 .. N PROVE order_lrr(list, e)[n] = order_lrr(round, at)[n]
  <2>0. at \in 0 .. N /\ e \in 0 .. N
    OBVIOUS
  <2>1. PICK i \in 1 .. N : i = Place(N, at, n)
    BY <2>0, TurnedPlace
  <2>2. order_lrr(round, at)[n] = round[i]
    BY <2>0, <2>1, TurnedElement
  <2>3. PICK j \in 1 .. N : j = Place(N, e, n)
    BY <2>0, TurnedPlace
  <2>4. order_lrr(list, e)[n] = list[j]
    BY <2>0, <2>3, TurnedElement
  <2>5. list[j] = j
    OBVIOUS
  <2>6. round[i] = j
    <3>1. round[i] = Place(N, from, i)
      OBVIOUS
    <3>2. e = Place(N, from, at)
      BY <1>2
    <3>3. Place(N, from, i)
            = Place(N, e, n)
      BY <2>1, <3>2, PlacesAdd
    <3>. QED
      BY <2>3, <3>1, <3>3
  <2>. QED
    BY <2>2, <2>4, <2>5, <2>6
<1>4. order_lrr(list, e) = order_lrr(round, at)
  BY <1>3 DEF order_lrr
<1>. QED
  BY <1>1, <1>2, <1>4

(* The same, of the list of all warps. *)
LEMMA RoundTurns ==
  ASSUME NEW from \in 0 .. NumWarps, NEW list, list = [w \in Warp |-> w],
         NEW round, round = order_lrr(list, from), NEW at \in 1 .. NumWarps
  PROVE  /\ round \in Seq(Warp) /\ Len(round) = NumWarps /\ IsInjective(round)
         /\ \A w \in Warp : \E n \in 1 .. NumWarps : round[n] = w
         /\ order_lrr(list, round[at]) = order_lrr(round, at)
<1>1. PICK N \in Nat \ {0} : N = NumWarps /\ Warp = 1 .. N
  BY WarpsFinite DEF Warp
<1>2. PICK f, t \in 0 .. N : f = from /\ t = at /\ t # 0
  BY <1>1
<1>3. PICK line : line = list
  OBVIOUS
<1>4. /\ line \in Seq(Warp) /\ line # <<>> /\ Len(line) = N /\ DOMAIN line = 1 .. N
      /\ \A n \in 1 .. N : line[n] = n
  BY <1>1, <1>3
<1>5. PICK turned : turned = order_lrr(line, f)
  OBVIOUS
<1>6. /\ turned \in Seq(Warp) /\ Len(turned) = N
      /\ \A n \in 1 .. N : \E m \in 1 .. N : turned[m] = line[n]
  <2>1. f \in Nat
    BY <1>1
  <2>2. /\ order_lrr(line, f) \in Seq(Warp)
        /\ Len(order_lrr(line, f)) = Len(line)
        /\ \A n \in 1 .. Len(line) : \E m \in 1 .. Len(line) : order_lrr(line, f)[m] = line[n]
    BY <1>4, <2>1, RotationKeeps
  <2>. QED
    BY <1>4, <1>5, <2>2
<1>7. ASSUME NEW n \in 1 .. N PROVE turned[n] = Place(N, f, n)
  <2>1. turned[n] = line[Place(N, f, n)]
    BY <1>4, <1>5, TurnedElement
  <2>2. Place(N, f, n) \in 1 .. N
    BY TurnedPlace
  <2>. QED
    BY <1>4, <2>1, <2>2
<1>8. PICK again : again = turned
  OBVIOUS
<1>10. /\ DOMAIN again = 1 .. N /\ Len(again) = N /\ t \in 1 .. N
       /\ \A n \in 1 .. N : again[n] = Place(N, f, n)
  BY <1>2, <1>6, <1>7, <1>8
<1>9. IsInjective(turned) /\ order_lrr(line, turned[t]) = order_lrr(turned, t)
  <2>1. IsInjective(again) /\ order_lrr(line, again[t]) = order_lrr(again, t)
    BY <1>4, <1>10, CountTurns
  <2>. QED
    BY <1>8, <2>1
<1>11. round = turned /\ at = t
  BY <1>2, <1>3, <1>5
<1>12. turned \in Seq(Warp) /\ Len(turned) = NumWarps /\ IsInjective(turned)
  BY <1>1, <1>6, <1>9
<1>13. ASSUME NEW w \in Warp PROVE \E n \in 1 .. NumWarps : turned[n] = w
  BY <1>1, <1>4, <1>6
<1>14. order_lrr(list, turned[t]) = order_lrr(turned, t)
  BY <1>3, <1>9
<1>. QED
  BY <1>11, <1>12, <1>13, <1>14

(* Where the two orders that go round are after a cycle that issued. *)
LEMMA LineTurns ==
  ASSUME SchedTypes, OnePerTurn, policy \in {"lrr", "two_level"},
         NEW order, NEW at, NEW t, CycleOf(order, at, t), at # 0
  PROVE  IsInjective(order) /\ Line' = order_lrr(order, at)
<1>1. CASE policy = "lrr"
  <2>1. PICK list : list = [w \in Warp |-> w]
    OBVIOUS
  <2>2. order = order_lrr(list, last) /\ last \in 0 .. NumWarps
    BY <1>1, <2>1 DEF CycleOf, order_warps, lrr_order, SchedTypes
  <2>3. Len(order) = NumWarps
    BY <2>1, <2>2, WarpsFinite, RoundTurns, 1 \in 1 .. NumWarps
  <2>4. at \in 1 .. NumWarps
    BY <2>3 DEF CycleOf
  <2>5. IsInjective(order) /\ order_lrr(list, order[at]) = order_lrr(order, at)
    BY <2>1, <2>2, <2>4, RoundTurns
  <2>6. last' = order[at] /\ policy' = policy
    BY <1>1 DEF CycleOf, Outcome
  <2>7. Line' = order_lrr(list, last')
    BY <1>1, <2>1, <2>6 DEF Line, lrr_order, order_lrr
  <2>. QED
    BY <2>5, <2>6, <2>7
<1>2. CASE policy = "two_level"
  <2>1. order = Levels.active
    BY <1>2 DEF CycleOf, order_warps
  <2>2. IsInjective(order)
    BY <2>1, LevelsShare DEF SchedTypes
  <2>3. t.issued = 1 /\ at \in Nat
    BY <1>2 DEF CycleOf, OnePerTurn, SchedTypes
  <2>4. active' = order_lrr(order, 1 * at) /\ policy' = policy
    BY <1>2, <2>3 DEF CycleOf, Outcome, Rotated
  <2>5. 1 * at = at
    BY <2>3
  <2>. QED
    BY <1>2, <2>2, <2>4, <2>5 DEF Line
<1>. QED
  BY <1>1, <1>2

(* A warp that can issue does not lose its place before the others when    *)
(* the levels are shared out anew.                                         *)
LEMMA PlaceKept ==
  ASSUME SchedTypes, policy \in {"lrr", "two_level"}, NEW order, order = order_warps,
         NEW v \in Warp, NEW w \in Warp, CanIssue(Now, v), Before(Line, v, w)
  PROVE  Before(order, v, w)
<1>1. CASE policy = "lrr"
  BY <1>1 DEF order_warps, Line
<1>2. CASE policy = "two_level"
  BY <1>2, CanIssueRuns, LevelsShare DEF order_warps, Line, SchedTypes
<1>. QED
  BY <1>1, <1>2

(* A cycle keeps the passed-over warps behind those that passed them. *)
LEMMA CycleKeepsOver ==
  ASSUME SchedTypes, OverInv, OnePerTurn, cycle
  PROVE  OverInv'
<1>1. PICK order, at, t : CycleOf(order, at, t)
  BY CycleDoes
<1>2. policy' = policy
  BY <1>1 DEF CycleOf, Outcome
<1>3. CASE at = 0 \/ policy \in {"gto", "swl"}
  <2>1. over' = [v \in Warp |-> {}]
    BY <1>1, <1>3 DEF CycleOf, Outcome
  <2>. QED
    BY <2>1 DEF OverInv
<1>4. CASE at # 0 /\ policy \in {"lrr", "two_level"}
  <2>1. /\ IsInjective(order) /\ Line' = order_lrr(order, at)
        /\ order \in Seq(Warp) /\ at \in 1 .. Len(order)
    BY <1>1, <1>4, LineTurns DEF CycleOf
  <2>2. over' = Passed(order[at], order)
    BY <1>1, <1>4 DEF CycleOf, Outcome
  <2>3. SUFFICES ASSUME NEW v \in Warp, NEW w \in Warp, w \in over'[v]
                 PROVE  Before(order_lrr(order, at), v, w)
    BY <1>2, <1>4, <2>1 DEF OverInv
  <2>4. /\ v \in Range(order) /\ v # order[at] /\ CanIssue(Now, v)
        /\ w \in over[v] \/ w = order[at]
    BY <2>2, <2>3 DEF Passed
  <2>5. PICK p \in 1 .. Len(order) : order[p] = v
    BY <2>1, <2>4 DEF Range
  <2>6. at < p
    BY <1>1, <2>1, <2>4, <2>5 DEF CycleOf
  <2>7. Before(order, order[p], w) \/ w = order[at]
    BY <1>1, <1>4, <2>4, <2>5, PlaceKept DEF OverInv, CycleOf
  <2>8. Before(order_lrr(order, at), order[p], w)
    BY <2>1, <2>5, <2>6, <2>7, RotationOrders
  <2>. QED
    BY <2>5, <2>8
<1>. QED
  BY <1>3, <1>4, SchedulerAssumption DEF SchedTypes

(* So does every step. *)
LEMMA NextKeepsOver ==
  ASSUME SchedTypes, OverInv, OnePerTurn, [Next]_vars
  PROVE  OverInv'
<1>1. CASE cycle
  BY <1>1, CycleKeepsOver
<1>2. CASE UNCHANGED <<policy, last, active, over>>
  BY <1>2 DEF OverInv, Line, lrr_order
<1>. QED
  BY <1>1, <1>2 DEF Next, Decode, Result, Take, vars

(* A step of a round never issues from a warp that has passed over one that waits. *)
LEMMA RoundStep ==
  ASSUME SchedTypes, OverInv, [Next]_vars, NEW v \in Warp, NEW w \in Warp,
         v # w, CanIssue(Now, v), Issued(w)
  PROVE  w \notin over[v]
<1> SUFFICES ASSUME w \in over[v] PROVE FALSE
  OBVIOUS
<1>1. PICK order, at, t : CycleOf(order, at, t) /\ at # 0 /\ order[at] = w
  BY IssuerIsChosen
<1>2. Before(order, v, w)
  BY <1>1, PlaceKept DEF OverInv, CycleOf
<1>3. PICK m \in DOMAIN order : order[m] = v /\ \A n \in DOMAIN order : order[n] = w => m < n
  BY <1>2 DEF Before
<1>4. DOMAIN order = 1 .. Len(order) /\ at \in 1 .. Len(order)
  BY <1>1 DEF CycleOf
<1>5. m < at
  BY <1>1, <1>3, <1>4
<1>6. at <= m
  BY <1>1, <1>3, <1>4 DEF CycleOf
<1>. QED
  BY <1>4, <1>5, <1>6

(* While a warp can issue, nobody is issued twice before it: loose round   *)
(* robin, and the warps of the active level, if a turn of two levels is of *)
(* one instruction (after two, the level is turned past other warps).      *)
THEOREM RoundRobinHolds == OnePerTurn => (Spec => RoundRobin)
<1> SUFFICES ASSUME OnePerTurn PROVE Spec => RoundRobin
  OBVIOUS
<1>1. Init => SchedTypes /\ OverInv
  BY InitTypes DEF Init, OverInv
<1>2. SchedTypes /\ OverInv /\ [Next]_vars => (SchedTypes /\ OverInv)'
  BY NextTypes, NextKeepsOver
<1>3. SchedTypes /\ OverInv /\ [Next]_vars =>
        [\A v, w \in Warp : v # w /\ CanIssue(Now, v) /\ Issued(w) => w \notin over[v]]_vars
  BY RoundStep
<1>. QED
  BY <1>1, <1>2, <1>3, PTL DEF Spec, RoundRobin

-----------------------------------------------------------------------------
(* The barriers.                                                           *)

(* Every barrier instruction waits.  With ARRIVE a warp is counted where   *)
(* it does not wait, and two barriers that hand over to each other let a   *)
(* warp through too soon: the run that expects a violation shows it.       *)
NoArrive == \A p \in Codes, w \in Wid : \A n \in DOMAIN p[w] : p[w][n].type # "ARRIVE"

(* How many of the first k instructions of s are for barrier b.            *)
Times(s, k, b) == Cardinality({n \in 1 .. k : s[n].bar = b})

(* The warps counted at a barrier are those that wait at it.               *)
CountedWait(h, m, s, i) ==
  /\ h \subseteq Wid /\ \A w \in h : i[w] > 1
  /\ \A w \in Wid, b \in Bar : w \in m[b] <=> w \in h /\ s[w][i[w] - 1].bar = b

(* How often warp w is through barrier b.                                  *)
Through(h, s, i, w, b) ==
  Times(s[w], i[w] - 1, b) - (IF w \in h /\ s[w][i[w] - 1].bar = b THEN 1 ELSE 0)

(* No warp of the CTA is through it more often than one that is not done.  *)
EvenAt(W, g, h, s, i, b) ==
  \A v, w \in W : v \in g => Through(h, s, i, w, b) <= Through(h, s, i, v, b)

EqualAtAll == \A c \in cta : \A b \in Bar : ForAll(c, b) => EvenAt(WarpsOf[c], alive, atBarrier, code, pc, b)

CodesWait == \A w \in Wid : \A n \in 1 .. Len(code[w]) : code[w][n].type # "ARRIVE"

BarInv ==
  /\ BarTypeOK /\ pc \in [Wid -> Nat]
  /\ CodesWait
  /\ CountedWait(atBarrier, atBar, code, pc)
  /\ EqualAtAll

(* One slot per warp. *)
LEMMA OwnCta ==
  ASSUME NEW w \in Wid, NEW c \in Cta, w \in WarpsOf[c]
  PROVE  CtaOf(w) = c
BY BarrierAssumption DEF CtaOf

LEMMA SlotFacts ==
  /\ \A c \in Cta : WarpsOf[c] \subseteq Wid /\ WarpsOf[c] # {} /\ IsFiniteSet(WarpsOf[c])
  /\ \A c, d \in Cta : c # d => WarpsOf[c] \cap WarpsOf[d] = {}
BY BarrierAssumption, FS_Subset

LEMMA TimesNat ==
  ASSUME NEW s, NEW k \in Nat, NEW b
  PROVE  Times(s, k, b) \in Nat
<1>1. IsFiniteSet(1 .. k) /\ {n \in 1 .. k : s[n].bar = b} \subseteq 1 .. k
  BY FS_Interval, 1 \in Int, k \in Int
<1>2. IsFiniteSet({n \in 1 .. k : s[n].bar = b})
  BY <1>1, FS_Subset
<1>. QED
  BY <1>2, FS_CardinalityType DEF Times

LEMMA TimesNone ==
  ASSUME NEW s, NEW b
  PROVE  Times(s, 0, b) = 0
<1>1. {n \in 1 .. 0 : s[n].bar = b} = {}
  OBVIOUS
<1>. QED
  BY <1>1, FS_EmptySet DEF Times

LEMMA TimesNext ==
  ASSUME NEW s, NEW k \in Nat, NEW b
  PROVE  Times(s, k + 1, b) = Times(s, k, b) + (IF s[k + 1].bar = b THEN 1 ELSE 0)
<1>1. PICK S : S = {n \in 1 .. k : s[n].bar = b}
  OBVIOUS
<1>2. IsFiniteSet(1 .. k) /\ S \subseteq 1 .. k
  BY <1>1, FS_Interval, 1 \in Int, k \in Int
<1>3. IsFiniteSet(S)
  BY <1>2, FS_Subset
<1>n. k + 1 \notin S
  BY <1>2
<1>4. CASE s[k + 1].bar = b
  <2>1. {n \in 1 .. k + 1 : s[n].bar = b} = S \cup {k + 1}
    BY <1>1, <1>4
  <2>2. Cardinality(S \cup {k + 1}) = Cardinality(S) + 1
    BY <1>3, <1>n, FS_AddElement
  <2>. QED
    BY <2>1, <2>2, <1>1, <1>4 DEF Times
<1>5. CASE s[k + 1].bar # b
  <2>1. {n \in 1 .. k + 1 : s[n].bar = b} = S
    BY <1>1, <1>5
  <2>2. Cardinality(S) \in Nat
    BY <1>3, FS_CardinalityType
  <2>. QED
    <3>1. Times(s, k + 1, b) = Cardinality(S) /\ Times(s, k, b) = Cardinality(S)
      BY <2>1, <1>1 DEF Times
    <3>. QED
      BY <3>1, <2>2, <1>5
<1>. QED
  BY <1>4, <1>5

(* At the start, and of a CTA that has just been launched.                 *)
LEMMA BarInitOK == NoArrive /\ BarInit => BarInv
<1> SUFFICES ASSUME BarInit PROVE BarInv
  OBVIOUS
<1>1. BarTypeOK /\ pc \in [Wid -> Nat] /\ CodesWait
  BY BarrierAssumption DEF BarInit, BarTypeOK, CodesWait
<1>. QED
  BY <1>1 DEF BarInit, BarInv, CountedWait, EqualAtAll

LEMMA LaunchKeeps ==
  ASSUME NoArrive, BarInv, NEW c \in Cta, NEW p \in Codes, Launch(c, p)
  PROVE  BarInv'
<1>. USE DEF BarInv
<1>1. WarpsOf[c] \subseteq Wid /\ p \in [Wid -> Seq(Instr)] /\ MaxLaunch \in Nat
  BY SlotFacts, BarrierAssumption
<1>2. /\ code' \in [Wid -> Seq(Instr)] /\ pc' \in [Wid -> Nat]
      /\ \A w \in WarpsOf[c] : code'[w] = p[w] /\ pc'[w] = 1 /\ w \notin atBarrier'
      /\ \A w \in Wid \ WarpsOf[c] : code'[w] = code[w] /\ pc'[w] = pc[w] /\ (w \in atBarrier' <=> w \in atBarrier)
      /\ \A b \in Bar : atBar'[b] = atBar[b] \ WarpsOf[c]
      /\ atBarrier' \subseteq atBarrier
      /\ \A w \in Wid \ WarpsOf[c] : w \in alive' <=> w \in alive
  BY <1>1 DEF Launch, BarTypeOK
<1>3. BarTypeOK'
  <2>1. alive' \subseteq running' /\ running' \subseteq UNION {WarpsOf[d] : d \in cta'} /\ cta' \subseteq Cta
    BY <1>1 DEF Launch, BarTypeOK
  <2>2. \A w \in Wid : pc'[w] \in 1 .. Len(code'[w]) + 1
    BY <1>1, <1>2 DEF Launch, BarTypeOK
  <2>3. atBar' \in [Bar -> SUBSET UNION {WarpsOf[d] : d \in cta'}]
    <3>1. \A b \in Bar : atBar[b] \subseteq UNION {WarpsOf[d] : d \in cta}
      BY DEF BarTypeOK
    <3>2. \A b \in Bar : atBar[b] \ WarpsOf[c] \subseteq UNION {WarpsOf[d] : d \in cta'}
      BY <3>1 DEF Launch
    <3>. QED
      BY <3>2 DEF Launch
  <2>4. atBarrier' \subseteq alive' /\ launched' \in 0 .. MaxLaunch
    BY <1>1 DEF Launch, BarTypeOK
  <2>. QED
    BY <2>1, <2>2, <2>3, <2>4, <1>2 DEF BarTypeOK
<1>4. CodesWait'
  <2>. SUFFICES ASSUME NEW w \in Wid, NEW n \in 1 .. Len(code'[w]) PROVE code'[w][n].type # "ARRIVE"
    BY DEF CodesWait
  <2>1. CASE w \in WarpsOf[c]
    <3>1. code'[w] = p[w] /\ n \in DOMAIN p[w]
      BY <1>1, <1>2, <2>1
    <3>. QED
      BY <3>1 DEF NoArrive
  <2>2. CASE w \notin WarpsOf[c]
    BY <1>2, <2>2 DEF CodesWait
  <2>. QED
    BY <2>1, <2>2
<1>5. CountedWait(atBarrier', atBar', code', pc')
  <2>1. atBarrier' \subseteq Wid /\ \A w \in atBarrier' : pc'[w] > 1
    BY <1>2 DEF CountedWait
  <2>2. \A w \in Wid, b \in Bar : w \in atBar'[b] <=> w \in atBarrier' /\ code'[w][pc'[w] - 1].bar = b
    <3>. SUFFICES ASSUME NEW w \in Wid, NEW b \in Bar
                  PROVE  w \in atBar'[b] <=> w \in atBarrier' /\ code'[w][pc'[w] - 1].bar = b
      OBVIOUS
    <3>1. CASE w \in WarpsOf[c]
      BY <1>2, <3>1
    <3>2. CASE w \notin WarpsOf[c]
      <4>1. w \in atBar'[b] <=> w \in atBar[b]
        BY <1>2, <3>2
      <4>2. (w \in atBarrier' <=> w \in atBarrier) /\ code'[w] = code[w] /\ pc'[w] = pc[w]
        BY <1>2, <3>2
      <4>3. w \in atBar[b] <=> w \in atBarrier /\ code[w][pc[w] - 1].bar = b
        BY DEF CountedWait
      <4>. QED
        BY <4>1, <4>2, <4>3
    <3>. QED
      BY <3>1, <3>2
  <2>. QED
    BY <2>1, <2>2 DEF CountedWait
<1>6. EqualAtAll'
  <2>. SUFFICES ASSUME NEW d \in cta', NEW b \in Bar, ForAll(d, b)',
                       NEW v \in WarpsOf[d], NEW w \in WarpsOf[d], v \in alive'
                PROVE  Through(atBarrier', code', pc', w, b) <= Through(atBarrier', code', pc', v, b)
    BY DEF EqualAtAll, EvenAt
  <2>1. d \in Cta
    BY DEF Launch, BarTypeOK
  <2>2. CASE d = c
    <3>1. \A u \in WarpsOf[c] : Through(atBarrier', code', pc', u, b) = 0
      BY <1>2, TimesNone DEF Through
    <3>. QED
      BY <2>2, <3>1
  <2>3. CASE d # c
    <3>1. d \in cta /\ \A u \in WarpsOf[d] : u \in Wid \ WarpsOf[c]
      BY <2>1, <2>3, SlotFacts DEF Launch
    <3>2. ForAll(d, b)
      BY <3>1, <1>2 DEF ForAll
    <3>3. \A u \in WarpsOf[d] : Through(atBarrier', code', pc', u, b) = Through(atBarrier, code, pc, u, b)
      BY <3>1, <1>2 DEF Through
    <3>. QED
      BY <3>1, <3>2, <3>3, <1>2 DEF EqualAtAll, EvenAt
  <2>. QED
    BY <2>2, <2>3
<1>. QED
  BY <1>2, <1>3, <1>4, <1>5, <1>6

LEMMA ThroughInt ==
  ASSUME BarInv, NEW u \in Wid, NEW b
  PROVE  Through(atBarrier, code, pc, u, b) \in Int
<1>1. pc[u] - 1 \in Nat
  BY DEF BarInv, BarTypeOK
<1>. QED
  BY <1>1, TimesNat DEF Through

(* The warps in F, all that are not done or none, go through.              *)
LEMMA EvenKeeps ==
  ASSUME BarInv, NEW c \in cta, NEW b \in Bar, NEW h, NEW i, NEW g, g \subseteq alive, NEW F,
         EvenAt(WarpsOf[c], alive, atBarrier, code, pc, b),
         \A u \in WarpsOf[c] : Through(h, code, i, u, b)
             = Through(atBarrier, code, pc, u, b) + (IF u \in F THEN 1 ELSE 0),
         \/ \A u \in WarpsOf[c] : u \notin F
         \/ \A u \in WarpsOf[c] : u \in g => u \in F
  PROVE  EvenAt(WarpsOf[c], g, h, code, i, b)
<1>. SUFFICES ASSUME NEW v \in WarpsOf[c], NEW w \in WarpsOf[c], v \in g
              PROVE  Through(h, code, i, w, b) <= Through(h, code, i, v, b)
  BY DEF EvenAt
<1>1. WarpsOf[c] \subseteq Wid
  BY SlotFacts DEF BarInv, BarTypeOK
<1>2. PICK tv, tw, nv, nw : /\ tv = Through(atBarrier, code, pc, v, b) /\ tw = Through(atBarrier, code, pc, w, b)
                            /\ nv = Through(h, code, i, v, b) /\ nw = Through(h, code, i, w, b)
  OBVIOUS
<1>3. tv \in Int /\ tw \in Int /\ tw <= tv
  BY <1>1, <1>2, ThroughInt DEF EvenAt
<1>4. nv = tv + (IF v \in F THEN 1 ELSE 0) /\ nw = tw + (IF w \in F THEN 1 ELSE 0)
  BY <1>2
<1>5. v \in F \/ w \notin F
  OBVIOUS
<1>. QED
  BY <1>2, <1>3, <1>4, <1>5

LEMMA IssueKeepsBars ==
  ASSUME BarInv, NEW w \in Wid, Issue(w)
  PROVE  BarInv'
<1>1. PICK c \in cta : w \in WarpsOf[c]
  BY DEF Issue, FunctionalDone, BarInv, BarTypeOK
<1>2. c \in Cta /\ CtaOf(w) = c /\ WarpsOf[c] \subseteq Wid /\ IsFiniteSet(WarpsOf[c])
  BY <1>1, OwnCta, SlotFacts DEF BarInv, BarTypeOK
<1>3. PICK in : in = code[w][pc[w]]
  OBVIOUS
<1>4. /\ pc[w] \in 1 .. Len(code[w]) /\ in \in Instr /\ in.bar \in Bar /\ in.type \in {"SYNC", "RED"}
  <2>1. pc[w] \in 1 .. Len(code[w]) /\ code[w] \in Seq(Instr)
    BY DEF Issue, BarInv, BarTypeOK
  <2>2. in \in Instr /\ in.type # "ARRIVE"
    BY <1>3, <2>1 DEF BarInv, CodesWait
  <2>. QED
    BY <2>1, <2>2 DEF Instr, Type
<1>5. PICK b0 : b0 = in.bar
  OBVIOUS
<1>6. PICK F : F = IF Complete(in, WarpsOf[c], WarpsOf[c] \cap (atBar[b0] \union {w}))
                   THEN WarpsOf[c] \cap (atBar[b0] \union {w}) ELSE {}
  OBVIOUS
<1>7. /\ atBar' = [atBar EXCEPT ![b0] = (atBar[b0] \union {w}) \ F]
      /\ atBarrier' = (atBarrier \union {w}) \ F
      /\ pc' = [pc EXCEPT ![w] = pc[w] + 1]
      /\ UNCHANGED <<cta, alive, code, running, launched>>
      /\ w \in alive /\ w \notin atBarrier
  BY <1>1, <1>2, <1>3, <1>4, <1>5, <1>6 DEF Issue, warp_reaches_barrier, Release, FunctionalDone
<1>8. /\ b0 \in Bar /\ F \subseteq WarpsOf[c] \cap (atBar[b0] \union {w})
      /\ F = {} \/ F = WarpsOf[c] \cap (atBar[b0] \union {w})
      /\ code[w][pc'[w] - 1].bar = b0
      /\ \A u \in Wid : u # w => pc'[u] = pc[u]
      /\ pc'[w] = pc[w] + 1 /\ pc' \in [Wid -> Nat]
  <2>1. pc' \in [Wid -> Nat] /\ pc'[w] = pc[w] + 1 /\ \A u \in Wid : u # w => pc'[u] = pc[u]
    BY <1>7 DEF BarInv
  <2>2. pc'[w] - 1 = pc[w]
    BY <2>1, <1>4
  <2>. QED
    BY <1>3, <1>4, <1>5, <1>6, <2>1, <2>2
<1>9. /\ atBar \in [Bar -> SUBSET UNION {WarpsOf[d] : d \in cta}]
      /\ \A u \in Wid : \A b \in Bar : u \in atBar[b] <=> u \in atBarrier /\ code[u][pc[u] - 1].bar = b
      /\ atBarrier \subseteq Wid /\ \A u \in atBarrier : pc[u] > 1
  BY DEF BarInv, BarTypeOK, CountedWait
<1>10. BarTypeOK'
  <2>1. atBarrier' \subseteq alive'
    BY <1>7 DEF BarInv, BarTypeOK
  <2>2. w \in UNION {WarpsOf[d] : d \in cta}
    BY <1>1
  <2>3. atBar' \in [Bar -> SUBSET UNION {WarpsOf[d] : d \in cta}]
    BY <1>7, <1>8, <1>9, <2>2
  <2>4. \A u \in Wid : pc'[u] \in 1 .. Len(code[u]) + 1
    BY <1>4, <1>7, <1>8 DEF BarInv, BarTypeOK
  <2>. QED
    BY <1>7, <2>1, <2>3, <2>4 DEF BarInv, BarTypeOK
<1>11. CountedWait(atBarrier', atBar', code', pc')
  <2>1. atBarrier' \subseteq Wid /\ \A u \in atBarrier' : pc'[u] > 1
    BY <1>4, <1>7, <1>8, <1>9
  <2>2. ASSUME NEW u \in Wid, NEW b \in Bar
        PROVE  u \in atBar'[b] <=> u \in atBarrier' /\ code[u][pc'[u] - 1].bar = b
    <3>1. CASE u = w
      BY <3>1, <1>7, <1>8, <1>9
    <3>2. CASE u # w /\ u \in F
      BY <3>2, <1>7, <1>8, <1>9
    <3>3. CASE u # w /\ u \notin F
      BY <3>3, <1>7, <1>8, <1>9
    <3>. QED
      BY <3>1, <3>2, <3>3
  <2>. QED
    BY <2>1, <2>2, <1>7 DEF CountedWait
<1>12. ASSUME NEW u \in Wid, NEW b \in Bar
       PROVE  Through(atBarrier', code, pc', u, b)
                = Through(atBarrier, code, pc, u, b) + (IF b = b0 /\ u \in F THEN 1 ELSE 0)
  <2>1. CASE u = w
    <3>1. PICK k : k = pc[w] - 1
      OBVIOUS
    <3>2. k \in Nat /\ k + 1 = pc[w] /\ pc'[w] - 1 = k + 1
      BY <3>1, <1>4, <1>8
    <3>3. Times(code[w], k + 1, b) = Times(code[w], k, b) + (IF b0 = b THEN 1 ELSE 0)
      BY <3>2, <1>3, <1>5, TimesNext
    <3>4. Times(code[w], k, b) \in Nat
      BY <3>2, TimesNat
    <3>5. Through(atBarrier, code, pc, w, b) = Times(code[w], k, b)
      BY <3>1, <3>4, <1>7 DEF Through
    <3>6. Through(atBarrier', code, pc', w, b)
            = Times(code[w], k + 1, b) - (IF w \notin F /\ b0 = b THEN 1 ELSE 0)
      <4>1. w \in atBarrier' <=> w \notin F
        BY <1>7
      <4>. QED
        BY <4>1, <3>2, <1>8 DEF Through
    <3>. QED
      BY <2>1, <3>3, <3>4, <3>5, <3>6
  <2>2. CASE u # w
    <3>1. pc'[u] = pc[u] /\ Times(code[u], pc[u] - 1, b) \in Nat
      <4>1. pc[u] - 1 \in Nat
        BY DEF BarInv, BarTypeOK
      <4>. QED
        BY <2>2, <1>8, <4>1, TimesNat
    <3>2. CASE u \in F
      <4>1. u \in atBarrier /\ code[u][pc[u] - 1].bar = b0 /\ u \notin atBarrier'
        BY <2>2, <3>2, <1>7, <1>8, <1>9
      <4>. QED
        BY <3>1, <3>2, <4>1 DEF Through
    <3>3. CASE u \notin F
      <4>1. u \in atBarrier' <=> u \in atBarrier
        BY <2>2, <3>3, <1>7
      <4>. QED
        BY <3>1, <3>3, <4>1 DEF Through
    <3>. QED
      BY <3>2, <3>3
  <2>. QED
    BY <2>1, <2>2
<1>13. EqualAtAll'
  <2>. SUFFICES ASSUME NEW d \in cta, NEW b \in Bar, ForAll(d, b)
                PROVE  EvenAt(WarpsOf[d], alive, atBarrier', code, pc', b)
    BY <1>7 DEF EqualAtAll, ForAll
  <2>1. EvenAt(WarpsOf[d], alive, atBarrier, code, pc, b) /\ d \in Cta /\ WarpsOf[d] \subseteq Wid
    BY SlotFacts DEF BarInv, EqualAtAll, BarTypeOK
  <2>2. PICK G : G = IF b = b0 THEN F ELSE {}
    OBVIOUS
  <2>3. \A u \in WarpsOf[d] : Through(atBarrier', code, pc', u, b)
          = Through(atBarrier, code, pc, u, b) + (IF u \in G THEN 1 ELSE 0)
    BY <1>12, <2>1, <2>2
  <2>4. \/ \A u \in WarpsOf[d] : u \notin G
        \/ \A u \in WarpsOf[d] : u \in alive => u \in G
    <3>1. CASE b # b0 \/ F = {}
      BY <3>1, <2>2
    <3>2. CASE d # c
      <4>1. WarpsOf[d] \cap WarpsOf[c] = {}
        BY <3>2, <2>1, <1>2, SlotFacts
      <4>. QED
        BY <4>1, <1>8, <2>2
    <3>3. CASE d = c /\ b = b0 /\ F # {}
      <4>1. /\ F = WarpsOf[c] \cap (atBar[b0] \union {w})
            /\ Complete(in, WarpsOf[c], F)
        BY <3>3, <1>6
      <4>2. in.count \in {0, Cardinality(WarpsOf[c])}
        BY <3>3, <1>1, <1>3, <1>4, <1>5 DEF ForAll
      <4>3. CASE in.count = 0
        BY <4>1, <4>3, <2>2, <3>3 DEF Complete
      <4>4. CASE in.count # 0
        <5>1. Cardinality(F) = Cardinality(WarpsOf[c])
          BY <4>1, <4>2, <4>4 DEF Complete
        <5>2. F = WarpsOf[c]
          <6>1. F \subseteq WarpsOf[c]
            BY <4>1
          <6>. QED
            BY <6>1, <5>1, <1>2, FS_Subset, FS_CardinalityType
        <5>. QED
          BY <5>2, <2>2, <3>3
      <4>. QED
        BY <4>3, <4>4
    <3>. QED
      BY <3>1, <3>2, <3>3
  <2>. QED
    BY <2>1, <2>3, <2>4, EvenKeeps
<1>. QED
  BY <1>7, <1>8, <1>10, <1>11, <1>13 DEF BarInv, CodesWait

LEMMA ExitKeeps ==
  ASSUME BarInv, NEW w \in Wid, Exit(w)
  PROVE  BarInv'
<1>1. PICK c \in cta : w \in WarpsOf[c]
  BY DEF Exit, FunctionalDone, BarInv, BarTypeOK
<1>2. c \in Cta /\ CtaOf(w) = c /\ WarpsOf[c] \subseteq Wid
  BY <1>1, OwnCta, SlotFacts DEF BarInv, BarTypeOK
<1>3. PICK full : full = {b \in Bar : WarpsOf[c] \cap atBar[b] = WarpsOf[c] \cap alive'}
  OBVIOUS
<1>4. /\ alive' = alive \ {w}
      /\ atBar' = [b \in Bar |-> IF b \in full THEN atBar[b] \ WarpsOf[c] ELSE atBar[b]]
      /\ atBarrier' = atBarrier \ UNION {WarpsOf[c] \cap atBar[b] : b \in full}
      /\ UNCHANGED <<cta, code, pc, running, launched>>
      /\ w \notin atBarrier
  BY <1>1, <1>2, <1>3 DEF Exit, warp_exit, FunctionalDone
<1>5. /\ atBar \in [Bar -> SUBSET UNION {WarpsOf[d] : d \in cta}] /\ full \subseteq Bar
      /\ \A u \in Wid : \A b \in Bar : u \in atBar[b] <=> u \in atBarrier /\ code[u][pc[u] - 1].bar = b
      /\ atBarrier \subseteq Wid /\ \A u \in atBarrier : pc[u] > 1
  BY <1>3 DEF BarInv, BarTypeOK, CountedWait
<1>6. ASSUME NEW u \in Wid, NEW b \in Bar, u \in atBar[b]
      PROVE  u \in atBarrier' <=> ~(u \in WarpsOf[c] /\ b \in full)
  BY <1>4, <1>5, <1>6
<1>7. BarTypeOK'
  <2>1. atBarrier' \subseteq alive'
    BY <1>4 DEF BarInv, BarTypeOK
  <2>2. atBar' \in [Bar -> SUBSET UNION {WarpsOf[d] : d \in cta}]
    BY <1>4, <1>5
  <2>. QED
    BY <1>4, <2>1, <2>2 DEF BarInv, BarTypeOK
<1>8. CountedWait(atBarrier', atBar', code, pc)
  <2>1. ASSUME NEW u \in Wid, NEW b \in Bar
        PROVE  u \in atBar'[b] <=> u \in atBarrier' /\ code[u][pc[u] - 1].bar = b
    <3>1. CASE u \in atBar[b]
      BY <3>1, <1>4, <1>5, <1>6
    <3>2. CASE u \notin atBar[b]
      BY <3>2, <1>4, <1>5
    <3>. QED
      BY <3>1, <3>2
  <2>. QED
    BY <2>1, <1>4, <1>5 DEF CountedWait
<1>9. EqualAtAll'
  <2>. SUFFICES ASSUME NEW d \in cta, NEW b \in Bar, ForAll(d, b)
                PROVE  EvenAt(WarpsOf[d], alive', atBarrier', code, pc, b)
    BY <1>4 DEF EqualAtAll, ForAll
  <2>1. EvenAt(WarpsOf[d], alive, atBarrier, code, pc, b) /\ d \in Cta /\ WarpsOf[d] \subseteq Wid
    BY SlotFacts DEF BarInv, EqualAtAll, BarTypeOK
  <2>2. PICK G : G = IF b \in full THEN WarpsOf[c] \cap atBar[b] ELSE {}
    OBVIOUS
  <2>3. ASSUME NEW u \in WarpsOf[d]
        PROVE  Through(atBarrier', code, pc, u, b)
                 = Through(atBarrier, code, pc, u, b) + (IF u \in G THEN 1 ELSE 0)
    <3>1. u \in Wid /\ Times(code[u], pc[u] - 1, b) \in Nat
      <4>1. u \in Wid /\ pc[u] - 1 \in Nat
        BY <2>1 DEF BarInv, BarTypeOK
      <4>. QED
        BY <4>1, TimesNat
    <3>2. CASE u \in G
      <4>1. u \in atBarrier /\ code[u][pc[u] - 1].bar = b /\ u \notin atBarrier'
        BY <2>2, <3>1, <3>2, <1>5, <1>6
      <4>. QED
        BY <3>1, <3>2, <4>1 DEF Through
    <3>3. CASE u \notin G
      <4>1. u \in atBarrier' /\ code[u][pc[u] - 1].bar = b <=> u \in atBarrier /\ code[u][pc[u] - 1].bar = b
        <5>1. CASE u \in atBar[b]
          BY <5>1, <2>2, <3>1, <3>3, <1>5, <1>6
        <5>2. CASE u \notin atBar[b]
          BY <5>2, <3>1, <1>4, <1>5
        <5>. QED
          BY <5>1, <5>2
      <4>. QED
        BY <3>1, <3>3, <4>1 DEF Through
    <3>. QED
      BY <3>2, <3>3
  <2>4. \/ \A u \in WarpsOf[d] : u \notin G
        \/ \A u \in WarpsOf[d] : u \in alive' => u \in G
    <3>1. CASE b \notin full
      BY <3>1, <2>2
    <3>2. CASE d # c
      <4>1. WarpsOf[d] \cap WarpsOf[c] = {}
        BY <3>2, <2>1, <1>2, SlotFacts
      <4>. QED
        BY <4>1, <2>2
    <3>3. CASE d = c /\ b \in full
      BY <3>3, <1>3, <2>2
    <3>. QED
      BY <3>1, <3>2, <3>3
  <2>5. alive' \subseteq alive
    BY <1>4
  <2>. QED
    BY <2>1, <2>3, <2>4, <2>5, EvenKeeps
<1>. QED
  BY <1>4, <1>7, <1>8, <1>9 DEF BarInv, CodesWait

LEMMA RetireKeeps ==
  ASSUME BarInv, NEW w \in Wid, Retire(w)
  PROVE  BarInv'
<1>1. PICK c \in cta : w \in WarpsOf[c]
  BY DEF Retire, BarInv, BarTypeOK
<1>2. c \in Cta /\ CtaOf(w) = c /\ WarpsOf[c] \subseteq Wid
  BY <1>1, OwnCta, SlotFacts DEF BarInv, BarTypeOK
<1>3. /\ w \notin alive /\ running' = running \ {w} /\ UNCHANGED <<code, pc, launched>>
  BY DEF Retire, FunctionalDone
<1>4. CASE WarpsOf[c] \cap running' # {}
  <2>1. UNCHANGED <<cta, alive, atBarrier, atBar>>
    BY <1>2, <1>4 DEF Retire
  <2>2. BarTypeOK'
    BY <1>3, <2>1 DEF BarInv, BarTypeOK
  <2>3. CountedWait(atBarrier', atBar', code', pc') /\ EqualAtAll' /\ CodesWait'
    BY <1>3, <2>1 DEF BarInv, EqualAtAll, ForAll, CodesWait
  <2>. QED
    BY <2>2, <2>3, <1>3 DEF BarInv
<1>5. CASE WarpsOf[c] \cap running' = {}
  <2>1. /\ cta' = cta \ {c} /\ alive' = alive \ WarpsOf[c] /\ atBarrier' = atBarrier \ WarpsOf[c]
        /\ atBar' = [b \in Bar |-> atBar[b] \ WarpsOf[c]]
    BY <1>2, <1>5 DEF Retire
  <2>2. WarpsOf[c] \cap alive = {} /\ WarpsOf[c] \cap atBarrier = {}
    BY <1>3, <1>5 DEF BarInv, BarTypeOK
  <2>3. /\ atBar \in [Bar -> SUBSET UNION {WarpsOf[d] : d \in cta}]
        /\ \A u \in Wid : \A b \in Bar : u \in atBar[b] <=> u \in atBarrier /\ code[u][pc[u] - 1].bar = b
    BY DEF BarInv, BarTypeOK, CountedWait
  <2>4. \A b \in Bar : WarpsOf[c] \cap atBar[b] = {}
    BY <1>2, <2>2, <2>3
  <2>5. alive' = alive /\ atBarrier' = atBarrier /\ atBar' = atBar
    <3>1. atBar' = atBar
      BY <2>1, <2>3, <2>4
    <3>. QED
      BY <3>1, <2>1, <2>2
  <2>6. BarTypeOK'
    <3>1. \A u \in running' : \E d \in cta' : u \in WarpsOf[d]
      BY <1>3, <1>5, <2>1 DEF BarInv, BarTypeOK
    <3>2. \A b \in Bar : \A u \in atBar[b] : u \in alive
      <4>1. ASSUME NEW b \in Bar, NEW u \in atBar[b] PROVE u \in alive
        <5>1. u \in Wid
          BY <2>3, SlotFacts DEF BarInv, BarTypeOK
        <5>. QED
          BY <5>1, <2>3 DEF BarInv, BarTypeOK
      <4>. QED
        BY <4>1
    <3>3. alive \subseteq running'
      BY <1>3 DEF BarInv, BarTypeOK
    <3>4. atBar' \in [Bar -> SUBSET UNION {WarpsOf[d] : d \in cta'}]
      BY <2>3, <2>5, <3>1, <3>2, <3>3
    <3>. QED
      BY <1>3, <2>1, <2>5, <3>1, <3>3, <3>4 DEF BarInv, BarTypeOK
  <2>7. CountedWait(atBarrier', atBar', code', pc') /\ CodesWait'
    BY <1>3, <2>5 DEF BarInv, CodesWait
  <2>8. EqualAtAll'
    <3>1. ASSUME NEW d \in cta', NEW b \in Bar, ForAll(d, b)'
          PROVE  EvenAt(WarpsOf[d], alive', atBarrier', code', pc', b)
      <4>1. d \in cta /\ ForAll(d, b)
        BY <1>3, <2>1, <3>1 DEF ForAll
      <4>2. EvenAt(WarpsOf[d], alive, atBarrier, code, pc, b)
        BY <4>1 DEF BarInv, EqualAtAll
      <4>. QED
        BY <4>2, <1>3, <2>5
    <3>. QED
      BY <3>1 DEF EqualAtAll
  <2>. QED
    BY <2>6, <2>7, <2>8, <1>3 DEF BarInv
<1>. QED
  BY <1>4, <1>5

LEMMA BarNextKeeps == NoArrive /\ BarInv /\ [BarNext]_barVars => BarInv'
<1> SUFFICES ASSUME NoArrive, BarInv, [BarNext]_barVars PROVE BarInv'
  OBVIOUS
<1>1. CASE UNCHANGED barVars
  BY <1>1 DEF barVars, BarInv, BarTypeOK, CodesWait, EqualAtAll, ForAll
<1>2. CASE BarNext
  BY <1>2, LaunchKeeps, IssueKeepsBars, ExitKeeps, RetireKeeps DEF BarNext
<1>. QED
  BY <1>1, <1>2

LEMMA BarInvGives == BarInv => BarriersHold
<1> SUFFICES ASSUME BarInv PROVE BarriersHold
  OBVIOUS
<1>1. /\ atBar \in [Bar -> SUBSET UNION {WarpsOf[d] : d \in cta}] /\ cta \subseteq Cta
      /\ \A u \in Wid : \A b \in Bar : u \in atBar[b] <=> u \in atBarrier /\ code[u][pc[u] - 1].bar = b
      /\ atBarrier \subseteq Wid /\ \A u \in atBarrier : pc[u] > 1
      /\ atBarrier \subseteq alive
  BY DEF BarInv, BarTypeOK, CountedWait
<1>2. ASSUME NEW u \in Wid, NEW b
      PROVE  /\ Reached(u, b) = Times(code[u], pc[u] - 1, b)
             /\ Times(code[u], pc[u] - 1, b) \in Nat
             /\ WentOn(u, b) = Through(atBarrier, code, pc, u, b)
  <2>1. pc[u] - 1 \in Nat /\ 1 .. pc[u] - 1 \subseteq 1 .. Len(code[u]) /\ code[u] \in Seq(Instr)
    BY DEF BarInv, BarTypeOK
  <2>2. \A n \in 1 .. pc[u] - 1 : Waits(code[u][n])
    <3>1. \A n \in 1 .. pc[u] - 1 : code[u][n] \in Instr /\ code[u][n].type # "ARRIVE"
      BY <2>1 DEF BarInv, CodesWait
    <3>. QED
      BY <3>1 DEF Waits, Instr, Type
  <2>3. {n \in 1 .. pc[u] - 1 : code[u][n].bar = b /\ Waits(code[u][n])} = {n \in 1 .. pc[u] - 1 : code[u][n].bar = b}
    BY <2>2
  <2>. QED
    <3>0. Times(code[u], pc[u] - 1, b) \in Nat
      BY <2>1, TimesNat
    <3>1. Reached(u, b) = Times(code[u], pc[u] - 1, b)
      BY DEF Reached, Times
    <3>2. Cardinality({n \in 1 .. pc[u] - 1 : code[u][n].bar = b /\ Waits(code[u][n])}) = Times(code[u], pc[u] - 1, b)
      BY <2>3 DEF Times
    <3>. QED
      BY <3>0, <3>1, <3>2 DEF WentOn, Through, WaitsAt
<1>3. BarrierHolds
  <2>. SUFFICES ASSUME NEW c \in cta, NEW b \in Bar, ForAll(c, b), NEW v \in WarpsOf[c], NEW w \in WarpsOf[c], v \in alive
                PROVE  WentOn(w, b) <= Reached(v, b)
    BY DEF BarrierHolds
  <2>1. v \in Wid /\ w \in Wid
    BY <1>1, SlotFacts
  <2>2. Through(atBarrier, code, pc, w, b) <= Through(atBarrier, code, pc, v, b)
    BY DEF BarInv, EqualAtAll, EvenAt
  <2>3. Through(atBarrier, code, pc, v, b) <= Times(code[v], pc[v] - 1, b)
    BY <1>2, <2>1 DEF Through
  <2>4. Through(atBarrier, code, pc, w, b) \in Int /\ Through(atBarrier, code, pc, v, b) \in Int
    BY <2>1, ThroughInt
  <2>. QED
    BY <1>2, <2>1, <2>2, <2>3, <2>4
<1>4. WaiterIsCounted
  <2>. SUFFICES ASSUME NEW w \in atBarrier PROVE w \in atBar[code[w][pc[w] - 1].bar]
    BY DEF WaiterIsCounted
  <2>1. code[w] \in Seq(Instr) /\ pc[w] - 1 \in 1 .. Len(code[w])
    BY <1>1 DEF BarInv, BarTypeOK
  <2>2. code[w][pc[w] - 1].bar \in Bar
    <3>1. code[w][pc[w] - 1] \in Instr
      BY <2>1
    <3>. QED
      BY <3>1 DEF Instr
  <2>. QED
    BY <1>1, <2>2
<1>5. NoWarpStuck
  BY <1>1, SlotFacts DEF NoWarpStuck
<1>. QED
  BY <1>3, <1>4, <1>5 DEF BarriersHold, BarInv

(* However the warps of however many CTAs use however many barriers, a     *)
(* barrier lets nobody through before everybody has reached it, counts     *)
(* everybody who waits, and keeps nobody after the last exit, as long as   *)
(* no program announces itself at a barrier that it does not wait at.      *)
THEOREM BarriersAlwaysHold == NoArrive => (BarSpec => []BarriersHold)
<1> SUFFICES ASSUME NoArrive PROVE BarSpec => []BarriersHold
  OBVIOUS
<1>1. BarInit => BarInv
  BY BarInitOK
<1>2. BarInv /\ [BarNext]_barVars => BarInv'
  BY BarNextKeeps
<1>. QED
  BY <1>1, <1>2, BarInvGives, PTL DEF BarSpec

=============================================================================
