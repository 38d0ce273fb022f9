--------------------------- MODULE Cluster_proofs ---------------------------
(***************************************************************************)
(* Safety of CtaIssue and of ClusterPorts: for any kernels, clusters,      *)
(* cores and slots, and any answers and sizes of the buffers.              *)
(***************************************************************************)
EXTENDS CtaIssue, ClusterPorts, FiniteSetTheorems, SequenceTheorems, TLAPS

-----------------------------------------------------------------------------
(* ClusterPorts.                                                           *)

Held(q) == {q[n] : n \in DOMAIN q}
Once(q) == \A i, j \in DOMAIN q : q[i] = q[j] => i = j

(* The answers in a FIFO that the interconnect or the perfect memory has   *)
(* put there.                                                              *)
Limited(q) == {n \in DOMAIN q : From[q[n]] # "hist"}

(* Each answer is in one place, and a load/store unit has those of its own *)
(* core: OnePlace without the counting, for any contents of the places.    *)
PortTypes(o, f, l, d) ==
  o \subseteq Resp /\ d \subseteq Resp /\ f \in Seq(Resp) /\ l \in [Cid -> Seq(Resp)]

AtHome(l) == \A c \in Cid : \A m \in Held(l[c]) : CoreOf[m] = c

Apart(o, f, l, d) ==
  /\ o \intersect d = {} /\ Held(f) \intersect (o \union d) = {}
  /\ \A c \in Cid : Held(l[c]) \intersect (o \union d \union Held(f)) = {}
  /\ Once(f) /\ \A c \in Cid : Once(l[c])

Somewhere(o, f, l, d) ==
  \A m \in Resp : m \in o \union d \union Held(f) \union Held(l[CoreOf[m]])

Placed(o, f, l, d) ==
  PortTypes(o, f, l, d) /\ AtHome(l) /\ Apart(o, f, l, d) /\ Somewhere(o, f, l, d)

PortInv == Placed(out, fifo, ldst, done) /\ Limits

(* What leaves a FIFO at its front, and what comes in behind. *)
LEMMA TailTakes ==
  ASSUME NEW S, NEW q \in Seq(S), q # <<>>
  PROVE  /\ Tail(q) \in Seq(S) /\ Head(q) \in S /\ Len(Tail(q)) = Len(q) - 1
         /\ Head(q) \in Held(q) /\ Held(Tail(q)) \subseteq Held(q)
         /\ Held(q) = Held(Tail(q)) \union {Head(q)}
         /\ Once(q) => Once(Tail(q)) /\ Head(q) \notin Held(Tail(q))
<1>1. PICK L \in Nat \ {0} : L = Len(q)
  OBVIOUS
<1>2. DOMAIN q = 1 .. L /\ \A n \in 1 .. L : q[n] \in S
  BY <1>1
<1>3. PICK t : t = Tail(q)
  OBVIOUS
<1>4. t \in Seq(S) /\ Len(t) = L - 1 /\ DOMAIN t = 1 .. L - 1
      /\ \A n \in 1 .. L - 1 : t[n] = q[n + 1]
  BY <1>1, <1>3
<1>5. Head(q) = q[1] /\ 1 \in 1 .. L
  BY <1>1
<1>6. Held(t) \subseteq Held(q)
  BY <1>2, <1>4 DEF Held
<1>7. Held(q) \subseteq Held(t) \union {q[1]}
  <2>1. ASSUME NEW n \in 1 .. L, n # 1 PROVE q[n] \in Held(t)
    <3>1. PICK k \in 1 .. L - 1 : n = k + 1
      BY <2>1
    <3>. QED
      BY <1>4, <3>1 DEF Held
  <2>. QED
    BY <1>2, <2>1 DEF Held
<1>8. Once(q) => Once(t) /\ q[1] \notin Held(t)
  <2> SUFFICES ASSUME Once(q) PROVE Once(t) /\ q[1] \notin Held(t)
    OBVIOUS
  <2>1. \A i, j \in 1 .. L : q[i] = q[j] => i = j
    BY <1>2 DEF Once
  <2>2. ASSUME NEW i \in 1 .. L - 1, NEW j \in 1 .. L - 1, t[i] = t[j] PROVE i = j
    <3>1. PICK k, l \in 1 .. L : k = i + 1 /\ l = j + 1
      OBVIOUS
    <3>2. q[k] = q[l]
      BY <1>4, <2>2, <3>1
    <3>. QED
      BY <2>1, <3>1, <3>2
  <2>3. ASSUME NEW i \in 1 .. L - 1 PROVE t[i] # q[1]
    <3>1. PICK k \in 1 .. L : k = i + 1 /\ k # 1
      OBVIOUS
    <3>. QED
      BY <1>4, <1>5, <2>1, <3>1
  <2>. QED
    BY <1>4, <2>2, <2>3 DEF Once, Held
<1>. QED
  BY <1>1, <1>2, <1>3, <1>4, <1>5, <1>6, <1>7, <1>8 DEF Held

(* Append adds one, that is once in there if it was not before. *)
LEMMA AppendAdds ==
  ASSUME NEW S, NEW q \in Seq(S), NEW m \in S
  PROVE  /\ Append(q, m) \in Seq(S) /\ Len(Append(q, m)) = Len(q) + 1
         /\ Held(Append(q, m)) = Held(q) \union {m}
         /\ Once(q) /\ m \notin Held(q) => Once(Append(q, m))
<1>1. PICK L \in Nat : L = Len(q)
  OBVIOUS
<1>2. DOMAIN q = 1 .. L
  BY <1>1
<1>3. PICK t : t = Append(q, m)
  OBVIOUS
<1>4. PICK N \in Nat : N = L + 1
  OBVIOUS
<1>5. t \in Seq(S) /\ Len(t) = N /\ DOMAIN t = 1 .. N
      /\ t[N] = m /\ \A n \in 1 .. L : t[n] = q[n]
  BY <1>1, <1>3, <1>4
<1>6. \A n \in 1 .. N : n \in 1 .. L \/ n = N
  BY <1>4
<1>7. 1 .. L \subseteq 1 .. N /\ N \in 1 .. N /\ N \notin 1 .. L
  BY <1>4
<1>8. Held(t) = Held(q) \union {m}
  BY <1>2, <1>5, <1>6, <1>7 DEF Held
<1>9. Once(q) /\ m \notin Held(q) => Once(t)
  BY <1>2, <1>5, <1>6, <1>7 DEF Held, Once
<1>. QED
  BY <1>1, <1>3, <1>4, <1>5, <1>8, <1>9

(* The limited answers are counted in the places they have. *)
LEMMA LimitedCounts ==
  ASSUME NEW q \in Seq(Resp)
  PROVE  /\ IsFiniteSet(Limited(q)) /\ Cardinality(Limited(q)) \in Nat
         /\ Cardinality(Limited(q)) <= Len(q)
<1>1. PICK L \in Nat : L = Len(q) /\ DOMAIN q = 1 .. L
  OBVIOUS
<1>2. IsFiniteSet(1 .. L) /\ Cardinality(1 .. L) = L
  <2>1. 1 \in Int /\ L \in Int
    OBVIOUS
  <2>2. Cardinality(1 .. L) = IF 1 > L THEN 0 ELSE L - 1 + 1
    BY <2>1, FS_Interval
  <2>. QED
    BY <2>1, <2>2, FS_Interval
<1>3. Limited(q) \in SUBSET (1 .. L)
  BY <1>1 DEF Limited
<1>. QED
  BY <1>1, <1>2, <1>3, FS_Subset, FS_CardinalityType

(* The limited answers are no more when the front leaves. *)
LEMMA TailLimited ==
  ASSUME NEW q \in Seq(Resp), q # <<>>
  PROVE  Cardinality(Limited(Tail(q))) <= Cardinality(Limited(q))
<1>1. PICK L \in Nat \ {0} : L = Len(q) /\ DOMAIN q = 1 .. L
  OBVIOUS
<1>2. PICK t \in Seq(Resp) : t = Tail(q)
  BY TailTakes
<1>3. DOMAIN t = 1 .. L - 1 /\ \A n \in 1 .. L - 1 : t[n] = q[n + 1]
  BY <1>1, <1>2
<1>4. PICK S, T : S = Limited(t) /\ T = Limited(q)
  OBVIOUS
<1>5. IsFiniteSet(T)
  BY <1>4, LimitedCounts
<1>6. S \subseteq 1 .. L - 1
  BY <1>3, <1>4 DEF Limited
<1>7. PICK f : f = [n \in S |-> n + 1]
  OBVIOUS
<1>8. ASSUME NEW n \in S PROVE n + 1 \in T
  <2>1. n \in 1 .. L - 1 /\ From[t[n]] # "hist"
    BY <1>3, <1>4 DEF Limited
  <2>2. PICK k \in 1 .. L : k = n + 1
    BY <2>1
  <2>3. From[q[k]] # "hist"
    BY <1>3, <2>1, <2>2
  <2>. QED
    BY <1>1, <1>4, <2>2, <2>3 DEF Limited
<1>9. f \in Injection(S, T)
  <2>1. f \in [S -> T]
    BY <1>7, <1>8
  <2>2. ASSUME NEW m \in S, NEW n \in S, f[m] = f[n] PROVE m = n
    BY <1>6, <1>7, <2>2
  <2>. QED
    BY <2>1, <2>2 DEF Injection, IsInjective
<1>. QED
  BY <1>2, <1>4, <1>5, <1>9, FS_Injection

(* An answer of HIST is not one of the limited. *)
LEMMA HistLimited ==
  ASSUME NEW q \in Seq(Resp), NEW m \in Resp, From[m] = "hist"
  PROVE  Limited(Append(q, m)) = Limited(q)
<1>1. PICK L \in Nat : L = Len(q) /\ DOMAIN q = 1 .. L
  OBVIOUS
<1>2. PICK t : t = Append(q, m)
  OBVIOUS
<1>3. DOMAIN t = 1 .. L + 1 /\ t[L + 1] = m /\ \A n \in 1 .. L : t[n] = q[n]
  BY <1>1, <1>2
<1>4. \A n \in 1 .. L + 1 : n \in 1 .. L \/ n = L + 1
  OBVIOUS
<1>5. \A n \in 1 .. L : n \in 1 .. L + 1
  OBVIOUS
<1>. QED
  BY <1>1, <1>2, <1>3, <1>4, <1>5 DEF Limited

(* An answer arrives in the FIFO of the cluster. *)
LEMMA Arrives ==
  ASSUME NEW o, NEW f, NEW l, NEW d, Placed(o, f, l, d), NEW m \in o
  PROVE  Placed(o \ {m}, Append(f, m), l, d)
<1>1. PortTypes(o, f, l, d) /\ m \in Resp
  BY DEF Placed, PortTypes
<1>2. PICK g : g = Append(f, m)
  OBVIOUS
<1>3. m \notin Held(f) /\ Once(f)
  BY DEF Placed, Apart
<1>4. g \in Seq(Resp) /\ Held(g) = Held(f) \union {m} /\ Once(g)
  BY <1>1, <1>2, <1>3, AppendAdds DEF PortTypes
<1>. QED
  BY <1>1, <1>2, <1>4 DEF Placed, PortTypes, AtHome, Apart, Somewhere

(* The front goes to an instruction cache.                                 *)
LEMMA ToCache ==
  ASSUME NEW o, NEW f, NEW l, NEW d, Placed(o, f, l, d), f # <<>>
  PROVE  Placed(o, Tail(f), l, d \union {Head(f)})
<1>1. f \in Seq(Resp) /\ Once(f)
  BY DEF Placed, PortTypes, Apart
<1>2. PICK t, m : t = Tail(f) /\ m = Head(f)
  OBVIOUS
<1>3. /\ t \in Seq(Resp) /\ m \in Resp /\ m \in Held(f) /\ Held(f) = Held(t) \union {m}
      /\ Once(t) /\ m \notin Held(t)
  BY <1>1, <1>2, TailTakes
<1>. QED
  BY <1>2, <1>3 DEF Placed, PortTypes, AtHome, Apart, Somewhere

(* The front goes to the load/store unit of its core.                      *)
LEMMA ToUnit ==
  ASSUME NEW o, NEW f, NEW l, NEW d, Placed(o, f, l, d), f # <<>>
  PROVE  Placed(o, Tail(f), [l EXCEPT ![CoreOf[Head(f)]] = Append(@, Head(f))], d)
<1>1. f \in Seq(Resp) /\ Once(f) /\ l \in [Cid -> Seq(Resp)]
  BY DEF Placed, PortTypes, Apart
<1>2. PICK t, m : t = Tail(f) /\ m = Head(f)
  OBVIOUS
<1>3. /\ t \in Seq(Resp) /\ m \in Resp /\ m \in Held(f) /\ Held(f) = Held(t) \union {m}
      /\ Once(t) /\ m \notin Held(t)
  BY <1>1, <1>2, TailTakes
<1>4. PICK c \in Cid : c = CoreOf[m]
  BY <1>3, PortsAssumption
<1>5. PICK q : q = Append(l[c], m)
  OBVIOUS
<1>6. m \notin Held(l[c]) /\ Once(l[c])
  BY <1>3 DEF Placed, Apart
<1>7. q \in Seq(Resp) /\ Held(q) = Held(l[c]) \union {m} /\ Once(q)
  BY <1>1, <1>3, <1>5, <1>6, AppendAdds
<1>8. PICK k : k = [l EXCEPT ![c] = q]
  OBVIOUS
<1>9. k \in [Cid -> Seq(Resp)] /\ k[c] = q /\ \A e \in Cid \ {c} : k[e] = l[e]
  BY <1>1, <1>7, <1>8
<1>10. PortTypes(o, t, k, d)
  BY <1>3, <1>9 DEF Placed, PortTypes
<1>11. AtHome(k)
  BY <1>4, <1>7, <1>9 DEF Placed, AtHome
<1>12. Apart(o, t, k, d)
  <2>1. ASSUME NEW e \in Cid \ {c} PROVE m \notin Held(l[e])
    BY <1>3 DEF Placed, Apart
  <2>2. ASSUME NEW e \in Cid
        PROVE  Held(k[e]) \intersect (o \union d \union Held(t)) = {} /\ Once(k[e])
    BY <1>3, <1>7, <1>9 DEF Placed, Apart
  <2>. QED
    BY <1>3, <2>2 DEF Placed, Apart
<1>13. Somewhere(o, t, k, d)
  <2>1. ASSUME NEW n \in Resp PROVE n \in o \union d \union Held(t) \union Held(k[CoreOf[n]])
    <3>1. CoreOf[n] \in Cid
      BY PortsAssumption
    <3>2. Held(l[CoreOf[n]]) \subseteq Held(k[CoreOf[n]])
      BY <1>7, <1>9, <3>1
    <3>3. n = m => n \in Held(k[CoreOf[n]])
      BY <1>4, <1>7, <1>9
    <3>. QED
      BY <1>3, <3>2, <3>3 DEF Placed, Somewhere
  <2>. QED
    BY <2>1 DEF Somewhere
<1>14. k = [l EXCEPT ![CoreOf[Head(f)]] = Append(@, Head(f))]
  BY <1>1, <1>2, <1>4, <1>5, <1>8
<1>. QED
  BY <1>2, <1>10, <1>11, <1>12, <1>13, <1>14 DEF Placed

(* A load/store unit takes its front. *)
LEMMA ToDone ==
  ASSUME NEW o, NEW f, NEW l, NEW d, Placed(o, f, l, d), NEW c \in Cid, l[c] # <<>>
  PROVE  Placed(o, f, [l EXCEPT ![c] = Tail(@)], d \union {Head(l[c])})
<1>1. l \in [Cid -> Seq(Resp)] /\ l[c] \in Seq(Resp) /\ Once(l[c])
  BY DEF Placed, PortTypes, Apart
<1>2. PICK t, m : t = Tail(l[c]) /\ m = Head(l[c])
  OBVIOUS
<1>3. /\ t \in Seq(Resp) /\ m \in Resp /\ m \in Held(l[c]) /\ Held(l[c]) = Held(t) \union {m}
      /\ Once(t) /\ m \notin Held(t)
  BY <1>1, <1>2, TailTakes
<1>4. PICK k : k = [l EXCEPT ![c] = t]
  OBVIOUS
<1>5. k \in [Cid -> Seq(Resp)] /\ k[c] = t /\ \A e \in Cid \ {c} : k[e] = l[e]
  BY <1>1, <1>3, <1>4
<1>6. CoreOf[m] = c /\ m \notin o \union d \union Held(f)
  BY <1>3 DEF Placed, AtHome, Apart
<1>7. ASSUME NEW e \in Cid PROVE Held(k[e]) \subseteq Held(l[e])
  BY <1>3, <1>5
<1>8. PICK b : b = d \union {m}
  OBVIOUS
<1>9. PortTypes(o, f, k, b) /\ AtHome(k)
  BY <1>3, <1>5, <1>7, <1>8 DEF Placed, PortTypes, AtHome
<1>10. Apart(o, f, k, b)
  <2>1. ASSUME NEW e \in Cid
        PROVE  Held(k[e]) \intersect (o \union b \union Held(f)) = {} /\ Once(k[e])
    <3>1. m \notin Held(k[e])
      BY <1>3, <1>5, <1>6 DEF Placed, AtHome
    <3>. QED
      BY <1>3, <1>5, <1>7, <1>8, <3>1 DEF Placed, Apart
  <2>. QED
    BY <1>6, <1>8, <2>1 DEF Placed, Apart
<1>11. Somewhere(o, f, k, b)
  <2>1. ASSUME NEW n \in Resp PROVE n \in o \union b \union Held(f) \union Held(k[CoreOf[n]])
    <3>1. CoreOf[n] \in Cid
      BY PortsAssumption
    <3>2. Held(l[CoreOf[n]]) \subseteq Held(k[CoreOf[n]]) \union {m}
      BY <1>3, <1>5, <3>1
    <3>. QED
      BY <1>8, <3>2 DEF Placed, Somewhere
  <2>. QED
    BY <2>1 DEF Somewhere
<1>12. k = [l EXCEPT ![c] = Tail(@)]
  BY <1>1, <1>2, <1>4
<1>. QED
  BY <1>2, <1>8, <1>9, <1>10, <1>11, <1>12 DEF Placed

(* The bound on a FIFO that only HIST may push past. *)
Within(q) == Cardinality(Limited(q)) <= EjectionSize

(* The front moves on, or stays; the FIFO then keeps its bound. *)
LEMMA RestPlaced ==
  ASSUME PortInv, icnt_cycle
  PROVE  Placed(out, Rest, ldst', done') /\ Within(Rest)
<1>1. fifo \in Seq(Resp) /\ ldst \in [Cid -> Seq(Resp)] /\ Placed(out, fifo, ldst, done)
  BY DEF PortInv, Placed, PortTypes
<1>2. Within(fifo)
  BY DEF PortInv, Limits, Within, Limited
<1>3. CASE fifo = <<>> \/ ~Accepts(Head(fifo))
  BY <1>1, <1>2, <1>3 DEF icnt_cycle, Accepted, Rest
<1>4. CASE fifo # <<>> /\ Accepts(Head(fifo))
  <2>1. Rest = Tail(fifo)
    BY <1>4 DEF Rest
  <2>2. PICK n, k \in Nat : n = Cardinality(Limited(Tail(fifo))) /\ k = Cardinality(Limited(fifo))
    BY <1>1, <1>4, LimitedCounts, TailTakes
  <2>3. n <= k /\ k <= EjectionSize /\ EjectionSize \in Nat
    BY <1>1, <1>2, <1>4, <2>2, TailLimited, PortsAssumption DEF Within
  <2>4. Within(Rest)
    BY <2>1, <2>2, <2>3 DEF Within
  <2>5. \/ done' = done \union {Head(fifo)} /\ ldst' = ldst
        \/ /\ ldst' = [ldst EXCEPT ![CoreOf[Head(fifo)]] = Append(@, Head(fifo))]
           /\ done' = done
    BY <1>4 DEF icnt_cycle, Accepted
  <2>. QED
    BY <1>1, <1>4, <2>1, <2>4, <2>5, ToCache, ToUnit
<1>. QED
  BY <1>3, <1>4

(* The load/store units never have more than they have room for.           *)
LEMMA UnitsWithin ==
  ASSUME PortInv, icnt_cycle, NEW c \in Cid
  PROVE  Len(ldst'[c]) <= ResponseSize
<1>1. /\ fifo \in Seq(Resp) /\ ldst \in [Cid -> Seq(Resp)]
      /\ Len(ldst[c]) <= ResponseSize /\ ResponseSize \in Nat
  BY PortsAssumption DEF PortInv, Placed, PortTypes, Limits
<1>2. CASE ldst' = ldst
  BY <1>1, <1>2
<1>3. CASE ldst' # ldst
  <2>1. PICK m : m = Head(fifo)
    OBVIOUS
  <2>2. /\ fifo # <<>> /\ Accepts(m) /\ Kind[m] # "inst"
        /\ ldst' = [ldst EXCEPT ![CoreOf[m]] = Append(@, m)]
    BY <1>3, <2>1 DEF icnt_cycle, Accepted
  <2>3. m \in Resp /\ CoreOf[m] \in Cid /\ Len(ldst[CoreOf[m]]) < ResponseSize
    BY <1>1, <2>1, <2>2, PortsAssumption DEF Accepts
  <2>4. CASE c = CoreOf[m]
    <3>1. PICK q \in Seq(Resp) : q = ldst[c]
      BY <1>1
    <3>2. ldst'[c] = Append(q, m)
      BY <1>1, <2>2, <2>4, <3>1
    <3>3. PICK k \in Nat : k = Len(q) /\ k < ResponseSize
      BY <2>3, <2>4, <3>1
    <3>4. Len(Append(q, m)) = k + 1
      BY <2>3, <3>1, <3>3
    <3>. QED
      BY <1>1, <3>2, <3>3, <3>4
  <2>5. CASE c # CoreOf[m]
    BY <1>1, <2>2, <2>5
  <2>. QED
    BY <2>4, <2>5
<1>. QED
  BY <1>2, <1>3

(* A FIFO that is not full may take one more. *)
LEMMA AppendWithin ==
  ASSUME NEW q \in Seq(Resp), NEW m \in Resp, ~ejection_buffer_full(q)
  PROVE  Within(Append(q, m))
<1>1. PICK L \in Nat : L = Len(q) /\ L < EjectionSize
  BY PortsAssumption DEF ejection_buffer_full
<1>2. PICK t \in Seq(Resp) : t = Append(q, m) /\ Len(t) = L + 1
  BY <1>1, AppendAdds
<1>3. PICK n \in Nat : n = Cardinality(Limited(t)) /\ n <= L + 1
  BY <1>2, LimitedCounts
<1>. QED
  BY <1>1, <1>2, <1>3, PortsAssumption DEF Within

(* Every step keeps the places and the limits. *)
LEMMA PortStep ==
  ASSUME PortInv, [PortsNext]_portVars
  PROVE  PortInv'
<1>0. /\ Placed(out, fifo, ldst, done) /\ Within(fifo)
      /\ \A c \in Cid : Len(ldst[c]) <= ResponseSize
  BY DEF PortInv, Limits, Within, Limited
<1>1. ASSUME Placed(out', fifo', ldst', done'), Within(fifo'),
             \A c \in Cid : Len(ldst'[c]) <= ResponseSize
      PROVE  PortInv'
  BY <1>1 DEF PortInv, Placed, PortTypes, AtHome, Apart, Somewhere, Limits, Within, Limited, Held,
       Once
<1>2. CASE icnt_cycle
  <2>1. Placed(out, Rest, ldst', done') /\ Within(Rest) /\ Rest \in Seq(Resp)
    BY <1>2, RestPlaced DEF Placed, PortTypes
  <2>2. \A c \in Cid : Len(ldst'[c]) <= ResponseSize
    BY <1>2, UnitsWithin
  <2>3. CASE fifo' = Rest /\ UNCHANGED out
    BY <1>1, <2>1, <2>2, <2>3
  <2>4. CASE \E m \in Popped : fifo' = Append(Rest, m) /\ out' = out \ {m}
    <3>1. PICK m \in Popped : fifo' = Append(Rest, m) /\ out' = out \ {m}
      BY <2>4
    <3>2. m \in out /\ m \in Resp /\ ~ejection_buffer_full(Rest)
      BY <1>0 DEF Popped, Placed, PortTypes
    <3>3. Placed(out', fifo', ldst', done')
      BY <2>1, <3>1, <3>2, Arrives
    <3>4. Within(fifo')
      BY <2>1, <3>1, <3>2, AppendWithin
    <3>. QED
      BY <1>1, <2>2, <3>3, <3>4
  <2>. QED
    BY <1>2, <2>3, <2>4 DEF icnt_cycle
<1>3. ASSUME NEW m \in Resp, fill_respond_queue(m) PROVE PortInv'
  <2>1. /\ m \in out /\ From[m] = "hist" /\ fifo' = Append(fifo, m) /\ out' = out \ {m}
        /\ ldst' = ldst /\ done' = done
    BY <1>3 DEF fill_respond_queue
  <2>2. Placed(out', fifo', ldst', done')
    BY <1>0, <2>1, Arrives
  <2>3. Within(fifo')
    BY <1>0, <2>1, HistLimited DEF Within, Placed, PortTypes
  <2>. QED
    BY <1>0, <1>1, <2>1, <2>2, <2>3
<1>4. ASSUME NEW m \in Resp, PerfectPush(m) PROVE PortInv'
  <2>1. /\ m \in out /\ ~ejection_buffer_full(fifo)
        /\ fifo' = Append(fifo, m) /\ out' = out \ {m} /\ ldst' = ldst /\ done' = done
    BY <1>4 DEF PerfectPush
  <2>2. Placed(out', fifo', ldst', done')
    BY <1>0, <2>1, Arrives
  <2>3. Within(fifo')
    BY <1>0, <2>1, AppendWithin DEF Placed, PortTypes
  <2>. QED
    BY <1>0, <1>1, <2>1, <2>2, <2>3
<1>5. ASSUME NEW c \in Cid, LdstTakes(c) PROVE PortInv'
  <2>1. /\ ldst[c] # <<>> /\ done' = done \union {Head(ldst[c])}
        /\ ldst' = [ldst EXCEPT ![c] = Tail(@)] /\ out' = out /\ fifo' = fifo
    BY <1>5 DEF LdstTakes
  <2>2. Placed(out', fifo', ldst', done')
    BY <1>0, <2>1, ToDone
  <2>3. ldst \in [Cid -> Seq(Resp)]
    BY <1>0 DEF Placed, PortTypes
  <2>4. ASSUME NEW e \in Cid PROVE Len(ldst'[e]) <= ResponseSize
    <3>1. CASE e = c
      <4>1. PICK q \in Seq(Resp) : q = ldst[c] /\ q # <<>>
        BY <2>1, <2>3
      <4>2. PICK n, k \in Nat : n = Len(Tail(q)) /\ k = Len(q) /\ n = k - 1
        <5>1. Tail(q) \in Seq(Resp) /\ Len(Tail(q)) = Len(q) - 1
          BY <4>1, TailTakes
        <5>2. Len(Tail(q)) \in Nat /\ Len(q) \in Nat
          BY <4>1, <5>1
        <5>. QED
          BY <5>1, <5>2
      <4>3. ldst'[e] = Tail(q)
        BY <2>1, <2>3, <3>1, <4>1
      <4>4. k <= ResponseSize /\ ResponseSize \in Nat
        BY <1>0, <4>1, <4>2, PortsAssumption
      <4>. QED
        BY <4>2, <4>3, <4>4
    <3>2. CASE e # c
      BY <1>0, <2>1, <2>3, <3>2
    <3>. QED
      BY <3>1, <3>2
  <2>. QED
    BY <1>0, <1>1, <2>1, <2>2, <2>4
<1>6. CASE UNCHANGED portVars
  BY <1>0, <1>1, <1>6 DEF portVars
<1>. QED
  BY <1>2, <1>3, <1>4, <1>5, <1>6 DEF PortsNext

(* All answers are out at first. *)
LEMMA PortsBegin == PortsInit => PortInv
<1> SUFFICES ASSUME PortsInit PROVE PortInv
  OBVIOUS
<1>1. \A c \in Cid : ldst[c] = <<>>
  BY DEF PortsInit
<1>2. Held(<<>>) = {} /\ Once(<<>>) /\ Limited(<<>>) = {}
  BY DEF Held, Once, Limited
<1>3. Placed(out, fifo, ldst, done)
  BY <1>1, <1>2 DEF PortsInit, Placed, PortTypes, AtHome, Apart, Somewhere
<1>4. Cardinality(Limited(fifo)) = 0
  BY <1>2, FS_EmptySet DEF PortsInit
<1>. QED
  BY <1>1, <1>3, <1>4, PortsAssumption DEF PortsInit, PortInv, Limits, Limited

(* What is once in a FIFO has one place there. *)
LEMMA PlacesOfOne ==
  ASSUME NEW q \in Seq(Resp), Once(q), NEW m
  PROVE  Cardinality({n \in DOMAIN q : q[n] = m}) = IF m \in Held(q) THEN 1 ELSE 0
<1>1. CASE m \in Held(q)
  <2>1. PICK n \in DOMAIN q : q[n] = m
    BY <1>1 DEF Held
  <2>2. {k \in DOMAIN q : q[k] = m} = {n}
    BY <2>1 DEF Once
  <2>. QED
    BY <1>1, <2>2, FS_Singleton
<1>2. CASE m \notin Held(q)
  <2>1. {k \in DOMAIN q : q[k] = m} = {}
    BY <1>2 DEF Held
  <2>. QED
    BY <1>2, <2>1, FS_EmptySet
<1>. QED
  BY <1>1, <1>2

(* The counts of OnePlace, from the sets. *)
LEMMA PortInvHolds == PortInv => PortsHold
<1> SUFFICES ASSUME PortInv PROVE PortsHold
  OBVIOUS
<1>1. ASSUME NEW m \in Resp
      PROVE  \E k \in 1 .. 4 : Places(m) = [n \in 1 .. 4 |-> IF n = k THEN 1 ELSE 0]
  <2>1. CoreOf[m] \in Cid
    BY PortsAssumption
  <2>2. PICK q : q = ldst[CoreOf[m]]
    OBVIOUS
  <2>3. /\ fifo \in Seq(Resp) /\ q \in Seq(Resp) /\ Once(fifo) /\ Once(q)
        /\ m \in out \union done \union Held(fifo) \union Held(q)
        /\ out \intersect done = {} /\ Held(fifo) \intersect (out \union done) = {}
        /\ Held(q) \intersect (out \union done \union Held(fifo)) = {}
    BY <2>1, <2>2 DEF PortInv, Placed, PortTypes, Apart, Somewhere
  <2>4. Places(m) = <<IF m \in out THEN 1 ELSE 0, IF m \in done THEN 1 ELSE 0,
                      IF m \in Held(fifo) THEN 1 ELSE 0, IF m \in Held(q) THEN 1 ELSE 0>>
    <3>1. /\ Cardinality({n \in DOMAIN fifo : fifo[n] = m}) = IF m \in Held(fifo) THEN 1 ELSE 0
          /\ Cardinality({n \in DOMAIN q : q[n] = m}) = IF m \in Held(q) THEN 1 ELSE 0
      BY <2>3, PlacesOfOne
    <3>. QED
      BY <2>2, <3>1 DEF Places
  <2>5. PICK k \in 1 .. 4 : k = IF m \in out THEN 1 ELSE IF m \in done THEN 2
                                ELSE IF m \in Held(fifo) THEN 3 ELSE 4
    OBVIOUS
  <2>6. /\ (m \in out <=> k = 1) /\ (m \in done <=> k = 2)
        /\ (m \in Held(fifo) <=> k = 3) /\ (m \in Held(q) <=> k = 4)
    BY <2>3, <2>5
  <2>7. Places(m) = [n \in 1 .. 4 |-> IF n = k THEN 1 ELSE 0]
    BY <2>4, <2>6
  <2>. QED
    BY <2>7
<1>. QED
  BY <1>1 DEF PortsHold, OnePlace, PortInv

(* No answer is lost or delivered twice, and each buffer keeps its limit,  *)
(* in icnt_cycle, fill_respond_queue and the cycle of the load/store unit. *)
THEOREM PortsAlwaysHold == PortsSpec => []PortsHold
<1>1. PortInv /\ [PortsNext]_portVars => PortInv'
  BY PortStep
<1>. QED
  BY <1>1, PortsBegin, PortInvHolds, PTL DEF PortsSpec

-----------------------------------------------------------------------------
(* Induction on numbers, and the searches of CtaIssue.                     *)

(* A set of numbers has a least one: the intervals up to its members are   *)
(* finite sets, among which inclusion is well founded.                     *)
LEMMA LeastNat ==
  ASSUME NEW T \in SUBSET Nat, T # {}
  PROVE  \E m \in T : \A n \in T : m <= n
<1>1. PICK A : A = {0 .. n : n \in T}
  OBVIOUS
<1>2. A \subseteq FiniteSubsetsOf(Nat) /\ A # {}
  <2>1. ASSUME NEW n \in T PROVE 0 .. n \in FiniteSubsetsOf(Nat)
    BY FS_Interval, 0 \in Int, n \in Int, 0 .. n \subseteq Nat DEF FiniteSubsetsOf
  <2>. QED
    BY <1>1, <2>1
<1>3. PICK X \in A : \A Y \in A : ~(<<Y, X>> \in StrictSubsetOrdering(Nat))
  BY <1>2, WFMin, FS_StrictSubsetOrderingWellFounded
<1>4. PICK m \in T : X = 0 .. m
  BY <1>1
<1>5. ASSUME NEW n \in T, n < m PROVE FALSE
  <2>1. 0 .. n \in A
    BY <1>1
  <2>2. 0 .. n \subseteq 0 .. m /\ m \in 0 .. m /\ m \notin 0 .. n
    BY <1>5
  <2>3. 0 .. n \in SUBSET Nat /\ 0 .. m \in SUBSET Nat /\ 0 .. n # 0 .. m
    BY <2>2
  <2>4. <<0 .. n, 0 .. m>> \in StrictSubsetOrdering(Nat)
    BY <2>2, <2>3 DEF StrictSubsetOrdering
  <2>. QED
    BY <1>3, <1>4, <2>1, <2>4
<1>. QED
  BY <1>5

(* What holds of 0 and of the number after each of which it holds.         *)
LEMMA NatInd ==
  ASSUME NEW T \in SUBSET Nat, 0 \in T, \A n \in T : n + 1 \in T
  PROVE  T = Nat
<1> SUFFICES ASSUME T # Nat PROVE FALSE
  OBVIOUS
<1>1. PICK m \in Nat \ T : \A n \in Nat \ T : m <= n
  <2>1. Nat \ T \in SUBSET Nat /\ Nat \ T # {}
    OBVIOUS
  <2>. QED
    BY <2>1, LeastNat
<1>2. m - 1 \in Nat
  BY <1>1
<1>. QED
  BY <1>1, <1>2

(* The search that goes round finds what there is.                         *)
LEMMA FirstAfterPasses ==
  ASSUME NEW n \in Nat \ {0}, NEW last \in 0 .. n - 1, NEW passes \in SUBSET (0 .. n - 1),
         passes # {}
  PROVE  FirstAfter(last, n, passes) \in passes
<1>1. PICK hits : hits = {i \in 0 .. n - 1 : (last + 1 + i) % n \in passes}
  OBVIOUS
<1>2. PICK j \in 0 .. n - 1 : j \in passes
  OBVIOUS
<1>3. \E i \in 0 .. n - 1 : (last + 1 + i) % n = j
  <2>1. CASE j > last
    <3>1. PICK i \in 0 .. n - 1 : i = j - last - 1
      BY <2>1
    <3>2. last + 1 + i = j /\ j % n = j
      BY <3>1
    <3>. QED
      BY <3>2
  <2>2. CASE ~(j > last)
    <3>1. PICK i \in 0 .. n - 1 : i = j - last - 1 + n
      BY <2>2
    <3>2. last + 1 + i = j + n /\ (j + n) % n = j
      BY <3>1
    <3>. QED
      BY <3>2
  <2>. QED
    BY <2>1, <2>2
<1>4. hits # {} /\ hits \in SUBSET Nat
  <2>1. PICK i \in 0 .. n - 1 : (last + 1 + i) % n = j
    BY <1>3
  <2>2. i \in hits
    BY <1>1, <1>2, <2>1
  <2>3. \A l \in hits : l \in Nat
    BY <1>1
  <2>. QED
    BY <2>2, <2>3
<1>5. PICK i : i = CHOOSE m \in hits : \A k \in hits : m <= k
  OBVIOUS
<1>6. i \in hits
  BY <1>4, <1>5, LeastNat
<1>7. FirstAfter(last, n, passes) = (last + 1 + i) % n
  BY <1>1, <1>5 DEF FirstAfter
<1>. QED
  BY <1>1, <1>6, <1>7

(* The cores are finitely many. *)
LEMMA CoresFinite == IsFiniteSet(Core)
<1>1. 0 \in Int /\ NCluster - 1 \in Int /\ NCore - 1 \in Int
  BY IssueAssumption
<1>2. IsFiniteSet(Cluster) /\ IsFiniteSet(CoreNo)
  BY <1>1, FS_Interval DEF Cluster, CoreNo
<1>. QED
  BY <1>2, FS_Product DEF Core

(* A core has contexts for the CTAs of any kernel. *)
LEMMA ContextsSuffice ==
  /\ Contexts \in SUBSET Nat /\ IsFiniteSet(Contexts)
  /\ \A k \in Kernel : MaxCta[k] <= Cardinality(Contexts)
<1>1. PICK S : S = {MaxCta[k] : k \in Kernel}
  OBVIOUS
<1>2. PICK n : n = CHOOSE m \in S : \A k \in Kernel : MaxCta[k] <= m
  OBVIOUS
<1>3. n \in S /\ \A k \in Kernel : MaxCta[k] <= n
  BY <1>1, <1>2, IssueAssumption
<1>4. n \in Nat \ {0}
  BY <1>1, <1>3, IssueAssumption
<1>5. Contexts = 0 .. n - 1
  BY <1>1, <1>2 DEF Contexts
<1>6. 0 \in Int /\ n - 1 \in Int
  BY <1>4
<1>7. IsFiniteSet(0 .. n - 1) /\ Cardinality(0 .. n - 1) = n
  BY <1>4, <1>6, FS_Interval
<1>. QED
  BY <1>3, <1>4, <1>5, <1>7

-----------------------------------------------------------------------------
(* CtaIssue.                                                               *)

CoresOf(kern, k) == {c \in Core : kern[c] = k}

(* What issue_block2core reads and writes, as its loop carries it along.   *)
State ==
  [running |-> running, lastKernel |-> lastKernel, lastCluster |-> lastCluster,
   nextCore |-> nextCore, kernel |-> kernel, status |-> status, issued |-> issued,
   users |-> users]

IssueTypes(g) ==
  /\ g = [running |-> g.running, lastKernel |-> g.lastKernel, lastCluster |-> g.lastCluster,
          nextCore |-> g.nextCore, kernel |-> g.kernel, status |-> g.status,
          issued |-> g.issued, users |-> g.users]
  /\ g.running \in [Slot -> Kernel \union {None}]
  /\ g.lastKernel \in Slot /\ g.lastCluster \in Cluster /\ g.nextCore \in [Cluster -> CoreNo]
  /\ g.kernel \in [Core -> Kernel \union {None}]
  /\ g.status \in [Core -> [Contexts -> Nat]]
  /\ g.issued \in [Kernel -> Nat] /\ g.users \in [Kernel -> Nat]
  /\ \A k \in Kernel : g.issued[k] <= NCta[k]

(* A core counts warps of its own kernel.                                  *)
OwnWarps(g) ==
  \A c \in Core, x \in Contexts :
    g.status[c][x] > 0 => g.kernel[c] # None /\ g.status[c][x] <= NWarp[g.kernel[c]]

Users(g) == \A k \in Kernel : g.users[k] = Cardinality(CoresOf(g.kernel, k))

(* A core has a kernel as long as it has a CTA of it, and no more of them  *)
(* than fit.                                                               *)
Busy(g, c) ==
  /\ g.kernel[c] = None <=> ActiveCtas(g.status, c) = {}
  /\ g.kernel[c] # None => Cardinality(ActiveCtas(g.status, c)) <= MaxCta[g.kernel[c]]

(* The kernels of E have ended: nothing of them is left to issue or run.   *)
Over(g, E) ==
  \A k \in E : /\ NoMoreCtas(g.issued, k)
               /\ \A c \in Core : g.kernel[c] # k
               /\ \A n \in Slot : g.running[n] # k

IssueOK(g, E) ==
  /\ IssueTypes(g) /\ OwnWarps(g) /\ Users(g) /\ Over(g, E)
  /\ \A c \in Core : Busy(g, c)

(* A core that has room takes a CTA of its kernel; it may have been given  *)
(* the kernel just now.                                                    *)
LEMMA IssueToKeeps ==
  ASSUME NEW g, NEW E \in SUBSET Kernel, IssueTypes(g), OwnWarps(g), Users(g), Over(g, E),
         NEW c \in Core, \A e \in Core \ {c} : Busy(g, e),
         NEW k \in Kernel, g.kernel[c] = k, ~NoMoreCtas(g.issued, k),
         Cardinality(ActiveCtas(g.status, c)) < MaxCta[k]
  PROVE  IssueOK(IssueTo(g, c, k), E) /\ IssueTo(g, c, k).running = g.running
<1>1. PICK x : x = FreeContext(g, c)
  OBVIOUS
<1>2. PICK s : s = g.status[c]
  OBVIOUS
<1>3. s \in [Contexts -> Nat] /\ c[1] \in Cluster /\ c[2] \in CoreNo
  BY <1>2 DEF IssueTypes, Core
<1>4. PICK A : A = ActiveCtas(g.status, c)
  OBVIOUS
<1>5. A = {y \in Contexts : s[y] > 0}
  BY <1>2, <1>3, <1>4 DEF ActiveCtas
<1>6. IsFiniteSet(A) /\ Cardinality(A) \in Nat
  <2>1. A \in SUBSET Contexts
    BY <1>5
  <2>. QED
    BY <2>1, ContextsSuffice, FS_Subset, FS_CardinalityType
<1>7. x \in Contexts /\ s[x] = 0
  <2>1. PICK Z : Z = {y \in Contexts : s[y] = 0}
    OBVIOUS
  <2>2. Z # {}
    <3>1. SUFFICES ASSUME Z = {} PROVE FALSE
      OBVIOUS
    <3>2. \A y \in Contexts : s[y] > 0
      BY <1>3, <2>1, <3>1
    <3>3. A = Contexts
      BY <1>5, <3>2
    <3>4. MaxCta[k] <= Cardinality(A) /\ MaxCta[k] \in Nat
      BY <3>3, ContextsSuffice, IssueAssumption
    <3>. QED
      BY <1>4, <1>6, <3>4
  <2>3. PICK z \in Z : \A y \in Z : z <= y
    BY <2>1, <2>2, ContextsSuffice, LeastNat
  <2>4. z \in Contexts /\ s[z] = 0 /\ \A y \in Contexts : s[y] = 0 => z <= y
    BY <2>1, <2>3
  <2>5. x = CHOOSE w \in Contexts : s[w] = 0 /\ \A y \in Contexts : s[y] = 0 => w <= y
    BY <1>1, <1>2 DEF FreeContext
  <2>. QED
    BY <2>4, <2>5
<1>8. PICK t : t = [s EXCEPT ![x] = NWarp[k]]
  OBVIOUS
<1>9. PICK w \in Nat \ {0} : w = NWarp[k]
  BY IssueAssumption
<1>10. t \in [Contexts -> Nat] /\ t[x] = w /\ \A y \in Contexts \ {x} : t[y] = s[y]
  BY <1>3, <1>7, <1>8, <1>9
<1>11. PICK u : u = IssueTo(g, c, k)
  OBVIOUS
<1>12. /\ u = [running |-> u.running, lastKernel |-> u.lastKernel, lastCluster |-> u.lastCluster,
               nextCore |-> u.nextCore, kernel |-> u.kernel, status |-> u.status,
               issued |-> u.issued, users |-> u.users]
       /\ u.running = g.running /\ u.lastKernel = g.lastKernel /\ u.lastCluster = c[1]
       /\ u.nextCore = [g.nextCore EXCEPT ![c[1]] = c[2]]
       /\ u.kernel = g.kernel /\ u.users = g.users
       /\ u.status = [g.status EXCEPT ![c] = t]
       /\ u.issued = [g.issued EXCEPT ![k] = @ + 1]
  BY <1>1, <1>2, <1>8, <1>11 DEF IssueTypes, IssueTo
<1>13. u.status \in [Core -> [Contexts -> Nat]] /\ u.status[c] = t
       /\ \A e \in Core \ {c} : u.status[e] = g.status[e]
  BY <1>10, <1>12 DEF IssueTypes
<1>14. PICK n, m \in Nat : n = g.issued[k] /\ m = NCta[k] /\ n < m
  <2>1. PICK n, m \in Nat : n = g.issued[k] /\ m = NCta[k]
    BY IssueAssumption DEF IssueTypes
  <2>2. n <= m
    BY <2>1 DEF IssueTypes
  <2>3. n # m
    BY <2>1 DEF NoMoreCtas
  <2>. QED
    BY <2>1, <2>2, <2>3
<1>15. u.issued \in [Kernel -> Nat] /\ u.issued[k] = n + 1
       /\ \A j \in Kernel \ {k} : u.issued[j] = g.issued[j]
  BY <1>12, <1>14 DEF IssueTypes
<1>16. IssueTypes(u)
  <2>1. u.nextCore \in [Cluster -> CoreNo] /\ u.lastCluster \in Cluster
    BY <1>3, <1>12 DEF IssueTypes
  <2>2. \A j \in Kernel : u.issued[j] <= NCta[j]
    BY <1>14, <1>15 DEF IssueTypes
  <2>. QED
    BY <1>12, <1>13, <1>15, <2>1, <2>2 DEF IssueTypes
<1>17. OwnWarps(u)
  <2>1. ASSUME NEW y \in Contexts, t[y] > 0 PROVE t[y] <= NWarp[k]
    BY <1>2, <1>9, <1>10, <2>1 DEF OwnWarps
  <2>2. None # k
    BY IssueAssumption
  <2>3. ASSUME NEW e \in Core, NEW y \in Contexts, u.status[e][y] > 0
        PROVE  u.kernel[e] # None /\ u.status[e][y] <= NWarp[u.kernel[e]]
    <3>1. CASE e = c
      BY <1>12, <1>13, <2>1, <2>2, <2>3, <3>1
    <3>2. CASE e # c
      BY <1>12, <1>13, <2>3, <3>2 DEF OwnWarps
    <3>. QED
      BY <3>1, <3>2
  <2>. QED
    BY <2>3 DEF OwnWarps
<1>18. Users(u)
  BY <1>12 DEF Users
<1>19. Over(u, E)
  <2>1. k \notin E
    BY DEF Over
  <2>. QED
    BY <1>12, <1>15, <2>1 DEF Over, NoMoreCtas
<1>20. ASSUME NEW e \in Core PROVE Busy(u, e)
  <2>1. CASE e # c
    <3>1. ActiveCtas(u.status, e) = ActiveCtas(g.status, e)
      BY <1>13, <2>1 DEF ActiveCtas
    <3>. QED
      BY <1>12, <2>1, <3>1 DEF Busy
  <2>2. CASE e = c
    <3>1. ActiveCtas(u.status, c) = {y \in Contexts : t[y] > 0}
      BY <1>10, <1>13 DEF ActiveCtas
    <3>2. {y \in Contexts : t[y] > 0} = A \union {x}
      BY <1>5, <1>7, <1>9, <1>10
    <3>3. PICK B : B = A \union {x}
      OBVIOUS
    <3>4. x \notin A
      BY <1>5, <1>7
    <3>5. Cardinality(B) = Cardinality(A) + 1
      BY <1>6, <3>3, <3>4, FS_AddElement
    <3>6. Cardinality(B) <= MaxCta[k]
      BY <1>4, <1>6, <3>5, IssueAssumption
    <3>7. B # {} /\ k # None
      BY <3>3, IssueAssumption
    <3>. QED
      BY <1>12, <2>2, <3>1, <3>2, <3>3, <3>6, <3>7 DEF Busy
  <2>. QED
    BY <2>1, <2>2
<1>. QED
  BY <1>11, <1>12, <1>16, <1>17, <1>18, <1>19, <1>20 DEF IssueOK

(* An idle core is given a kernel that has CTAs left, and counted.         *)
LEMMA BindKeeps ==
  ASSUME NEW g, NEW E \in SUBSET Kernel, IssueOK(g, E), NEW c \in Core, g.kernel[c] = None,
         NEW n \in Slot, NEW k \in Kernel, g.running[n] = k, ~NoMoreCtas(g.issued, k)
  PROVE  LET u == Bind(g, c, n)
         IN  /\ IssueTypes(u) /\ OwnWarps(u) /\ Users(u) /\ Over(u, E)
             /\ \A e \in Core \ {c} : Busy(u, e)
             /\ u.kernel[c] = k /\ u.issued = g.issued /\ u.status = g.status
             /\ u.running = g.running
<1>0. IssueTypes(g) /\ OwnWarps(g) /\ Users(g) /\ Over(g, E) /\ \A e \in Core : Busy(g, e)
  BY DEF IssueOK
<1>1. PICK u : u = Bind(g, c, n)
  OBVIOUS
<1>2. /\ u = [running |-> u.running, lastKernel |-> u.lastKernel, lastCluster |-> u.lastCluster,
              nextCore |-> u.nextCore, kernel |-> u.kernel, status |-> u.status,
              issued |-> u.issued, users |-> u.users]
      /\ u.running = g.running /\ u.lastKernel = n /\ u.lastCluster = g.lastCluster
      /\ u.nextCore = g.nextCore /\ u.status = g.status /\ u.issued = g.issued
      /\ u.kernel = [g.kernel EXCEPT ![c] = k]
      /\ u.users = [g.users EXCEPT ![k] = @ + 1]
  BY <1>0, <1>1 DEF IssueTypes, Bind
<1>3. /\ u.kernel \in [Core -> Kernel \union {None}] /\ u.kernel[c] = k
      /\ \A e \in Core \ {c} : u.kernel[e] = g.kernel[e]
  BY <1>0, <1>2 DEF IssueTypes
<1>4. /\ u.users \in [Kernel -> Nat] /\ u.users[k] = g.users[k] + 1
      /\ \A j \in Kernel \ {k} : u.users[j] = g.users[j]
  BY <1>0, <1>2 DEF IssueTypes
<1>5. IssueTypes(u)
  BY <1>0, <1>2, <1>3, <1>4 DEF IssueTypes
<1>6. OwnWarps(u)
  <2>1. ASSUME NEW x \in Contexts PROVE ~(u.status[c][x] > 0)
    BY <1>0, <1>2 DEF OwnWarps
  <2>2. ASSUME NEW e \in Core, NEW x \in Contexts, u.status[e][x] > 0
        PROVE  u.kernel[e] # None /\ u.status[e][x] <= NWarp[u.kernel[e]]
    <3>1. e # c
      BY <2>1, <2>2
    <3>. QED
      BY <1>0, <1>2, <1>3, <2>2, <3>1 DEF OwnWarps
  <2>. QED
    BY <2>2 DEF OwnWarps
<1>7. Users(u)
  <2>1. ASSUME NEW j \in Kernel PROVE u.users[j] = Cardinality(CoresOf(u.kernel, j))
    <3>1. PICK old : old = CoresOf(g.kernel, j)
      OBVIOUS
    <3>2. g.users[j] = Cardinality(old)
      BY <1>0, <3>1 DEF Users
    <3>3. CASE j # k
      <4>1. CoresOf(u.kernel, j) = old
        <5>1. None # j
          BY IssueAssumption
        <5>. QED
          BY <1>3, <3>1, <3>3, <5>1 DEF CoresOf
      <4>. QED
        BY <1>4, <3>2, <3>3, <4>1
    <3>4. CASE j = k
      <4>1. CoresOf(u.kernel, j) = old \union {c}
        BY <1>3, <3>1, <3>4 DEF CoresOf
      <4>2. c \notin old
        <5>1. None # j
          BY IssueAssumption
        <5>. QED
          BY <3>1, <5>1 DEF CoresOf
      <4>3. old \in SUBSET Core
        BY <3>1 DEF CoresOf
      <4>4. IsFiniteSet(old)
        BY <4>3, CoresFinite, FS_Subset
      <4>. QED
        <5>1. Cardinality(old \union {c}) = Cardinality(old) + 1
          BY <4>2, <4>4, FS_AddElement
        <5>. QED
          BY <1>4, <3>2, <3>4, <4>1, <5>1
    <3>. QED
      BY <3>3, <3>4
  <2>. QED
    BY <2>1 DEF Users
<1>8. Over(u, E)
  <2>1. k \notin E
    BY <1>0 DEF Over
  <2>2. \A j \in E, e \in Core : u.kernel[e] # j
    BY <1>0, <1>3, <2>1 DEF Over
  <2>. QED
    BY <1>0, <1>2, <2>2 DEF Over
<1>9. ASSUME NEW e \in Core \ {c} PROVE Busy(u, e)
  BY <1>0, <1>2, <1>3 DEF Busy
<1>. QED
  BY <1>1, <1>2, <1>3, <1>5, <1>6, <1>7, <1>8, <1>9

(* What one cluster does. *)
LEMMA ClusterIssueKeeps ==
  ASSUME NEW g, NEW E \in SUBSET Kernel, IssueOK(g, E), NEW l \in Cluster
  PROVE  IssueOK(ClusterIssue(g, l), E) /\ ClusterIssue(g, l).running = g.running
<1>0. IssueTypes(g) /\ OwnWarps(g) /\ Users(g) /\ Over(g, E) /\ \A e \in Core : Busy(g, e)
  BY DEF IssueOK
<1>1. PICK takers : takers = {i \in CoreNo : TakesOwn(g, <<l, i>>) \/ TakesNew(g, <<l, i>>)}
  OBVIOUS
<1>2. CASE takers = {}
  BY <1>1, <1>2 DEF ClusterIssue
<1>3. CASE takers # {}
  <2>1. PICK i : i = FirstAfter(g.nextCore[l], NCore, takers)
    OBVIOUS
  <2>2. i \in takers
    <3>1. NCore \in Nat \ {0} /\ g.nextCore[l] \in 0 .. NCore - 1
      BY <1>0, IssueAssumption DEF IssueTypes, CoreNo
    <3>2. takers \in SUBSET (0 .. NCore - 1)
      BY <1>1 DEF CoreNo
    <3>. QED
      BY <1>3, <2>1, <3>1, <3>2, FirstAfterPasses
  <2>3. PICK c \in Core : c = <<l, i>> /\ (TakesOwn(g, c) \/ TakesNew(g, c))
    BY <1>1, <2>2 DEF Core
  <2>4. PICK n : n = FirstAfter(g.lastKernel, NSlot, Selectable(g))
    OBVIOUS
  <2>5. PICK b : b = IF g.kernel[c] = None THEN Bind(g, c, n) ELSE g
    OBVIOUS
  <2>6. ClusterIssue(g, l) = IssueTo(b, c, b.kernel[c])
    BY <1>1, <1>3, <2>1, <2>3, <2>4, <2>5 DEF ClusterIssue
  <2>7. CASE TakesOwn(g, c)
    <3>1. PICK k \in Kernel : k = g.kernel[c]
      BY <1>0, <2>7 DEF TakesOwn, IssueTypes
    <3>2. /\ b = g /\ ~NoMoreCtas(g.issued, k)
          /\ Cardinality(ActiveCtas(g.status, c)) < MaxCta[k]
      BY <2>5, <2>7, <3>1 DEF TakesOwn
    <3>. QED
      BY <1>0, <2>6, <3>1, <3>2, IssueToKeeps
  <2>8. CASE TakesNew(g, c)
    <3>1. g.kernel[c] = None /\ ActiveCtas(g.status, c) = {} /\ Selectable(g) # {}
      BY <2>8 DEF TakesNew
    <3>2. n \in Selectable(g)
      <4>1. NSlot \in Nat \ {0} /\ g.lastKernel \in 0 .. NSlot - 1
        BY <1>0, IssueAssumption DEF IssueTypes, Slot
      <4>2. Selectable(g) \in SUBSET (0 .. NSlot - 1)
        BY DEF Selectable, Slot
      <4>. QED
        BY <2>4, <3>1, <4>1, <4>2, FirstAfterPasses
    <3>3. n \in Slot /\ g.running[n] # None /\ ~NoMoreCtas(g.issued, g.running[n])
      BY <3>2 DEF Selectable
    <3>4. PICK k \in Kernel : k = g.running[n]
      BY <1>0, <3>3 DEF IssueTypes
    <3>5. b = Bind(g, c, n)
      BY <2>5, <3>1
    <3>6. /\ IssueTypes(b) /\ OwnWarps(b) /\ Users(b) /\ Over(b, E)
          /\ \A e \in Core \ {c} : Busy(b, e)
          /\ b.kernel[c] = k /\ b.issued = g.issued /\ b.status = g.status
          /\ b.running = g.running
      BY <3>1, <3>3, <3>4, <3>5, BindKeeps
    <3>7. Cardinality(ActiveCtas(b.status, c)) < MaxCta[k]
      <4>1. ActiveCtas(b.status, c) = {}
        BY <3>1, <3>6
      <4>2. Cardinality({}) = 0 /\ MaxCta[k] \in Nat \ {0}
        BY FS_EmptySet, IssueAssumption
      <4>. QED
        BY <4>1, <4>2
    <3>8. ~NoMoreCtas(b.issued, k)
      BY <3>3, <3>4, <3>6
    <3>9. IssueOK(IssueTo(b, c, k), E) /\ IssueTo(b, c, k).running = b.running
      BY <3>6, <3>7, <3>8, IssueToKeeps
    <3>. QED
      BY <2>6, <3>6, <3>9
  <2>. QED
    BY <2>3, <2>7, <2>8
<1>. QED
  BY <1>2, <1>3

IsRound(after, before, last, K) ==
  after = [i \in 0 .. K |->
             IF i = 0 THEN {before}
             ELSE {ClusterIssue(g, (last + i) % NCluster) : g \in after[i - 1]}]

(* The recursive function of the loop over the clusters has the values that *)
(* it states.                                                              *)
LEMMA RoundExists ==
  ASSUME NEW before, NEW last, NEW K \in Nat
  PROVE  \E after : IsRound(after, before, last, K)
<1>1. PICK T : T = {k \in Nat : \E after : IsRound(after, before, last, k)}
  OBVIOUS
<1>2. 0 \in T
  <2>1. PICK after : after = [i \in 0 .. 0 |-> {before}]
    OBVIOUS
  <2>2. after = [i \in 0 .. 0 |->
                   IF i = 0 THEN {before}
                   ELSE {ClusterIssue(g, (last + i) % NCluster) : g \in after[i - 1]}]
    BY <2>1
  <2>3. IsRound(after, before, last, 0)
    BY <2>2 DEF IsRound
  <2>. QED
    BY <1>1, <2>3
<1>3. ASSUME NEW k \in T PROVE k + 1 \in T
  <2>0. PICK after : IsRound(after, before, last, k)
    BY <1>1
  <2>1. after = [i \in 0 .. k |->
                   IF i = 0 THEN {before}
                   ELSE {ClusterIssue(g, (last + i) % NCluster) : g \in after[i - 1]}]
    BY <2>0 DEF IsRound
  <2>2. k \in Nat
    BY <1>1
  <2>3. PICK l : l = (last + (k + 1)) % NCluster
    OBVIOUS
  <2>4. PICK next : next = {ClusterIssue(g, l) : g \in after[k]}
    OBVIOUS
  <2>5. PICK more : more = [i \in 0 .. k + 1 |-> IF i = k + 1 THEN next ELSE after[i]]
    OBVIOUS
  <2>6. ASSUME NEW i \in 0 .. k + 1
        PROVE  more[i] = IF i = 0 THEN {before}
                         ELSE {ClusterIssue(g, (last + i) % NCluster) : g \in more[i - 1]}
    <3>1. CASE i = 0
      <4>1. more[i] = after[0] /\ after[0] = {before}
        BY <2>1, <2>2, <2>5, <3>1
      <4>. QED
        BY <3>1, <4>1
    <3>2. CASE i \in 1 .. k
      <4>1. more[i] = after[i] /\ more[i - 1] = after[i - 1]
        BY <2>2, <2>5, <3>2
      <4>2. after[i] = {ClusterIssue(g, (last + i) % NCluster) : g \in after[i - 1]}
        BY <2>1, <2>2, <3>2
      <4>. QED
        BY <3>2, <4>1, <4>2
    <3>3. CASE i = k + 1
      <4>1. more[i] = next /\ more[i - 1] = after[k] /\ i # 0 /\ (last + i) % NCluster = l
        BY <2>2, <2>3, <2>5, <3>3
      <4>. QED
        BY <2>4, <4>1
    <3>. QED
      BY <2>2, <3>1, <3>2, <3>3
  <2>7. more = [i \in 0 .. k + 1 |->
                  IF i = 0 THEN {before}
                  ELSE {ClusterIssue(g, (last + i) % NCluster) : g \in more[i - 1]}]
    BY <2>5, <2>6
  <2>8. IsRound(more, before, last, k + 1)
    BY <2>7 DEF IsRound
  <2>. QED
    BY <1>1, <2>2, <2>8
<1>4. K \in T
  BY <1>1, <1>2, <1>3, NatInd
<1>. QED
  BY <1>1, <1>4

(* issue_block2core keeps what each cluster keeps. *)
LEMMA LoopKeeps ==
  ASSUME NEW E \in SUBSET Kernel, IssueOK(State, E), NEW g \in AfterIssue
  PROVE  IssueOK(g, E) /\ g.running = running
<1>1. PICK K \in Nat \ {0} : K = NCluster
  BY IssueAssumption
<1>2. PICK before : before = State
  OBVIOUS
<1>3. PICK last \in 0 .. K - 1 : last = lastCluster
  BY <1>1 DEF IssueOK, IssueTypes, State, Cluster
<1>4. PICK after : /\ IsRound(after, before, last, K) /\ AfterIssue = after[K]
  <2>1. PICK f : f = CHOOSE after :
                       after = [i \in 0 .. K |->
                         IF i = 0 THEN {before}
                         ELSE {ClusterIssue(h, (last + i) % NCluster) : h \in after[i - 1]}]
    OBVIOUS
  <2>2. \E after : IsRound(after, before, last, K)
    BY RoundExists
  <2>3. f = [i \in 0 .. K |->
               IF i = 0 THEN {before}
               ELSE {ClusterIssue(h, (last + i) % NCluster) : h \in f[i - 1]}]
    BY <2>1, <2>2 DEF IsRound
  <2>4. AfterIssue = f[K]
    BY <1>1, <1>2, <1>3, <2>1 DEF AfterIssue, State
  <2>. QED
    BY <2>3, <2>4 DEF IsRound
<1>5. after = [i \in 0 .. K |->
                 IF i = 0 THEN {before}
                 ELSE {ClusterIssue(h, (last + i) % NCluster) : h \in after[i - 1]}]
  BY <1>4 DEF IsRound
<1>6. PICK T : T = {n \in Nat : n <= K =>
                      \A u \in after[n] : IssueOK(u, E) /\ u.running = running}
  OBVIOUS
<1>7. 0 \in T
  <2>1. after[0] = {before}
    BY <1>5
  <2>2. before.running = running
    BY <1>2 DEF State
  <2>. QED
    BY <1>2, <1>6, <2>1, <2>2
<1>8. ASSUME NEW n \in T PROVE n + 1 \in T
  <2>1. n \in Nat
    BY <1>6
  <2>2. SUFFICES ASSUME n + 1 <= K, NEW u \in after[n + 1]
                 PROVE  IssueOK(u, E) /\ u.running = running
    BY <1>6, <2>1
  <2>3. PICK l \in Cluster : after[n + 1] = {ClusterIssue(h, l) : h \in after[n]}
    <3>1. PICK m \in 0 .. K : m = n + 1 /\ m # 0 /\ m - 1 = n
      BY <2>1, <2>2
    <3>2. after[m] = {ClusterIssue(h, (last + m) % NCluster) : h \in after[m - 1]}
      BY <1>5, <3>1
    <3>3. (last + m) % NCluster \in Cluster
      BY <1>1, <3>1 DEF Cluster
    <3>. QED
      BY <3>1, <3>2, <3>3
  <2>4. PICK v \in after[n] : u = ClusterIssue(v, l)
    BY <2>2, <2>3
  <2>5. IssueOK(v, E) /\ v.running = running
    BY <1>6, <2>1, <2>2, <2>4
  <2>. QED
    BY <2>4, <2>5, ClusterIssueKeeps
<1>9. K \in T
  BY <1>6, <1>7, <1>8, NatInd
<1>. QED
  BY <1>4, <1>6, <1>9

(* The kernels that have ended, each of them once. *)
Reports ==
  /\ finished \in Seq(Kernel) /\ reported \subseteq Kernel /\ IsFiniteSet(reported)
  /\ Once(finished) /\ Held(finished) \intersect reported = {}

Ended == reported \union Held(finished)

IssueInv == Reports /\ IssueOK(State, Ended)

(* Nothing is launched at first. *)
LEMMA IssueBegins == Init => IssueInv
<1> SUFFICES ASSUME Init PROVE IssueInv
  OBVIOUS
<1>1. Held(<<>>) = {} /\ Once(<<>>)
  BY DEF Held, Once
<1>2. Reports /\ Ended = {}
  BY <1>1, FS_EmptySet DEF Init, Reports, Ended
<1>3. NCluster \in Nat \ {0} /\ NCore \in Nat \ {0} /\ NSlot \in Nat \ {0}
  BY IssueAssumption
<1>4. IssueTypes(State)
  <2>1. \A k \in Kernel : 0 <= NCta[k]
    BY IssueAssumption
  <2>2. 0 \in Slot /\ 0 \in Cluster /\ NCore - 1 \in CoreNo
    BY <1>3 DEF Slot, Cluster, CoreNo
  <2>. QED
    BY <2>1, <2>2 DEF Init, IssueTypes, State
<1>5. OwnWarps(State)
  BY DEF Init, OwnWarps, State
<1>6. Users(State)
  <2>1. ASSUME NEW k \in Kernel PROVE CoresOf(kernel, k) = {}
    BY IssueAssumption DEF Init, CoresOf
  <2>. QED
    BY <2>1, FS_EmptySet DEF Init, Users, State
<1>7. ASSUME NEW c \in Core PROVE Busy(State, c)
  <2>1. ActiveCtas(status, c) = {}
    BY DEF Init, ActiveCtas
  <2>. QED
    BY <2>1 DEF Init, Busy, State
<1>8. Over(State, Ended)
  BY <1>2 DEF Over
<1>. QED
  BY <1>2, <1>4, <1>5, <1>6, <1>7, <1>8 DEF IssueInv, IssueOK

(* A kernel that is launched has not ended. *)
LEMMA LaunchKeeps ==
  ASSUME IssueInv, NEW k \in Kernel, Launch(k)
  PROVE  IssueInv'
<1>1. PICK n \in Slot : running' = [running EXCEPT ![n] = k]
  BY DEF Launch
<1>2. /\ UNCHANGED <<lastKernel, lastCluster, nextCore, kernel, status, issued, users>>
      /\ UNCHANGED <<finished, reported>>
  BY DEF Launch
<1>3. k \notin Ended
  <2>1. finished \in Seq(Kernel)
    BY DEF IssueInv, Reports
  <2>2. DOMAIN finished = 1 .. Len(finished)
    BY <2>1
  <2>. QED
    BY <2>2 DEF Launch, Launched, Ended, Held
<1>4. Reports' /\ Ended' = Ended
  BY <1>2 DEF IssueInv, Reports, Ended, Held, Once
<1>5. running \in [Slot -> Kernel \union {None}]
  BY DEF IssueInv, IssueOK, IssueTypes, State
<1>6. PICK s : s = State'
  OBVIOUS
<1>7. /\ s.running = [running EXCEPT ![n] = k] /\ s.lastKernel = lastKernel
      /\ s.lastCluster = lastCluster /\ s.nextCore = nextCore /\ s.kernel = kernel
      /\ s.status = status /\ s.issued = issued /\ s.users = users
      /\ s = [running |-> s.running, lastKernel |-> s.lastKernel,
              lastCluster |-> s.lastCluster, nextCore |-> s.nextCore, kernel |-> s.kernel,
              status |-> s.status, issued |-> s.issued, users |-> s.users]
  BY <1>1, <1>2, <1>6 DEF State
<1>8. s.running \in [Slot -> Kernel \union {None}]
      /\ \A m \in Slot : s.running[m] = k \/ s.running[m] = running[m]
  BY <1>5, <1>7
<1>9. IssueTypes(s) /\ OwnWarps(s) /\ Users(s) /\ \A c \in Core : Busy(s, c)
  BY <1>7, <1>8 DEF IssueInv, IssueOK, IssueTypes, OwnWarps, Users, Busy, State
<1>10. Over(s, Ended)
  BY <1>3, <1>7, <1>8 DEF IssueInv, IssueOK, Over, State
<1>11. IssueOK(s, Ended)
  BY <1>9, <1>10 DEF IssueOK
<1>12. IssueOK(State', Ended')
  BY <1>4, <1>6, <1>11
<1>. QED
  BY <1>4, <1>12 DEF IssueInv, IssueOK, IssueTypes, OwnWarps, Users, Over, Busy, State,
     CoresOf, NoMoreCtas, ActiveCtas, Ended, Held

(* A round of issue_block2core. *)
LEMMA IssueStepKeeps ==
  ASSUME IssueInv, IssueBlock2Core
  PROVE  IssueInv'
<1>1. PICK g \in AfterIssue :
        /\ lastKernel' = g.lastKernel /\ lastCluster' = g.lastCluster
        /\ nextCore' = g.nextCore /\ kernel' = g.kernel /\ status' = g.status
        /\ issued' = g.issued /\ users' = g.users
        /\ UNCHANGED <<running, finished, reported>>
  BY DEF IssueBlock2Core
<1>2. Ended \in SUBSET Kernel
  BY DEF IssueInv, Reports, Ended, Held
<1>3. IssueOK(g, Ended) /\ g.running = running
  BY <1>2, LoopKeeps DEF IssueInv
<1>4. State' = g
  BY <1>1, <1>3 DEF IssueOK, IssueTypes, State
<1>5. Reports' /\ Ended' = Ended
  BY <1>1 DEF IssueInv, Reports, Ended, Held, Once
<1>6. IssueOK(State', Ended')
  BY <1>3, <1>4, <1>5
<1>. QED
  BY <1>5, <1>6 DEF IssueInv, IssueOK, IssueTypes, OwnWarps, Users, Over, Busy, State,
     CoresOf, NoMoreCtas, ActiveCtas, Ended, Held

(* A kernel that is reported has ended as before. *)
LEMMA FinishedStepKeeps ==
  ASSUME IssueInv, FinishedKernel
  PROVE  IssueInv'
<1>1. PICK k, q : k = Head(finished) /\ q = Tail(finished)
  OBVIOUS
<1>2. finished # <<>> /\ finished \in Seq(Kernel) /\ Once(finished)
  BY DEF IssueInv, Reports, FinishedKernel
<1>3. /\ q \in Seq(Kernel) /\ k \in Kernel /\ Held(finished) = Held(q) \union {k}
      /\ Once(q) /\ k \notin Held(q)
  BY <1>1, <1>2, TailTakes
<1>4. reported' = reported \union {k} /\ finished' = q /\ UNCHANGED issueVars
  BY <1>1 DEF FinishedKernel
<1>5. IsFiniteSet(reported \union {k})
  BY FS_AddElement DEF IssueInv, Reports
<1>6. Held(finished)' = Held(q) /\ Once(finished)' = Once(q)
  BY <1>4 DEF Held, Once
<1>7. Reports' /\ Ended' = Ended
  BY <1>3, <1>4, <1>5, <1>6 DEF IssueInv, Reports, Ended
<1>8. State' = State
  BY <1>4 DEF State, issueVars
<1>9. IssueOK(State', Ended')
  BY <1>7, <1>8 DEF IssueInv
<1>. QED
  BY <1>7, <1>9 DEF IssueInv, IssueOK, IssueTypes, OwnWarps, Users, Over, Busy, State,
     CoresOf, NoMoreCtas, ActiveCtas, Ended, Held

(* A warp ends.  The core that has no other lets its kernel go; the kernel *)
(* ends with the last of its cores.                                        *)
LEMMA ExitKeeps ==
  ASSUME IssueInv, NEW c \in Core, NEW x \in Contexts, RegisterExit(c, x)
  PROVE  IssueInv'
<1>0. /\ IssueTypes(State) /\ OwnWarps(State) /\ Users(State) /\ Over(State, Ended)
      /\ \A e \in Core : Busy(State, e)
  BY DEF IssueInv, IssueOK
<1>1. /\ kernel \in [Core -> Kernel \union {None}] /\ status \in [Core -> [Contexts -> Nat]]
      /\ users \in [Kernel -> Nat] /\ running \in [Slot -> Kernel \union {None}]
  BY <1>0 DEF IssueTypes, State
<1>2. PICK t : t = status[c]
  OBVIOUS
<1>3. t \in [Contexts -> Nat] /\ t[x] > 0
  BY <1>1, <1>2 DEF RegisterExit
<1>4. PICK k \in Kernel : k = kernel[c]
  BY <1>0, <1>1, <1>2, <1>3 DEF OwnWarps, State
<1>5. None # k
  BY IssueAssumption
<1>6. PICK A : A = ActiveCtas(status, c)
  OBVIOUS
<1>7. A = {y \in Contexts : t[y] > 0} /\ x \in A
  BY <1>2, <1>3, <1>6 DEF ActiveCtas
<1>8. PICK empty \in BOOLEAN : empty = (t[x] = 1 /\ A = {x})
  OBVIOUS
<1>9. PICK u : u = [t EXCEPT ![x] = @ - 1]
  OBVIOUS
<1>10. u \in [Contexts -> Nat] /\ u[x] = t[x] - 1 /\ \A y \in Contexts \ {x} : u[y] = t[y]
  BY <1>3, <1>9
<1>11. PICK s : s = State'
  OBVIOUS
<1>12. /\ s = [running |-> s.running, lastKernel |-> s.lastKernel,
               lastCluster |-> s.lastCluster, nextCore |-> s.nextCore, kernel |-> s.kernel,
               status |-> s.status, issued |-> s.issued, users |-> s.users]
       /\ s.running = running' /\ s.kernel = kernel' /\ s.status = status' /\ s.users = users'
       /\ s.lastKernel = lastKernel /\ s.lastCluster = lastCluster
       /\ s.nextCore = nextCore /\ s.issued = issued /\ reported' = reported
  BY <1>11 DEF State, RegisterExit
<1>13. /\ status' = [status EXCEPT ![c] = u]
       /\ kernel' = IF empty THEN [kernel EXCEPT ![c] = None] ELSE kernel
       /\ users' = IF empty THEN [users EXCEPT ![k] = @ - 1] ELSE users
       /\ IF empty /\ EndsWith(k)
          THEN /\ finished' = Append(finished, k)
               /\ running' = [n \in Slot |-> IF running[n] = k THEN None ELSE running[n]]
          ELSE UNCHANGED <<finished, running>>
  BY <1>2, <1>4, <1>6, <1>8, <1>9 DEF RegisterExit
<1>14. /\ status' \in [Core -> [Contexts -> Nat]] /\ status'[c] = u
       /\ \A e \in Core \ {c} : status'[e] = status[e]
  BY <1>1, <1>10, <1>13
<1>15. PICK B : B = {y \in Contexts : u[y] > 0}
  OBVIOUS
<1>16. /\ ActiveCtas(status', c) = B
       /\ \A e \in Core \ {c} : ActiveCtas(status', e) = ActiveCtas(status, e)
  BY <1>10, <1>14, <1>15 DEF ActiveCtas
<1>17. B = IF t[x] = 1 THEN A \ {x} ELSE A
  <2>1. ASSUME NEW y \in Contexts, y # x PROVE y \in B <=> y \in A
    BY <1>7, <1>10, <1>15, <2>1
  <2>2. x \in B <=> t[x] # 1
    BY <1>3, <1>10, <1>15
  <2>3. B \subseteq Contexts /\ A \subseteq Contexts
    BY <1>7, <1>15
  <2>. QED
    BY <1>7, <2>1, <2>2, <2>3
<1>18. B = {} <=> empty
  BY <1>7, <1>8, <1>17
<1>19. c \in CoresOf(kernel, k) /\ IsFiniteSet(CoresOf(kernel, k))
  <2>1. CoresOf(kernel, k) \in SUBSET Core
    BY DEF CoresOf
  <2>. QED
    BY <1>4, <2>1, CoresFinite, FS_Subset DEF CoresOf
<1>20. PICK n \in Nat \ {0} : n = users[k] /\ n = Cardinality(CoresOf(kernel, k))
  <2>1. users[k] \in Nat /\ users[k] = Cardinality(CoresOf(kernel, k))
    BY <1>0, <1>1 DEF Users, State
  <2>2. {c} \in SUBSET CoresOf(kernel, k)
    BY <1>19
  <2>3. Cardinality({c}) = 1 /\ Cardinality({c}) <= Cardinality(CoresOf(kernel, k))
    BY <1>19, <2>2, FS_Singleton, FS_Subset
  <2>. QED
    BY <2>1, <2>3
<1>21. /\ kernel' \in [Core -> Kernel \union {None}] /\ kernel'[c] = IF empty THEN None ELSE k
       /\ \A e \in Core \ {c} : kernel'[e] = kernel[e]
  BY <1>1, <1>4, <1>13
<1>22. /\ users' \in [Kernel -> Nat] /\ users'[k] = IF empty THEN n - 1 ELSE n
       /\ \A j \in Kernel \ {k} : users'[j] = users[j]
  <2>1. PICK m \in Nat : m = n - 1
    BY <1>20
  <2>2. CASE empty
    BY <1>1, <1>13, <1>20, <2>1, <2>2
  <2>3. CASE ~empty
    BY <1>1, <1>13, <1>20, <2>3
  <2>. QED
    BY <2>2, <2>3
<1>23. /\ running' \in [Slot -> Kernel \union {None}]
       /\ \A m \in Slot : running'[m] \in {running[m], None}
  BY <1>1, <1>13
<1>24. IssueTypes(s)
  BY <1>0, <1>12, <1>14, <1>21, <1>22, <1>23 DEF IssueTypes, State
<1>25. OwnWarps(s)
  <2>1. ASSUME NEW e \in Core, NEW y \in Contexts, status'[e][y] > 0
        PROVE  kernel'[e] # None /\ status'[e][y] <= NWarp[kernel'[e]]
    <3>1. CASE e # c
      BY <1>0, <1>14, <1>21, <2>1, <3>1 DEF OwnWarps, State
    <3>2. CASE e = c
      <4>1. u[y] > 0 /\ y \in B /\ ~empty
        BY <1>14, <1>15, <1>18, <2>1, <3>2
      <4>2. PICK w, v \in Nat : w = t[y] /\ v = u[y] /\ v <= w /\ w > 0
        BY <1>3, <1>10, <4>1
      <4>3. w <= NWarp[k] /\ NWarp[k] \in Nat
        BY <1>0, <1>2, <1>4, <4>2, IssueAssumption DEF OwnWarps, State
      <4>. QED
        BY <1>5, <1>14, <1>21, <3>2, <4>1, <4>2, <4>3
    <3>. QED
      BY <3>1, <3>2
  <2>. QED
    BY <1>12, <2>1 DEF OwnWarps
<1>26. CoresOf(kernel', k) = IF empty THEN CoresOf(kernel, k) \ {c} ELSE CoresOf(kernel, k)
  BY <1>4, <1>5, <1>13, <1>21 DEF CoresOf
<1>27. Users(s)
  <2>1. ASSUME NEW j \in Kernel PROVE users'[j] = Cardinality(CoresOf(kernel', j))
    <3>1. CASE j # k
      <4>1. None # j
        BY IssueAssumption
      <4>2. CoresOf(kernel', j) = CoresOf(kernel, j)
        BY <1>4, <1>21, <3>1, <4>1 DEF CoresOf
      <4>. QED
        BY <1>0, <1>22, <3>1, <4>2 DEF Users, State
    <3>2. CASE j = k /\ ~empty
      BY <1>20, <1>22, <1>26, <3>2
    <3>3. CASE j = k /\ empty
      <4>1. Cardinality(CoresOf(kernel, k) \ {c}) = n - 1
        BY <1>19, <1>20, FS_RemoveElement
      <4>. QED
        BY <1>22, <1>26, <3>3, <4>1
    <3>. QED
      BY <3>1, <3>2, <3>3
  <2>. QED
    BY <1>12, <2>1 DEF Users
<1>28. ASSUME NEW e \in Core PROVE Busy(s, e)
  <2>1. CASE e # c
    BY <1>0, <1>12, <1>16, <1>21, <2>1 DEF Busy, State
  <2>2. CASE e = c
    <3>1. B \in SUBSET A /\ A \in SUBSET Contexts
      BY <1>7, <1>17
    <3>2. PICK i, j \in Nat : i = Cardinality(B) /\ j = Cardinality(A) /\ i <= j
      BY <3>1, ContextsSuffice, FS_Subset, FS_CardinalityType
    <3>3. j <= MaxCta[k] /\ MaxCta[k] \in Nat
      BY <1>0, <1>4, <1>5, <1>6, <3>2, IssueAssumption DEF Busy, State
    <3>4. Cardinality(B) <= MaxCta[k]
      BY <3>2, <3>3
    <3>. QED
      BY <1>5, <1>12, <1>16, <1>18, <1>21, <2>2, <3>4 DEF Busy
  <2>. QED
    BY <2>1, <2>2
<1>29. k \notin Ended
  BY <1>0, <1>4 DEF Over, State
<1>30. CASE empty /\ EndsWith(k)
  <2>1. finished' = Append(finished, k) /\ finished \in Seq(Kernel) /\ k \notin Held(finished)
    BY <1>13, <1>29, <1>30 DEF Ended, IssueInv, Reports
  <2>2. /\ Append(finished, k) \in Seq(Kernel)
        /\ Held(Append(finished, k)) = Held(finished) \union {k}
        /\ Once(Append(finished, k))
    BY <2>1, AppendAdds DEF IssueInv, Reports
  <2>3. Held(finished)' = Held(finished) \union {k} /\ Once(finished)'
    BY <2>1, <2>2 DEF Held, Once
  <2>4. Reports' /\ Ended' = Ended \union {k}
    BY <1>12, <1>29, <2>1, <2>2, <2>3 DEF IssueInv, Reports, Ended
  <2>5. CoresOf(kernel, k) = {c}
    <3>1. n = 1
      BY <1>20, <1>30 DEF EndsWith
    <3>2. {c} \in SUBSET CoresOf(kernel, k) /\ Cardinality({c}) = 1
      BY <1>19, FS_Singleton
    <3>. QED
      BY <1>19, <1>20, <3>1, <3>2, FS_Subset
  <2>6. \A e \in Core : kernel'[e] # k
    <3>1. CoresOf(kernel', k) = {}
      BY <1>26, <1>30, <2>5
    <3>. QED
      BY <3>1 DEF CoresOf
  <2>7. \A m \in Slot : running'[m] # k
    BY <1>5, <1>13, <1>30
  <2>8. NoMoreCtas(s.issued, k)
    BY <1>12, <1>30 DEF EndsWith
  <2>9. ASSUME NEW j \in Ended
        PROVE  /\ NoMoreCtas(s.issued, j) /\ \A e \in Core : s.kernel[e] # j
               /\ \A m \in Slot : s.running[m] # j
    <3>1. j \in Kernel /\ j # None
      BY IssueAssumption DEF Ended, IssueInv, Reports, Held
    <3>2. /\ NoMoreCtas(issued, j) /\ \A e \in Core : kernel[e] # j
          /\ \A m \in Slot : running[m] # j
      BY <1>0 DEF Over, State
    <3>3. \A e \in Core : kernel'[e] # j
      BY <1>5, <1>21, <1>29, <3>1, <3>2
    <3>. QED
      BY <1>12, <1>23, <3>1, <3>2, <3>3
  <2>10. Over(s, Ended')
    BY <1>12, <2>4, <2>6, <2>7, <2>8, <2>9 DEF Over
  <2>11. IssueOK(State', Ended')
    BY <1>11, <1>24, <1>25, <1>27, <1>28, <2>10 DEF IssueOK
  <2>. QED
    BY <2>4, <2>11 DEF IssueInv, IssueOK, IssueTypes, OwnWarps, Users, Over, Busy, State,
       CoresOf, NoMoreCtas, ActiveCtas, Ended, Held
<1>31. CASE ~(empty /\ EndsWith(k))
  <2>1. finished' = finished /\ running' = running
    BY <1>13, <1>31
  <2>2. Reports' /\ Ended' = Ended
    BY <1>12, <2>1 DEF IssueInv, Reports, Ended, Held, Once
  <2>3. ASSUME NEW j \in Ended
        PROVE  /\ NoMoreCtas(s.issued, j) /\ \A e \in Core : s.kernel[e] # j
               /\ \A m \in Slot : s.running[m] # j
    <3>1. j \in Kernel /\ j # None
      BY IssueAssumption DEF Ended, IssueInv, Reports, Held
    <3>2. /\ NoMoreCtas(issued, j) /\ \A e \in Core : kernel[e] # j
          /\ \A m \in Slot : running[m] # j
      BY <1>0 DEF Over, State
    <3>3. \A e \in Core : kernel'[e] # j
      BY <1>5, <1>21, <1>29, <3>1, <3>2
    <3>. QED
      BY <1>12, <2>1, <3>2, <3>3
  <2>4. Over(s, Ended')
    BY <2>2, <2>3 DEF Over
  <2>5. IssueOK(State', Ended')
    BY <1>11, <1>24, <1>25, <1>27, <1>28, <2>4 DEF IssueOK
  <2>. QED
    BY <2>2, <2>5 DEF IssueInv, IssueOK, IssueTypes, OwnWarps, Users, Over, Busy, State,
       CoresOf, NoMoreCtas, ActiveCtas, Ended, Held
<1>. QED
  BY <1>30, <1>31

(* Every step keeps the counts. *)
LEMMA IssueNext ==
  ASSUME IssueInv, [Next]_vars
  PROVE  IssueInv'
<1>1. CASE UNCHANGED vars
  <2>1. State' = State /\ Ended' = Ended
    BY <1>1 DEF vars, issueVars, State, Ended, Held
  <2>2. Reports'
    BY <1>1 DEF vars, IssueInv, Reports, Held, Once
  <2>3. IssueOK(State', Ended')
    BY <2>1 DEF IssueInv
  <2>. QED
    BY <2>2, <2>3 DEF IssueInv, IssueOK, IssueTypes, OwnWarps, Users, Over, Busy, State,
       CoresOf, NoMoreCtas, ActiveCtas, Ended, Held
<1>. QED
  BY <1>1, LaunchKeeps, IssueStepKeeps, ExitKeeps, FinishedStepKeeps DEF Next

(* A FIFO that has nothing twice has as many as it is long. *)
LEMMA OnceCounts ==
  ASSUME NEW S, NEW q \in Seq(S), Once(q)
  PROVE  IsFiniteSet(Held(q)) /\ Cardinality(Held(q)) = Len(q)
<1>1. PICK L \in Nat : L = Len(q) /\ DOMAIN q = 1 .. L
  OBVIOUS
<1>2. 1 \in Int /\ L \in Int
  BY <1>1
<1>3. IsFiniteSet(1 .. L) /\ Cardinality(1 .. L) = L
  <2>1. Cardinality(1 .. L) = IF 1 > L THEN 0 ELSE L - 1 + 1
    BY <1>2, FS_Interval
  <2>. QED
    BY <1>2, <2>1, FS_Interval
<1>4. PICK f : f = [n \in 1 .. L |-> q[n]]
  OBVIOUS
<1>5. f \in Surjection(1 .. L, Held(q)) /\ f \in Injection(1 .. L, Held(q))
  BY <1>1, <1>4 DEF Surjection, Injection, IsInjective, Held, Once
<1>. QED
  BY <1>1, <1>3, <1>5, FS_Surjection

(* KernelsCounted, with its cardinalities, from the invariant. *)
LEMMA IssueInvCounts == IssueInv => KernelsCounted
<1> SUFFICES ASSUME IssueInv PROVE KernelsCounted
  OBVIOUS
<1>0. /\ IssueTypes(State) /\ OwnWarps(State) /\ Users(State) /\ Over(State, Ended)
      /\ Reports /\ \A e \in Core : Busy(State, e)
  BY DEF IssueInv, IssueOK
<1>1. TypeOK
  <2>1. ASSUME NEW c \in Core, NEW x \in Contexts
        PROVE  status[c][x] \in 0 .. IF kernel[c] = None THEN 0 ELSE NWarp[kernel[c]]
    <3>1. status[c][x] \in Nat /\ kernel[c] \in Kernel \union {None}
      BY <1>0 DEF IssueTypes, State
    <3>2. status[c][x] > 0 => kernel[c] # None /\ status[c][x] <= NWarp[kernel[c]]
      BY <1>0 DEF OwnWarps, State
    <3>3. kernel[c] # None => NWarp[kernel[c]] \in Nat
      BY <3>1, IssueAssumption
    <3>. QED
      BY <3>1, <3>2, <3>3
  <2>2. ASSUME NEW k \in Kernel
        PROVE  issued[k] \in 0 .. NCta[k] /\ users[k] \in 0 .. Cardinality(Core)
    <3>1. issued[k] \in Nat /\ issued[k] <= NCta[k] /\ users[k] \in Nat /\ NCta[k] \in Nat
      BY <1>0, IssueAssumption DEF IssueTypes, State
    <3>2. users[k] = Cardinality(CoresOf(kernel, k)) /\ CoresOf(kernel, k) \in SUBSET Core
      BY <1>0 DEF Users, State, CoresOf
    <3>3. users[k] <= Cardinality(Core) /\ Cardinality(Core) \in Nat
      BY <3>2, CoresFinite, FS_Subset, FS_CardinalityType
    <3>. QED
      BY <3>1, <3>3
  <2>. QED
    BY <1>0, <2>1, <2>2 DEF TypeOK, IssueTypes, State, Reports
<1>2. UsersCounted
  BY <1>0 DEF UsersCounted, Users, Busy, State, CoresOf
<1>3. FinishedIsComplete
  <2>1. PICK ended : ended = reported \union {finished[n] : n \in 1 .. Len(finished)}
    OBVIOUS
  <2>2. ended = Ended /\ DOMAIN finished = 1 .. Len(finished)
    BY <1>0, <2>1 DEF Ended, Held, Reports
  <2>3. IsFiniteSet(Held(finished)) /\ Cardinality(Held(finished)) = Len(finished)
    BY <1>0, OnceCounts DEF Reports
  <2>4. reported \intersect Held(finished) = {} /\ IsFiniteSet(reported)
    BY <1>0 DEF Reports
  <2>5. Cardinality({}) = 0 /\ Cardinality(reported) \in Nat /\ Len(finished) \in Nat
    BY <1>0, <2>4, FS_EmptySet, FS_CardinalityType DEF Reports
  <2>6. Cardinality(Ended) = Cardinality(reported) + Len(finished)
    <3>1. PICK H : H = Held(finished)
      OBVIOUS
    <3>2. Cardinality(reported \union H)
            = Cardinality(reported) + Cardinality(H) - Cardinality(reported \intersect H)
      BY <2>3, <2>4, <3>1, FS_Union
    <3>3. Cardinality(reported \union H) = Cardinality(reported) + Len(finished) - 0
      BY <2>3, <2>4, <2>5, <3>1, <3>2
    <3>. QED
      BY <2>5, <3>1, <3>3 DEF Ended
  <2>. QED
    BY <1>0, <2>1, <2>2, <2>6 DEF FinishedIsComplete, Over, State
<1>. QED
  BY <1>1, <1>2, <1>3 DEF KernelsCounted

(* The cores that run a kernel are counted right, so that its end is told  *)
(* once, when the last warp of its last CTA has ended (set_kernel,         *)
(* register_cta_thread_exit, set_kernel_done).                             *)
THEOREM KernelsAlwaysCounted == Spec => []KernelsCounted
<1>1. IssueInv /\ [Next]_vars => IssueInv'
  BY IssueNext
<1>. QED
  BY <1>1, IssueBegins, IssueInvCounts, PTL DEF Spec

=============================================================================
