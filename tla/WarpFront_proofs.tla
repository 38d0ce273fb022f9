--------------------------- MODULE WarpFront_proofs ---------------------------
(***************************************************************************)
(* Safety of WarpFront, for any number of warps, any code and any number   *)
(* of launches and of instructions in the pipelines.                       *)
(***************************************************************************)
EXTENDS WarpFront, FiniteSetTheorems, SequenceTheorems, TLAPS

Item == [warp : Warp, pc : 1 .. CodeLen + 1, gen : 0 .. MaxLaunch]

(* TypeOK, with what the fetch buffer and the cache hold.                  *)
FrontTypes ==
  /\ TypeOK
  /\ flying \in [Warp -> Seq(0 .. MaxLaunch)]
  /\ missing \subseteq Item /\ ready \in Seq(Item) /\ fetchBuffer \in Item \union {None}
  /\ piece \in {"issue", "decode", "fetch", "answer"}

(* A fetch is of the launch that runs in its slot.                         *)
Current(mf) == mf.gen = gen[mf.warp] /\ ~completed[mf.warp]

(* Who is met is current.  The fetch buffer is empty when fetch begins.    *)
AllCurrent ==
  /\ \A mf \in missing : Current(mf) /\ imiss[mf.warp]
  /\ \A n \in DOMAIN ready : Current(ready[n]) /\ imiss[ready[n].warp]
  /\ fetchBuffer # None =>
       /\ Current(fetchBuffer) /\ piece # "fetch"
       /\ ~imiss[fetchBuffer.warp] /\ ibuffer_empty(fetchBuffer.warp)
  /\ \A w \in Warp : \A n \in DOMAIN flying[w] : flying[w][n] = gen[w]

(* No two fetches that the cache has taken are of one warp.                *)
Alone ==
  /\ \A mf \in missing, nf \in missing : mf.warp = nf.warp => mf = nf
  /\ \A m \in DOMAIN ready, n \in DOMAIN ready : ready[m].warp = ready[n].warp => m = n
  /\ \A mf \in missing, n \in DOMAIN ready : mf.warp # ready[n].warp

(* A warp that waits for the cache has a fetch there and nothing to issue. *)
MissHasFetch ==
  \A w \in Warp : imiss[w] =>
    /\ ibuffer_empty(w)
    /\ \/ \E mf \in missing : mf.warp = w
       \/ \E n \in DOMAIN ready : ready[n].warp = w

(* What has ended has nothing left to issue, what is reclaimed nothing at  *)
(* all.                                                                    *)
Ended ==
  \A w \in Warp :
    /\ completed[w] => ibuffer_empty(w)
    /\ doneExit[w] => completed[w] /\ inPipe[w] = 0

FrontInv ==
  /\ FrontTypes /\ PipelineCount /\ AllCurrent /\ Alone /\ MissHasFetch /\ Ended
  /\ NextIsValid

-----------------------------------------------------------------------------
(* Counting.                                                               *)

(* The number of valid entries, and when it is none.                       *)
LEMMA ValidCount ==
  ASSUME NEW w \in Warp
  PROVE  /\ IsFiniteSet(Valid(w)) /\ Cardinality(Valid(w)) \in Nat
         /\ Cardinality(Valid(w)) = 0 <=> ibuffer_empty(w)
<1>1. IsFiniteSet(Slot)
  <2>1. Slot = 0 .. 1
    BY DEF Slot
  <2>. QED
    BY <2>1, FS_Interval, 0 \in Int, 1 \in Int
<1>2. Valid(w) \subseteq Slot
  BY DEF Valid
<1>3. IsFiniteSet(Valid(w))
  BY <1>1, <1>2, FS_Subset
<1>. QED
  BY <1>3, FS_CardinalityType, FS_EmptySet DEF ibuffer_empty

(* Of two sets with at most one element each, all in all one or none.      *)
LEMMA OneOrNone ==
  ASSUME NEW S, NEW T,
         \A x \in S, y \in S : x = y,
         \A x \in T, y \in T : x = y,
         S = {} \/ T = {}
  PROVE  /\ Cardinality(S) + Cardinality(T) \in 0 .. 1
         /\ Cardinality(S) + Cardinality(T) = 0 <=> S = {} /\ T = {}
<1>1. ASSUME NEW U, \A x \in U, y \in U : x = y
      PROVE  Cardinality(U) \in 0 .. 1 /\ (Cardinality(U) = 0 <=> U = {})
  <2>1. CASE U = {}
    BY <2>1, FS_EmptySet
  <2>2. CASE U # {}
    <3>1. PICK x \in U : TRUE
      BY <2>2
    <3>2. U = {x}
      BY <1>1, <3>1
    <3>. QED
      BY <2>2, <3>2, FS_Singleton
  <2>. QED
    BY <2>1, <2>2
<1>2. Cardinality(S) \in 0 .. 1 /\ (Cardinality(S) = 0 <=> S = {})
  BY <1>1
<1>3. Cardinality(T) \in 0 .. 1 /\ (Cardinality(T) = 0 <=> T = {})
  BY <1>1
<1>. QED
  BY <1>2, <1>3

(* What is left of a queue when its head is taken.                         *)
LEMMA TailFacts ==
  ASSUME NEW S, NEW q \in Seq(S), q # <<>>
  PROVE  /\ Tail(q) \in Seq(S) /\ Len(Tail(q)) = Len(q) - 1 /\ Len(q) \in Nat \ {0}
         /\ \A n \in DOMAIN Tail(q) : n + 1 \in DOMAIN q /\ Tail(q)[n] = q[n + 1]
<1>1. /\ Len(q) \in Nat /\ Len(q) # 0 /\ DOMAIN q = 1 .. Len(q)
  BY EmptySeq, LenProperties
<1>2. /\ Tail(q) \in Seq(S) /\ Len(Tail(q)) = Len(q) - 1
      /\ \A n \in 1 .. Len(Tail(q)) : Tail(q)[n] = q[n + 1]
  BY HeadTailProperties
<1>3. DOMAIN Tail(q) = 1 .. Len(Tail(q))
  BY <1>2, LenProperties
<1>. QED
  BY <1>1, <1>2, <1>3

-----------------------------------------------------------------------------
(* The steps.                                                              *)

LEMMA InitInv == Init => FrontInv
<1> SUFFICES ASSUME Init PROVE FrontInv
  OBVIOUS
<1>1. 0 \in 0 .. MaxLaunch /\ 1 \in Pc /\ 1 \in 1 .. CodeLen + 1 /\ 0 \in Warp
  BY FrontAssumption DEF Pc, Warp
<1>2. EmptyBuffer \in [Slot -> Pc \union {NoInst, None}]
  BY DEF EmptyBuffer
<1>3. FrontTypes
  BY <1>1, <1>2 DEF Init, FrontTypes, TypeOK, Slot
<1>4. ASSUME NEW w \in Warp PROVE ibuffer_empty(w) /\ Len(flying[w]) = 0
  BY DEF Init, ibuffer_empty, Valid, EmptyBuffer
<1>5. PipelineCount
  BY <1>4, ValidCount DEF PipelineCount, Init
<1>. QED
  BY <1>3, <1>4, <1>5 DEF Init, FrontInv, AllCurrent, Alone, MissHasFetch, Ended, NextIsValid

(* A slot that is launched has been reclaimed: no fetch and no instruction *)
(* of the old warp is left.                                                *)
LEMMA LaunchKeeps ==
  ASSUME FrontInv, NEW w \in Warp, Launch(w)
  PROVE  FrontInv'
<1>. USE DEF FrontInv
<1>1. completed[w] /\ ibuffer_empty(w) /\ inPipe[w] = 0
  BY DEF Ended, Launch
<1>2. flying[w] = <<>>
  <2>1. Cardinality(Valid(w)) = 0 /\ inPipe[w] = Cardinality(Valid(w)) + Len(flying[w])
    BY <1>1, ValidCount DEF PipelineCount
  <2>2. flying[w] \in Seq(0 .. MaxLaunch)
    BY DEF FrontTypes
  <2>. QED
    BY <1>1, <2>1, <2>2, EmptySeq, LenProperties
<1>3. \A mf \in missing : mf.warp # w
  BY <1>1 DEF AllCurrent, Current
<1>4. \A n \in DOMAIN ready : ready[n].warp # w
  BY <1>1 DEF AllCurrent, Current
<1>5. fetchBuffer # None => fetchBuffer.warp # w
  BY <1>1 DEF AllCurrent, Current
<1>6. TypeOK
  BY DEF FrontTypes
<1>7. TypeOK'
  <2>1. gen[w] + 1 \in 0 .. MaxLaunch /\ 1 \in Pc /\ 1 \in 1 .. CodeLen + 1
    BY <1>6, FrontAssumption DEF TypeOK, Launch, Pc
  <2>. QED
    BY <1>6, <2>1 DEF TypeOK, Launch, Slot
<1>8. FrontTypes'
  BY <1>7 DEF FrontTypes, Launch
<1>9. PipelineCount'
  BY DEF PipelineCount, Launch, Valid
<1>10. /\ \A v \in Warp : v # w => gen'[v] = gen[v] /\ completed'[v] = completed[v]
                                /\ imiss'[v] = imiss[v] /\ doneExit'[v] = doneExit[v]
                                /\ next'[v] = next[v]
       /\ ~completed'[w] /\ ~doneExit'[w] /\ ~imiss'[w]
  BY <1>6 DEF TypeOK, Launch
<1>11. AllCurrent'
  <2>1. missing \subseteq Item /\ (\A n \in DOMAIN ready : ready[n] \in Item) /\ (fetchBuffer # None => fetchBuffer \in Item)
    BY ElementOfSeq DEF FrontTypes
  <2>2. \A mf \in missing : Current(mf)' /\ imiss'[mf.warp]
    BY <1>3, <1>10, <2>1 DEF AllCurrent, Current, Item
  <2>3. \A n \in DOMAIN ready : Current(ready[n])' /\ imiss'[ready[n].warp]
    BY <1>4, <1>10, <2>1 DEF AllCurrent, Current, Item, Launch
  <2>4. fetchBuffer # None => Current(fetchBuffer)' /\ ~imiss'[fetchBuffer.warp]
    BY <1>5, <1>10, <2>1 DEF AllCurrent, Current, Item, Launch
  <2>5. \A v \in Warp : \A n \in DOMAIN flying[v] : flying[v][n] = gen'[v]
    BY <1>2, <1>10 DEF AllCurrent
  <2>. QED
    BY <2>2, <2>3, <2>4, <2>5 DEF AllCurrent, Launch, ibuffer_empty, Valid, Current
<1>12. Alone'
  BY DEF Alone, Launch
<1>13. MissHasFetch'
  BY <1>10 DEF MissHasFetch, Launch, ibuffer_empty, Valid
<1>14. Ended'
  BY <1>10 DEF Ended, Launch, ibuffer_empty, Valid
<1>15. NextIsValid'
  BY <1>1, <1>10 DEF NextIsValid, Launch, ibuffer_empty, Valid
<1>. QED
  BY <1>8, <1>9, <1>11, <1>12, <1>13, <1>14, <1>15

LEMMA CompleteKeeps ==
  ASSUME FrontInv, NEW w \in Warp, Complete(w)
  PROVE  FrontInv'
<1>. USE DEF FrontInv
<1>1. flying[w] \in Seq(0 .. MaxLaunch) /\ flying[w] # <<>>
  BY DEF FrontTypes, Complete
<1>2. PICK t : t = Tail(flying[w])
  OBVIOUS
<1>3. /\ t \in Seq(0 .. MaxLaunch) /\ Len(t) = Len(flying[w]) - 1 /\ Len(flying[w]) \in Nat \ {0}
      /\ \A n \in DOMAIN t : n + 1 \in DOMAIN flying[w] /\ t[n] = flying[w][n + 1]
  BY <1>1, <1>2, TailFacts
<1>4. TypeOK
  BY DEF FrontTypes
<1>5. inPipe[w] = Cardinality(Valid(w)) + Len(flying[w]) /\ Cardinality(Valid(w)) \in Nat
  BY ValidCount DEF PipelineCount
<1>6. /\ \A v \in Warp : v # w => flying'[v] = flying[v] /\ inPipe'[v] = inPipe[v]
      /\ flying'[w] = t /\ inPipe'[w] = inPipe[w] - 1
  BY <1>2, <1>4 DEF TypeOK, FrontTypes, Complete
<1>7. TypeOK'
  <2>1. inPipe[w] - 1 \in Nat
    BY <1>3, <1>5
  <2>2. inPipe' \in [Warp -> Nat]
    BY <1>4, <2>1 DEF TypeOK, Complete
  <2>. QED
    BY <1>4, <2>2 DEF TypeOK, Complete, warpVars, fetchVars
<1>8. FrontTypes'
  BY <1>2, <1>3, <1>7 DEF FrontTypes, Complete, warpVars, fetchVars
<1>9. PipelineCount'
  <2>1. \A v \in Warp : Valid(v)' = Valid(v)
    BY DEF Complete, Valid
  <2>2. inPipe'[w] = Cardinality(Valid(w)) + Len(flying'[w])
    BY <1>3, <1>5, <1>6
  <2>. QED
    BY <1>6, <2>1, <2>2 DEF PipelineCount
<1>10. AllCurrent'
  <2>1. \A v \in Warp : \A n \in DOMAIN flying'[v] : flying'[v][n] = gen[v]
    BY <1>3, <1>6 DEF AllCurrent
  <2>. QED
    BY <2>1 DEF AllCurrent, Complete, warpVars, fetchVars, Current, ibuffer_empty, Valid
<1>11. Ended'
  <2>1. inPipe[w] # 0
    BY <1>3, <1>5
  <2>. QED
    BY <1>6, <2>1 DEF Ended, Complete, warpVars, ibuffer_empty, Valid
<1>12. Alone' /\ MissHasFetch' /\ NextIsValid'
  BY DEF Alone, MissHasFetch, NextIsValid, Complete, warpVars, fetchVars, ibuffer_empty, Valid
<1>. QED
  BY <1>8, <1>9, <1>10, <1>11, <1>12

LEMMA FillKeeps ==
  ASSUME FrontInv, NEW mf \in missing, Fill(mf)
  PROVE  FrontInv'
<1>. USE DEF FrontInv
<1>1. mf \in Item /\ ready \in Seq(Item)
  BY DEF FrontTypes
<1>2. PICK k \in Nat :
        /\ ready'[k + 1] = mf
        /\ \A n \in 1 .. k : ready'[n] = ready[n]
        /\ DOMAIN ready' = 1 .. k + 1 /\ DOMAIN ready = 1 .. k
  BY <1>1, AppendProperties DEF Fill
<1>3. missing' = missing \ {mf} /\ UNCHANGED <<warpVars, bufferVars, imiss, fetchBuffer, lastFetched, piece>>
  BY DEF Fill
<1>4. FrontTypes'
  BY <1>1, <1>3, AppendProperties DEF Fill, FrontTypes, TypeOK, warpVars, bufferVars
<1>5. PipelineCount' /\ Ended' /\ NextIsValid'
  BY <1>3 DEF PipelineCount, Ended, NextIsValid, warpVars, bufferVars, ibuffer_empty, Valid
<1>6. Current(mf) /\ imiss[mf.warp]
  BY DEF AllCurrent
<1>7. \A n \in DOMAIN ready' :
        \/ n \in DOMAIN ready /\ ready'[n] = ready[n]
        \/ n = k + 1 /\ ready'[n] = mf
  BY <1>2
<1>8. AllCurrent'
  <2>1. \A n \in DOMAIN ready' : Current(ready'[n]) /\ imiss[ready'[n].warp]
    BY <1>6, <1>7 DEF AllCurrent
  <2>. QED
    BY <1>3, <2>1 DEF AllCurrent, Current, warpVars, bufferVars, ibuffer_empty, Valid
<1>9. Alone'
  <2>1. \A n \in DOMAIN ready : ready[n].warp # mf.warp
    BY DEF Alone
  <2>2. \A m \in DOMAIN ready', n \in DOMAIN ready' : ready'[m].warp = ready'[n].warp => m = n
    BY <1>7, <2>1 DEF Alone
  <2>3. \A nf \in missing' : nf.warp # mf.warp
    BY <1>3 DEF Alone
  <2>4. \A nf \in missing', n \in DOMAIN ready' : nf.warp # ready'[n].warp
    BY <1>3, <1>7, <2>3 DEF Alone
  <2>. QED
    BY <1>3, <2>2, <2>4 DEF Alone
<1>10. MissHasFetch'
  <2>1. ASSUME NEW w \in Warp, imiss[w]
        PROVE  (\E nf \in missing' : nf.warp = w) \/ \E n \in DOMAIN ready' : ready'[n].warp = w
    <3>1. CASE \E nf \in missing : nf.warp = w
      BY <1>2, <1>3, <3>1
    <3>2. CASE \E n \in DOMAIN ready : ready[n].warp = w
      BY <1>2, <3>2
    <3>. QED
      BY <2>1, <3>1, <3>2 DEF MissHasFetch
  <2>. QED
    BY <1>3, <2>1 DEF MissHasFetch, bufferVars, ibuffer_empty, Valid
<1>. QED
  BY <1>4, <1>5, <1>8, <1>9, <1>10

(* Issue takes entries out of the buffer of one warp, which therefore has  *)
(* no fetch.                                                               *)
LEMMA StepKeeps ==
  ASSUME FrontInv, NEW w \in Warp, Step(w), piece' = "decode", UNCHANGED fetchVars
  PROVE  FrontInv'
<1>. USE DEF FrontInv
<1>1. TypeOK
  BY DEF FrontTypes
<1>2. ~completed[w] /\ ~doneExit[w] /\ ~ibuffer_empty(w)
  BY DEF Step, Ended
<1>3. ~imiss[w] /\ (fetchBuffer # None => fetchBuffer.warp # w)
  BY <1>2 DEF MissHasFetch, AllCurrent
<1>4. (\A mf \in missing : mf.warp # w) /\ (\A n \in DOMAIN ready : ready[n].warp # w)
  BY <1>3 DEF AllCurrent
<1>5. PICK c \in Nat, l \in Nat :
        /\ c = Cardinality(Valid(w)) /\ l = Len(flying[w])
        /\ inPipe[w] = c + l /\ c # 0
  <2>1. Len(flying[w]) \in Nat
    BY LenProperties DEF FrontTypes
  <2>. QED
    BY <1>2, <2>1, ValidCount DEF PipelineCount
<1>6. /\ simtPc' \in [Warp -> Pc] /\ nextPc' \in [Warp -> 1 .. CodeLen + 1]
      /\ next' \in [Warp -> Slot] /\ completed' \in [Warp -> BOOLEAN]
      /\ ibuffer' \in [Warp -> [Slot -> Pc \union {NoInst, None}]]
      /\ flying' \in [Warp -> Seq(0 .. MaxLaunch)]
      /\ inPipe' \in [Warp -> Int]
      /\ inPipe'[w] = Cardinality(Valid(w)') + Len(flying'[w])
      /\ \A n \in DOMAIN flying'[w] : flying'[w][n] = gen[w]
      /\ completed'[w] => ibuffer_empty(w)'
      /\ ~ibuffer_empty(w)' => ibuffer'[w][next'[w]] # None
      /\ UNCHANGED <<gen, doneExit>>
      /\ \A v \in Warp : v # w =>
           /\ completed'[v] = completed[v] /\ ibuffer'[v] = ibuffer[v]
           /\ next'[v] = next[v] /\ inPipe'[v] = inPipe[v] /\ flying'[v] = flying[v]
  <2>1. EmptyBuffer \in [Slot -> Pc \union {NoInst, None}] /\ \A s \in Slot : EmptyBuffer[s] = None
    BY DEF EmptyBuffer
  <2>2. ASSUME ibuffer'[w] = EmptyBuffer
        PROVE  ibuffer_empty(w)' /\ Cardinality(Valid(w)') = 0
    <3>1. ibuffer_empty(w)'
      BY <2>1, <2>2 DEF ibuffer_empty, Valid
    <3>. QED
      BY <3>1, FS_EmptySet DEF ibuffer_empty
  <2>3. simtPc[w] \in Pc /\ simtPc[w] \in 1 .. CodeLen + 1 /\ simtPc[w] + 1 \in 1 .. CodeLen + 1
    <3>1. simtPc[w] \in 1 .. CodeLen /\ CodeLen \in Nat
      BY <1>1, FrontAssumption DEF TypeOK, Pc
    <3>. QED
      BY <3>1 DEF Pc
  <2>4. flying \in [Warp -> Seq(0 .. MaxLaunch)] /\ gen[w] \in 0 .. MaxLaunch
    BY <1>1 DEF FrontTypes, TypeOK
  <2>5. CASE ControlHazard(w)
    <3>1. inPipe' = [inPipe EXCEPT ![w] = @ - Flushed(w)] /\ Flushed(w) = c
      BY <1>5, <2>5 DEF ControlHazard, Flushed
    <3>2. inPipe' \in [Warp -> Int] /\ inPipe'[w] = l
      BY <1>1, <1>5, <3>1 DEF TypeOK
    <3>3. ibuffer'[w] = EmptyBuffer
      BY <1>1, <2>5 DEF ControlHazard, TypeOK
    <3>4. nextPc' = [nextPc EXCEPT ![w] = simtPc[w]]
      BY <2>5 DEF ControlHazard, Redirected
    <3>5. UNCHANGED <<gen, completed, doneExit, simtPc, next, flying>>
      BY <2>5 DEF ControlHazard
    <3>6. ibuffer' = [ibuffer EXCEPT ![w] = EmptyBuffer]
      BY <2>5 DEF ControlHazard
    <3>7. inPipe'[w] = Cardinality(Valid(w)') + Len(flying'[w])
      BY <1>5, <2>2, <3>2, <3>3, <3>5
    <3>8. nextPc' \in [Warp -> 1 .. CodeLen + 1]
      BY <1>1, <2>3, <3>4 DEF TypeOK
    <3>9. ibuffer' \in [Warp -> [Slot -> Pc \union {NoInst, None}]]
      BY <1>1, <2>1, <3>6 DEF TypeOK
    <3>10. \A n \in DOMAIN flying'[w] : flying'[w][n] = gen[w]
      BY <3>5 DEF AllCurrent
    <3>11. ibuffer_empty(w)'
      BY <2>2, <3>3
    <3>12. \A v \in Warp : v # w => ibuffer'[v] = ibuffer[v] /\ inPipe'[v] = inPipe[v]
      BY <1>1, <3>1, <3>6 DEF TypeOK
    <3>. QED
      BY <1>1, <2>4, <3>2, <3>5, <3>7, <3>8, <3>9, <3>10, <3>11, <3>12 DEF TypeOK
  <2>6. CASE issue_warp(w) /\ ibuffer[w][next[w]] = simtPc[w]
    <3>1. /\ flying' = [flying EXCEPT ![w] = Append(@, gen[w])]
          /\ nextPc' = [nextPc EXCEPT ![w] = simtPc[w] + 1]
          /\ next' = [next EXCEPT ![w] = 1 - @]
          /\ UNCHANGED <<gen, doneExit>>
      BY <2>6 DEF issue_warp
    <3>2. PICK f : f = Append(flying[w], gen[w])
      OBVIOUS
    <3>3. /\ f \in Seq(0 .. MaxLaunch) /\ Len(f) = l + 1
          /\ \A n \in DOMAIN f : f[n] = gen[w]
      <4>1. /\ Len(f) = l + 1 /\ f[l + 1] = gen[w] /\ f \in Seq(0 .. MaxLaunch)
            /\ \A n \in 1 .. l : f[n] = flying[w][n]
        BY <1>5, <2>4, <3>2, AppendProperties
      <4>2. DOMAIN f = 1 .. l + 1 /\ DOMAIN flying[w] = 1 .. l
        BY <1>5, <2>4, <4>1, LenProperties
      <4>3. \A n \in 1 .. l : flying[w][n] = gen[w]
        BY <4>2 DEF AllCurrent
      <4>4. \A n \in 1 .. l + 1 : n \in 1 .. l \/ n = l + 1
        BY <1>5
      <4>. QED
        BY <4>1, <4>2, <4>3, <4>4
    <3>4. /\ flying' \in [Warp -> Seq(0 .. MaxLaunch)] /\ flying'[w] = f
          /\ \A v \in Warp : v # w => flying'[v] = flying[v]
      BY <2>4, <3>1, <3>2, <3>3
    <3>5. /\ nextPc' \in [Warp -> 1 .. CodeLen + 1] /\ next' \in [Warp -> Slot]
          /\ next'[w] = 1 - next[w] /\ \A v \in Warp : v # w => next'[v] = next[v]
      <4>1. next \in [Warp -> Slot] /\ nextPc \in [Warp -> 1 .. CodeLen + 1]
        BY <1>1 DEF TypeOK
      <4>2. 1 - next[w] \in Slot
        BY <4>1 DEF Slot
      <4>. QED
        BY <2>3, <3>1, <4>1, <4>2
    <3>6. CASE Target[w][simtPc[w]] = 0
      <4>1. /\ completed' = [completed EXCEPT ![w] = TRUE]
            /\ inPipe' = [inPipe EXCEPT ![w] = @ - (c - 1)]
            /\ ibuffer' = [ibuffer EXCEPT ![w] = EmptyBuffer]
            /\ UNCHANGED simtPc
        BY <1>5, <2>6, <3>6 DEF issue_warp, Flushed
      <4>2. inPipe' \in [Warp -> Int] /\ inPipe'[w] = l + 1
        BY <1>1, <1>5, <4>1 DEF TypeOK
      <4>3. ibuffer'[w] = EmptyBuffer
        BY <1>1, <4>1 DEF TypeOK
      <4>4. ibuffer_empty(w)' /\ inPipe'[w] = Cardinality(Valid(w)') + Len(flying'[w])
        BY <1>5, <2>2, <3>3, <3>4, <4>2, <4>3
      <4>5. /\ completed' \in [Warp -> BOOLEAN] /\ simtPc' \in [Warp -> Pc]
            /\ ibuffer' \in [Warp -> [Slot -> Pc \union {NoInst, None}]]
        BY <1>1, <2>1, <4>1 DEF TypeOK
      <4>6. \A v \in Warp : v # w => /\ ibuffer'[v] = ibuffer[v] /\ inPipe'[v] = inPipe[v]
                                     /\ completed'[v] = completed[v]
        BY <1>1, <4>1 DEF TypeOK
      <4>. QED
        BY <3>1, <3>3, <3>4, <3>5, <4>2, <4>4, <4>5, <4>6
    <3>7. CASE Target[w][simtPc[w]] # 0
      <4>1. /\ simtPc' = [simtPc EXCEPT ![w] = Target[w][simtPc[w]]]
            /\ ibuffer' = [ibuffer EXCEPT ![w][next[w]] = None]
            /\ UNCHANGED <<completed, inPipe>>
        BY <2>6, <3>7 DEF issue_warp
      <4>2. next[w] \in Slot /\ ibuffer[w] \in [Slot -> Pc \union {NoInst, None}]
        BY <1>1 DEF TypeOK
      <4>3. Target[w][simtPc[w]] \in Pc
        <5>1. Target[w][simtPc[w]] \in 0 .. CodeLen
          BY <2>3, FrontAssumption
        <5>. QED
          BY <3>7, <5>1, FrontAssumption DEF Pc
      <4>4. simtPc' \in [Warp -> Pc]
        BY <1>1, <4>1, <4>3 DEF TypeOK
      <4>5. ibuffer'[w] = [ibuffer[w] EXCEPT ![next[w]] = None]
        BY <1>1, <4>1 DEF TypeOK
      <4>6. ibuffer' \in [Warp -> [Slot -> Pc \union {NoInst, None}]]
        BY <1>1, <4>1, <4>2 DEF TypeOK
      <4>7. next[w] \in Valid(w)
        <5>1. ibuffer[w][next[w]] \in Int
          BY <2>3, <2>6
        <5>. QED
          BY <4>2, <5>1, FrontAssumption DEF Valid
      <4>8. Valid(w)' = Valid(w) \ {next[w]}
        BY <4>2, <4>5 DEF Valid
      <4>9. Cardinality(Valid(w)') = c - 1
        BY <1>5, <4>7, <4>8, ValidCount, FS_RemoveElement
      <4>10. inPipe'[w] = Cardinality(Valid(w)') + Len(flying'[w])
        BY <1>5, <3>3, <3>4, <4>1, <4>9
      <4>11. ~ibuffer_empty(w)' => ibuffer'[w][next'[w]] # None
        BY <3>5, <4>2, <4>8 DEF ibuffer_empty, Valid, Slot
      <4>12. \A v \in Warp : v # w => ibuffer'[v] = ibuffer[v]
        BY <1>1, <4>1 DEF TypeOK
      <4>13. /\ completed' \in [Warp -> BOOLEAN] /\ ~completed'[w]
             /\ inPipe' \in [Warp -> Int]
        BY <1>1, <1>2, <4>1 DEF TypeOK
      <4>. QED
        BY <3>1, <3>3, <3>4, <3>5, <4>1, <4>4, <4>6, <4>10, <4>11, <4>12, <4>13
    <3>. QED
      BY <3>6, <3>7
  <2>. QED
    BY <2>5, <2>6 DEF Step
<1>7. UNCHANGED <<imiss, fetchBuffer, missing, ready, lastFetched>>
  BY DEF fetchVars
<1>8. \A v \in Warp : v # w => Valid(v)' = Valid(v) /\ (ibuffer_empty(v)' <=> ibuffer_empty(v))
  BY <1>6 DEF ibuffer_empty, Valid
<1>9. PipelineCount'
  BY <1>6, <1>8 DEF PipelineCount
<1>10. inPipe' \in [Warp -> Nat]
  <2>1. ASSUME NEW v \in Warp PROVE inPipe'[v] \in Nat
    <3>1. CASE v = w
      <4>1. Valid(w)' \subseteq Slot /\ IsFiniteSet(Slot)
        <5>1. Slot = 0 .. 1
          BY DEF Slot
        <5>. QED
          BY <5>1, FS_Interval, 0 \in Int, 1 \in Int DEF Valid
      <4>2. Cardinality(Valid(w)') \in Nat
        BY <4>1, FS_Subset, FS_CardinalityType
      <4>3. Len(flying'[w]) \in Nat
        BY <1>6, LenProperties
      <4>. QED
        BY <1>6, <3>1, <4>2, <4>3
    <3>2. CASE v # w
      BY <1>1, <1>6, <3>2 DEF TypeOK
    <3>. QED
      BY <3>1, <3>2
  <2>. QED
    BY <1>6, <2>1
<1>11. FrontTypes'
  BY <1>1, <1>6, <1>7, <1>10 DEF FrontTypes, TypeOK
<1>12. AllCurrent'
  <2>1. missing \subseteq Item /\ (\A n \in DOMAIN ready : ready[n] \in Item) /\ (fetchBuffer # None => fetchBuffer \in Item)
    BY ElementOfSeq DEF FrontTypes
  <2>2. \A mf \in missing : Current(mf)' /\ imiss[mf.warp]
    BY <1>4, <1>6, <1>7, <2>1 DEF AllCurrent, Current, Item
  <2>3. \A n \in DOMAIN ready : Current(ready[n])' /\ imiss[ready[n].warp]
    BY <1>4, <1>6, <1>7, <2>1 DEF AllCurrent, Current, Item
  <2>4. fetchBuffer # None => /\ Current(fetchBuffer)' /\ ~imiss[fetchBuffer.warp]
                              /\ ibuffer'[fetchBuffer.warp] = ibuffer[fetchBuffer.warp]
    BY <1>3, <1>6, <1>7, <2>1 DEF AllCurrent, Current, Item
  <2>5. ASSUME NEW v \in Warp, NEW n \in DOMAIN flying'[v]
        PROVE  flying'[v][n] = gen'[v]
    <3>1. CASE v = w
      BY <1>6, <2>5, <3>1
    <3>2. CASE v # w
      <4>1. flying'[v] = flying[v] /\ gen' = gen
        BY <1>6, <3>2
      <4>2. n \in DOMAIN flying[v]
        BY <2>5, <4>1
      <4>. QED
        BY <4>1, <4>2 DEF AllCurrent
    <3>. QED
      BY <3>1, <3>2
  <2>. QED
    BY <1>7, <2>2, <2>3, <2>4, <2>5 DEF AllCurrent, ibuffer_empty, Valid, Current
<1>13. Alone'
  BY <1>7 DEF Alone
<1>14. MissHasFetch'
  BY <1>3, <1>7, <1>8 DEF MissHasFetch
<1>15. Ended'
  BY <1>2, <1>6, <1>8 DEF Ended
<1>16. NextIsValid'
  BY <1>6, <1>8 DEF NextIsValid
<1>. QED
  BY <1>9, <1>11, <1>12, <1>13, <1>14, <1>15, <1>16

(* Decode fills a buffer that is empty.                                    *)
LEMMA DecodeKeeps ==
  ASSUME FrontInv, Decode
  PROVE  FrontInv'
<1>. USE DEF FrontInv
<1>1. TypeOK
  BY DEF FrontTypes
<1>2. UNCHANGED <<warpVars, flying, imiss, missing, ready, lastFetched>> /\ fetchBuffer' = None /\ piece' = "fetch"
  BY DEF Decode
<1>3. CASE fetchBuffer = None
  <2>1. UNCHANGED <<ibuffer, next, inPipe>>
    BY <1>3 DEF Decode
  <2>. QED
    <3>1. FrontTypes'
      BY <1>2, <2>1 DEF FrontTypes, TypeOK, warpVars
    <3>2. PipelineCount' /\ MissHasFetch' /\ Ended' /\ NextIsValid'
      BY <1>2, <2>1 DEF PipelineCount, MissHasFetch, Ended, NextIsValid, ibuffer_empty, Valid, warpVars
    <3>3. AllCurrent' /\ Alone'
      BY <1>2, <2>1 DEF AllCurrent, Current, Alone, warpVars
    <3>. QED
      BY <3>1, <3>2, <3>3
<1>4. CASE fetchBuffer # None
  <2>1. PICK w \in Warp : w = fetchBuffer.warp
    BY <1>4 DEF FrontTypes, Item
  <2>2. PICK d : d = Decoded(fetchBuffer.pc)
    OBVIOUS
  <2>3. ~completed[w] /\ ~imiss[w] /\ ibuffer_empty(w)
    BY <1>4, <2>1 DEF AllCurrent, Current
  <2>4. ~doneExit[w]
    BY <2>3 DEF Ended
  <2>5. PICK c : c = Cardinality({s \in Slot : d[s] # None})
    OBVIOUS
  <2>6. /\ ibuffer' = [ibuffer EXCEPT ![w] = d]
        /\ next' = [next EXCEPT ![w] = 0]
        /\ inPipe' = [inPipe EXCEPT ![w] = @ + c]
    BY <1>4, <2>1, <2>2, <2>5 DEF Decode, FirstSlot
  <2>7. /\ d \in [Slot -> Pc \union {NoInst, None}]
        /\ d[0] # None
    <3>1. d[0] \in Int /\ 0 \in Slot
      BY <2>2 DEF Decoded, Slot, Pc, NoInst
    <3>2. d \in [Slot -> Pc \union {NoInst, None}]
      BY <2>2 DEF Decoded, Slot
    <3>. QED
      BY <3>1, <3>2, FrontAssumption
  <2>8. Valid(w)' = {s \in Slot : d[s] # None}
    BY <1>1, <2>6 DEF Valid, TypeOK
  <2>9. c \in Nat /\ Cardinality(Valid(w)') = c
    <3>1. Slot = 0 .. 1
      BY DEF Slot
    <3>2. IsFiniteSet(Slot)
      BY <3>1, FS_Interval, 0 \in Int, 1 \in Int
    <3>. QED
      BY <2>5, <2>8, <3>2, FS_Subset, FS_CardinalityType
  <2>10. \A v \in Warp : v # w => /\ Valid(v)' = Valid(v) /\ (ibuffer_empty(v)' <=> ibuffer_empty(v))
                                  /\ ibuffer'[v] = ibuffer[v] /\ next'[v] = next[v] /\ inPipe'[v] = inPipe[v]
    BY <1>1, <2>6 DEF TypeOK, Valid, ibuffer_empty
  <2>11. inPipe'[w] = Cardinality(Valid(w)') + Len(flying'[w])
    <3>1. inPipe[w] = Len(flying[w])
      <4>1. Len(flying[w]) \in Nat
        BY LenProperties DEF FrontTypes
      <4>. QED
        BY <2>3, <4>1, ValidCount DEF PipelineCount
    <3>2. inPipe'[w] = inPipe[w] + c /\ inPipe[w] \in Nat
      BY <1>1, <2>6 DEF TypeOK
    <3>. QED
      BY <1>2, <2>9, <3>1, <3>2
  <2>12. PipelineCount'
    BY <1>2, <2>10, <2>11 DEF PipelineCount
  <2>13. FrontTypes'
    <3>1. ibuffer' \in [Warp -> [Slot -> Pc \union {NoInst, None}]]
      BY <1>1, <2>6, <2>7 DEF TypeOK
    <3>2. next' \in [Warp -> Slot] /\ inPipe' \in [Warp -> Nat]
      BY <1>1, <2>6, <2>9 DEF TypeOK, Slot
    <3>. QED
      BY <1>2, <3>1, <3>2 DEF FrontTypes, TypeOK, warpVars
  <2>14. AllCurrent'
    BY <1>2 DEF AllCurrent, Current, warpVars
  <2>15. Alone'
    BY <1>2 DEF Alone
  <2>16. MissHasFetch'
    BY <1>2, <2>3, <2>10 DEF MissHasFetch
  <2>17. Ended'
    BY <1>2, <2>3, <2>4, <2>10 DEF Ended, warpVars
  <2>18. NextIsValid'
    <3>1. ibuffer'[w][next'[w]] # None
      BY <1>1, <2>6, <2>7 DEF TypeOK
    <3>. QED
      BY <2>10, <3>1 DEF NextIsValid
  <2>. QED
    BY <2>12, <2>13, <2>14, <2>15, <2>16, <2>17, <2>18
<1>. QED
  BY <1>3, <1>4

(* Fetch reclaims what has nothing left, and accesses the cache for a warp *)
(* that neither waits for it nor has anything to issue.                    *)
LEMMA FetchKeeps ==
  ASSUME FrontInv, FetchStage
  PROVE  FrontInv'
<1>. USE DEF FrontInv
<1>1. TypeOK
  BY DEF FrontTypes
<1>2. /\ fetchBuffer = None /\ piece' = "answer"
      /\ UNCHANGED <<gen, completed, simtPc, nextPc, bufferVars, ready>>
  BY DEF FetchStage, AllCurrent
<1>3. doneExit' \in [Warp -> BOOLEAN]
  BY <1>1 DEF FetchStage, TypeOK
<1>4. PipelineCount' /\ NextIsValid'
  BY <1>2 DEF PipelineCount, NextIsValid, bufferVars, ibuffer_empty, Valid
<1>5. Ended'
  <2>1. ASSUME NEW w \in Warp, doneExit'[w]
        PROVE  completed[w] /\ inPipe[w] = 0
    BY <2>1 DEF FetchStage, Reclaimed, HardwareDone, Ended
  <2>. QED
    BY <1>2, <2>1 DEF Ended, bufferVars, ibuffer_empty, Valid
<1>6. ASSUME UNCHANGED <<imiss, missing>>, lastFetched' \in Warp,
             \/ fetchBuffer' = None
             \/ \E w \in Warp : CanFetch(w) /\ fetchBuffer' = Fetch(w)
      PROVE  FrontInv'
  <2>1. fetchBuffer' \in Item \union {None}
    BY <1>1, <1>6 DEF TypeOK, Fetch, Item
  <2>2. FrontTypes'
    BY <1>1, <1>2, <1>3, <1>6, <2>1 DEF FrontTypes, TypeOK, bufferVars
  <2>3. fetchBuffer' # None => /\ Current(fetchBuffer)' /\ ~imiss[fetchBuffer'.warp]
                               /\ ibuffer_empty(fetchBuffer'.warp)
    BY <1>2, <1>6 DEF Current, Fetch, CanFetch
  <2>4. AllCurrent'
    BY <1>2, <1>6, <2>3 DEF AllCurrent, Current, bufferVars, ibuffer_empty, Valid
  <2>5. Alone' /\ MissHasFetch'
    BY <1>2, <1>6 DEF Alone, MissHasFetch, bufferVars, ibuffer_empty, Valid
  <2>. QED
    BY <1>4, <1>5, <2>2, <2>4, <2>5
<1>7. ASSUME NEW w \in Warp, CanFetch(w), lastFetched' = w, missing' = missing \union {Fetch(w)},
             imiss' = [imiss EXCEPT ![w] = TRUE], UNCHANGED fetchBuffer
      PROVE  FrontInv'
  <2>1. PICK mf : mf = Fetch(w)
    OBVIOUS
  <2>2. mf \in Item /\ mf.warp = w /\ mf.gen = gen[w]
    BY <1>1, <2>1 DEF TypeOK, Fetch, Item
  <2>3. imiss' \in [Warp -> BOOLEAN] /\ imiss'[w] /\ \A v \in Warp : v # w => imiss'[v] = imiss[v]
    BY <1>1, <1>7 DEF TypeOK
  <2>4. FrontTypes'
    BY <1>1, <1>2, <1>3, <1>7, <2>1, <2>2, <2>3 DEF FrontTypes, TypeOK, bufferVars
  <2>5. (\A nf \in missing : nf.warp # w) /\ (\A n \in DOMAIN ready : ready[n].warp # w)
    BY <1>7 DEF AllCurrent, CanFetch
  <2>6. missing \subseteq Item /\ (\A n \in DOMAIN ready : ready[n] \in Item)
    BY ElementOfSeq DEF FrontTypes
  <2>7. \A nf \in missing' : Current(nf)' /\ imiss'[nf.warp]
    BY <1>2, <1>7, <2>1, <2>2, <2>3, <2>5, <2>6 DEF AllCurrent, Current, CanFetch, Item
  <2>8. \A n \in DOMAIN ready : Current(ready[n])' /\ imiss'[ready[n].warp]
    BY <1>2, <2>3, <2>5, <2>6 DEF AllCurrent, Current, Item
  <2>9. AllCurrent'
    BY <1>2, <1>7, <2>7, <2>8 DEF AllCurrent, Current, bufferVars
  <2>10. Alone'
    BY <1>2, <1>7, <2>1, <2>2, <2>5 DEF Alone
  <2>11. MissHasFetch'
    BY <1>2, <1>7, <2>1, <2>2, <2>3 DEF MissHasFetch, CanFetch, bufferVars, ibuffer_empty, Valid
  <2>. QED
    BY <1>4, <1>5, <2>4, <2>9, <2>10, <2>11
<1>8. CASE Chosen = {}
  BY <1>1, <1>2, <1>6, <1>8 DEF FetchStage, TypeOK
<1>9. CASE Chosen # {}
  <2>1. PICK w \in Warp : CanFetch(w) /\ Accessed(w)
    BY <1>9 DEF FetchStage, Chosen
  <2>. QED
    BY <1>2, <1>6, <1>7, <2>1 DEF Accessed
<1>. QED
  BY <1>8, <1>9

(* The answer that is delivered is the only fetch of its warp.             *)
LEMMA AnswerKeeps ==
  ASSUME FrontInv, next_access
  PROVE  FrontInv'
<1>. USE DEF FrontInv
<1>1. TypeOK
  BY DEF FrontTypes
<1>2. piece' = "issue" /\ UNCHANGED <<warpVars, bufferVars, fetchBuffer, missing, lastFetched>>
  BY DEF next_access
<1>3. PipelineCount' /\ NextIsValid' /\ Ended'
  BY <1>2 DEF PipelineCount, NextIsValid, Ended, warpVars, bufferVars, ibuffer_empty, Valid
<1>4. CASE ready = <<>>
  <2>1. UNCHANGED <<imiss, ready>>
    BY <1>4 DEF next_access
  <2>2. FrontTypes'
    BY <1>2, <2>1 DEF FrontTypes, TypeOK, warpVars, bufferVars
  <2>3. AllCurrent' /\ Alone' /\ MissHasFetch'
    BY <1>2, <2>1 DEF AllCurrent, Current, Alone, MissHasFetch, warpVars, bufferVars, ibuffer_empty, Valid
  <2>. QED
    BY <1>3, <2>2, <2>3
<1>5. CASE ready # <<>>
  <2>1. ready \in Seq(Item) /\ 1 \in DOMAIN ready /\ Head(ready) = ready[1]
    <3>1. ready \in Seq(Item) /\ Len(ready) \in Nat /\ Len(ready) # 0 /\ DOMAIN ready = 1 .. Len(ready)
      BY <1>5, EmptySeq, LenProperties DEF FrontTypes
    <3>. QED
      BY <3>1
  <2>2. PICK w \in Warp : w = ready[1].warp
    <3>1. ready[1] \in Item
      BY <2>1
    <3>. QED
      BY <3>1 DEF Item
  <2>3. PICK t : t = Tail(ready)
    OBVIOUS
  <2>4. t \in Seq(Item) /\ \A n \in DOMAIN t : n \in Int /\ n + 1 \in DOMAIN ready /\ t[n] = ready[n + 1]
    <3>1. t \in Seq(Item) /\ \A n \in DOMAIN t : n + 1 \in DOMAIN ready /\ t[n] = ready[n + 1]
      BY <1>5, <2>1, <2>3, TailFacts
    <3>2. DOMAIN t \subseteq Int
      BY <3>1, LenProperties
    <3>. QED
      BY <3>1, <3>2
  <2>5. \A n \in DOMAIN ready : n = 1 \/ \E m \in DOMAIN t : t[m] = ready[n]
    <3> SUFFICES ASSUME NEW n \in DOMAIN ready, n # 1
                 PROVE  \E m \in DOMAIN t : t[m] = ready[n]
      OBVIOUS
    <3>1. PICK k \in Nat : k = Len(ready) /\ Len(t) = k - 1 /\ k # 0
      BY <1>5, <2>1, <2>3, TailFacts
    <3>2. n \in 1 .. k /\ DOMAIN t = 1 .. k - 1
      BY <2>1, <2>4, <3>1, LenProperties
    <3>3. n - 1 \in DOMAIN t /\ (n - 1) + 1 = n
      BY <3>1, <3>2
    <3>. QED
      BY <2>4, <3>3
  <2>6. ready' = t /\ imiss' = [imiss EXCEPT ![w] = FALSE]
    BY <1>5, <2>1, <2>2, <2>3 DEF next_access
  <2>7. imiss' \in [Warp -> BOOLEAN] /\ ~imiss'[w] /\ \A v \in Warp : v # w => imiss'[v] = imiss[v]
    BY <1>1, <2>6 DEF TypeOK
  <2>8. (\A mf \in missing : mf.warp # w) /\ (\A n \in DOMAIN t : t[n].warp # w)
    <3>1. \A mf \in missing : mf.warp # w
      BY <2>1, <2>2 DEF Alone
    <3>2. ASSUME NEW n \in DOMAIN t, t[n].warp = w PROVE FALSE
      <4>1. n + 1 = 1
        BY <2>1, <2>2, <2>4, <3>2 DEF Alone
      <4>2. n \in 1 .. Len(t) /\ Len(t) \in Nat
        BY <2>4, LenProperties
      <4>. QED
        BY <4>1, <4>2
    <3>. QED
      BY <3>1, <3>2
  <2>9. FrontTypes'
    BY <1>1, <1>2, <2>4, <2>6, <2>7 DEF FrontTypes, TypeOK, warpVars, bufferVars
  <2>10. missing \subseteq Item /\ (\A n \in DOMAIN t : t[n] \in Item) /\ (fetchBuffer # None => fetchBuffer \in Item)
    BY <2>4, ElementOfSeq DEF FrontTypes
  <2>11. AllCurrent'
    <3>1. UNCHANGED <<gen, completed, ibuffer, flying, fetchBuffer, missing>>
      BY <1>2 DEF warpVars, bufferVars
    <3>2. \A mf \in missing : Current(mf) /\ imiss'[mf.warp]
      BY <2>7, <2>8, <2>10 DEF AllCurrent, Item
    <3>3. \A n \in DOMAIN t : Current(t[n]) /\ imiss'[t[n].warp]
      BY <2>4, <2>7, <2>8, <2>10 DEF AllCurrent, Item
    <3>4. fetchBuffer # None => ~imiss'[fetchBuffer.warp]
      BY <2>7, <2>10 DEF AllCurrent, Item
    <3>. QED
      BY <1>2, <2>6, <3>1, <3>2, <3>3, <3>4 DEF AllCurrent, Current, ibuffer_empty, Valid
  <2>12. Alone'
    <3>1. \A m \in DOMAIN t, n \in DOMAIN t : t[m].warp = t[n].warp => m = n
      <4> SUFFICES ASSUME NEW m \in DOMAIN t, NEW n \in DOMAIN t, t[m].warp = t[n].warp
                   PROVE  m = n
        OBVIOUS
      <4>1. m + 1 = n + 1 /\ m \in Int /\ n \in Int
        BY <2>4 DEF Alone
      <4>. QED
        BY <4>1
    <3>. QED
      BY <1>2, <2>4, <2>6, <3>1 DEF Alone
  <2>13. MissHasFetch'
    <3>1. UNCHANGED <<ibuffer, missing>>
      BY <1>2 DEF bufferVars
    <3>2. ASSUME NEW v \in Warp, imiss'[v]
          PROVE  /\ ibuffer_empty(v)
                 /\ (\E mf \in missing : mf.warp = v) \/ \E n \in DOMAIN t : t[n].warp = v
      <4>1. v # w /\ imiss[v]
        BY <2>7, <3>2
      <4>2. CASE \E mf \in missing : mf.warp = v
        BY <4>1, <4>2 DEF MissHasFetch
      <4>3. CASE \E n \in DOMAIN ready : ready[n].warp = v
        BY <2>2, <2>5, <4>1, <4>3 DEF MissHasFetch
      <4>. QED
        BY <4>1, <4>2, <4>3 DEF MissHasFetch
    <3>. QED
      BY <2>6, <3>1, <3>2 DEF MissHasFetch, ibuffer_empty, Valid
  <2>. QED
    BY <1>3, <2>9, <2>11, <2>12, <2>13
<1>. QED
  BY <1>4, <1>5

LEMMA NextKeeps ==
  ASSUME FrontInv, [Next]_vars
  PROVE  FrontInv'
<1>1. CASE Issue
  <2>1. ASSUME NEW w \in Warp, Step(w)
        PROVE  FrontInv'
    BY <1>1, <2>1, StepKeeps DEF Issue
  <2>2. CASE UNCHANGED <<warpVars, bufferVars>>
    <3>1. UNCHANGED <<warpVars, bufferVars, fetchVars>> /\ piece' = "decode"
      BY <1>1, <2>2 DEF Issue
    <3>2. FrontTypes'
      BY <3>1 DEF FrontInv, FrontTypes, TypeOK, warpVars, bufferVars, fetchVars
    <3>3. AllCurrent' /\ Alone' /\ MissHasFetch'
      BY <3>1 DEF FrontInv, AllCurrent, Current, Alone, MissHasFetch, ibuffer_empty, Valid, warpVars,
           bufferVars, fetchVars
    <3>4. PipelineCount' /\ Ended' /\ NextIsValid'
      BY <3>1 DEF FrontInv, PipelineCount, Ended, NextIsValid, ibuffer_empty, Valid, warpVars, bufferVars
    <3>. QED
      BY <3>2, <3>3, <3>4 DEF FrontInv
  <2>. QED
    BY <1>1, <2>1, <2>2 DEF Issue
<1>2. CASE UNCHANGED vars
  <2>1. FrontTypes'
    BY <1>2 DEF FrontInv, FrontTypes, TypeOK, vars, warpVars, bufferVars, fetchVars
  <2>2. AllCurrent' /\ Alone' /\ MissHasFetch'
    BY <1>2 DEF FrontInv, AllCurrent, Current, Alone, MissHasFetch, ibuffer_empty, Valid, vars, warpVars,
         bufferVars, fetchVars
  <2>3. PipelineCount' /\ Ended' /\ NextIsValid'
    BY <1>2 DEF FrontInv, PipelineCount, Ended, NextIsValid, ibuffer_empty, Valid, vars, warpVars,
         bufferVars
  <2>. QED
    BY <2>1, <2>2, <2>3 DEF FrontInv
<1>. QED
  BY <1>1, <1>2, DecodeKeeps, FetchKeeps, AnswerKeeps, LaunchKeeps, CompleteKeeps, FillKeeps
     DEF Next, cycle

(* FrontHolds speaks of counts and of sets where FrontInv speaks of the    *)
(* fetches one by one.                                                     *)
LEMMA InvImplies == FrontInv => FrontHolds
<1> SUFFICES ASSUME FrontInv PROVE FrontHolds
  OBVIOUS
<1>. USE DEF FrontInv
<1>1. ASSUME NEW w \in Warp
      PROVE  doneExit[w] => inPipe[w] = 0 /\ flying[w] = <<>>
  <2> SUFFICES ASSUME doneExit[w] PROVE inPipe[w] = 0 /\ flying[w] = <<>>
    OBVIOUS
  <2>1. inPipe[w] = 0 /\ flying[w] \in Seq(0 .. MaxLaunch)
    BY DEF Ended, FrontTypes
  <2>2. Len(flying[w]) = 0
    BY <2>1, ValidCount, LenProperties DEF PipelineCount
  <2>. QED
    BY <2>1, <2>2, EmptySeq
<1>2. NoStale
  <2> SUFFICES ASSUME NEW w \in Warp
               PROVE  /\ \A n \in DOMAIN flying[w] : flying[w][n] = gen[w] /\ ~doneExit[w]
                      /\ \A mf \in missing \union {ready[n] : n \in DOMAIN ready} \union ({fetchBuffer} \ {None}) :
                           mf.warp = w => mf.gen = gen[w] /\ ~completed[w]
                      /\ doneExit[w] => inPipe[w] = 0
    BY DEF NoStale
  <2>1. \A n \in DOMAIN flying[w] : flying[w][n] = gen[w] /\ ~doneExit[w]
    BY <1>1 DEF AllCurrent
  <2>2. \A mf \in missing \union {ready[n] : n \in DOMAIN ready} \union ({fetchBuffer} \ {None}) :
          Current(mf)
    BY DEF AllCurrent
  <2>. QED
    BY <1>1, <2>1, <2>2 DEF Current
<1>3. OneFetch
  <2> SUFFICES ASSUME NEW w \in Warp,
                      NEW O, O = {mf \in missing : mf.warp = w},
                      NEW G, G = {n \in DOMAIN ready : ready[n].warp = w}
               PROVE  /\ imiss[w] <=> Cardinality(O) + Cardinality(G) = 1
                      /\ ~imiss[w] => Cardinality(O) + Cardinality(G) = 0
                      /\ imiss[w] \/ (fetchBuffer # None /\ fetchBuffer.warp = w) => ibuffer_empty(w)
                      /\ imiss[w] => fetchBuffer = None \/ fetchBuffer.warp # w
    BY DEF OneFetch
  <2>1. (\A x \in O, y \in O : x = y) /\ (\A x \in G, y \in G : x = y) /\ (O = {} \/ G = {})
    BY DEF Alone
  <2>2. Cardinality(O) + Cardinality(G) \in 0 .. 1 /\ (Cardinality(O) + Cardinality(G) = 0 <=> O = {} /\ G = {})
    BY <2>1, OneOrNone
  <2>3. imiss[w] <=> ~(O = {} /\ G = {})
    BY DEF AllCurrent, MissHasFetch
  <2>. QED
    BY <2>2, <2>3 DEF AllCurrent, MissHasFetch
<1>. QED
  BY <1>2, <1>3 DEF FrontHolds, FrontTypes

(* The pipeline counts are right after every flush; a slot that is reused  *)
(* never meets an instruction or a fetch of its old warp; a warp has one   *)
(* fetch out, and its buffer never hides what is left in it.               *)
THEOREM FrontAlwaysHolds == Spec => []FrontHolds
<1>1. FrontInv /\ [Next]_vars => FrontInv'
  BY NextKeeps
<1>. QED
  BY InitInv, <1>1, InvImplies, PTL DEF Spec

=============================================================================
