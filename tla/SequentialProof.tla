--------------------------- MODULE SequentialProof ---------------------------
(***************************************************************************)
(* Proofs about the recorder, for any length of its buffer, and about the  *)
(* algorithms, for every array of integers.                                *)
(***************************************************************************)
EXTENDS MCSequential, FiniteSetTheorems, SequenceTheorems, WellFoundedInduction, TLAPS

CONSTANT Blank    \* the character between the words of a text

-----------------------------------------------------------------------------
(* Induction and recursion.                                                *)

\* A set of numbers that has 0, and with each number the next, has all.
LEMMA NatSet ==
  ASSUME NEW T, 0 \in T, \A n \in Nat : n \in T => n + 1 \in T
  PROVE  \A n \in Nat : n \in T
<1> DEFINE R == OpToRel(<, Nat)
           Rest == {n \in Nat : n \notin T}
<1>1. IsWellFoundedOn(R, Nat)
  BY NatLessThanWellFounded
<1>2. \A x, y \in Nat : y < x => <<y, x>> \in R
  BY DEF OpToRel
<1>3. SUFFICES ASSUME Rest # {} PROVE FALSE
  OBVIOUS
<1>4. Rest \subseteq Nat
  OBVIOUS
<1> HIDE DEF R
<1>5. PICK x \in Rest : \A y \in Rest : ~ (<<y, x>> \in R)
  <2> HIDE DEF Rest
  <2> QED BY <1>1, <1>3, <1>4, WFMin
<1>6. x \in Nat /\ x # 0
  OBVIOUS
<1>7. x - 1 \in Nat /\ x - 1 < x
  BY <1>6
<1>8. x - 1 \in T
  BY <1>2, <1>5, <1>6, <1>7
<1> QED
  BY <1>6, <1>7, <1>8

\* A function is defined by recursion when step gives its value at x from its values
\* at the places of a smaller measure.
Depends(D, m, step, F) ==
  \A x \in D : \A g, h \in F : (\A y \in D : m[y] < m[x] => g[y] = h[y]) => step[x][g] = step[x][h]

Recursive(D, V, m, step) == /\ V # {} /\ m \in [D -> Nat] /\ step \in [D -> [[D -> V] -> V]]
                            /\ Depends(D, m, step, [D -> V])
Solves(D, V, step, f) == f \in [D -> V] /\ \A x \in D : f[x] = step[x][f]

LEMMA Recursion ==
  ASSUME NEW D, NEW V, NEW m, NEW step, Recursive(D, V, m, step)
  PROVE  \E f : Solves(D, V, step, f)
<1> USE DEF Recursive
<1> DEFINE F == [D -> V]
           Up(n, f) == \A x \in D : m[x] < n => f[x] = step[x][f]
           T == {n \in Nat : \E f \in F : Up(n, f)}
<1>1. \A x \in D : \A f \in F : step[x][f] \in V
  OBVIOUS
<1>2. 0 \in T
  <2>1. PICK v \in V : TRUE
    OBVIOUS
  <2>2. [x \in D |-> v] \in F
    OBVIOUS
  <2>3. Up(0, [x \in D |-> v])
    OBVIOUS
  <2> QED
    BY <2>2, <2>3
<1>3. \A n \in Nat : n \in T => n + 1 \in T
  <2> SUFFICES ASSUME NEW n \in Nat, n \in T PROVE n + 1 \in T
    OBVIOUS
  <2>1. PICK f \in F : Up(n, f)
    OBVIOUS
  <2> DEFINE g == [x \in D |-> step[x][f]]
  <2>2. g \in F
    BY <1>1
  <2>3. ASSUME NEW x \in D, m[x] < n + 1 PROVE g[x] = step[x][g]
    <3>1. \A y \in D : m[y] < m[x] => f[y] = g[y]
      BY <2>1, <2>3
    <3> HIDE DEF g
    <3>2. step[x][f] = step[x][g]
      BY <2>2, <3>1 DEF Depends
    <3> QED
      BY <3>2 DEF g
  <2>4. Up(n + 1, g)
    BY <2>3
  <2> HIDE DEF g, Up
  <2> QED
    BY <2>2, <2>4
<1>4. \A n \in Nat : \E f \in F : Up(n, f)
  <2>1. \A n \in Nat : n \in T
    <3> HIDE DEF T
    <3> QED BY <1>2, <1>3, NatSet
  <2> QED
    BY <2>1
<1>5. ASSUME NEW n \in Nat, NEW f \in F, NEW g \in F, Up(n, f), Up(n, g)
      PROVE  \A x \in D : m[x] < n => f[x] = g[x]
  <2> DEFINE S == {k \in Nat : \A x \in D : m[x] < k /\ m[x] < n => f[x] = g[x]}
  <2>1. 0 \in S
    OBVIOUS
  <2>2. ASSUME NEW k \in Nat, k \in S PROVE k + 1 \in S
    <3> SUFFICES ASSUME NEW x \in D, m[x] < k + 1, m[x] < n PROVE f[x] = g[x]
      OBVIOUS
    <3>1. \A y \in D : m[y] < m[x] => f[y] = g[y]
      BY <2>2
    <3>2. step[x][f] = step[x][g]
      BY <3>1 DEF Depends
    <3> QED
      BY <1>5, <3>2
  <2>3. \A k \in Nat : k \in S
    <3> HIDE DEF S
    <3> QED BY <2>1, <2>2, NatSet
  <2>4. n \in S
    BY <2>3
  <2> QED
    BY <2>4
<1> DEFINE At(n) == CHOOSE f \in F : Up(n, f)
           h == [x \in D |-> At(m[x] + 1)[x]]
<1>6. \A n \in Nat : At(n) \in F /\ Up(n, At(n))
  BY <1>4
<1>7. h \in F
  <2> HIDE DEF At
  <2> QED BY <1>6
<1>8. ASSUME NEW x \in D PROVE h[x] = step[x][h]
  <2> DEFINE f == At(m[x] + 1)
  <2>0. \A y \in D : m[y] \in Nat /\ m[y] + 1 \in Nat
    OBVIOUS
  <2>1. f \in F /\ Up(m[x] + 1, f)
    <3> HIDE DEF At, Up, F
    <3> QED BY <1>6, <2>0
  <2>2. ASSUME NEW y \in D, m[y] < m[x] PROVE f[y] = h[y]
    <3>1. At(m[y] + 1) \in F /\ Up(m[y] + 1, At(m[y] + 1))
      <4> HIDE DEF At, Up, F
      <4> QED BY <1>6, <2>0
    <3> HIDE DEF f, At
    <3>2. Up(m[y] + 1, f)
      BY <2>0, <2>1, <2>2
    <3>3. \A z \in D : m[z] < m[y] + 1 => f[z] = At(m[y] + 1)[z]
      <4> HIDE DEF Up, F
      <4> QED BY <1>5, <2>0, <2>1, <3>1, <3>2
    <3> QED
      BY <2>0, <3>3
  <2>3. f[x] = step[x][f]
    <3> HIDE DEF f
    <3> QED BY <2>0, <2>1
  <2>4. h[x] = f[x]
    OBVIOUS
  <2> HIDE DEF f, h
  <2>5. step[x][f] = step[x][h]
    BY <1>7, <2>1, <2>2 DEF Depends
  <2> QED
    BY <2>3, <2>4, <2>5
<1> QED
  BY <1>7, <1>8 DEF Solves

-----------------------------------------------------------------------------
(* The recorder.                                                           *)

\* The loops that add up compute what any function computes that starts at 0 and adds
\* s[i] at i.
LEMMA AddedIs ==
  ASSUME NEW n \in Nat, NEW s \in [1..n -> Int], NEW g \in [0..n -> Int],
         g[0] = 0, \A i \in 1..n : g[i] = g[i - 1] + s[i]
  PROVE  Added(s) = g[n]
<1> DEFINE Eq(f) == f = [i \in 0..n |-> IF i = 0 THEN 0 ELSE f[i - 1] + s[i]]
           sum == CHOOSE f : Eq(f)
<1>1. Len(s) = n
  BY LenProperties
<1>2. Added(s) = sum[n]
  BY <1>1 DEF Added
<1>3. Eq(g)
  OBVIOUS
<1>4. Eq(sum)
  <2> HIDE DEF Eq
  <2> QED BY <1>3
<1> HIDE DEF sum
<1>5. \A i \in 0..n : sum[i] = IF i = 0 THEN 0 ELSE sum[i - 1] + s[i]
  BY <1>4
<1> DEFINE T == {i \in Nat : i <= n => sum[i] = g[i]}
<1>6. 0 \in T
  BY <1>5
<1>7. ASSUME NEW i \in Nat, i \in T PROVE i + 1 \in T
  BY <1>5, <1>7
<1>8. \A i \in Nat : i \in T
  <2> HIDE DEF T
  <2> QED BY <1>6, <1>7, NatSet
<1> QED
  BY <1>2, <1>8

\* Sums over subsets of Numbers: g is the sum of the weights w.
Pick(s) == CHOOSE x \in s : TRUE
Sums(w, g) == /\ w \in [Numbers -> Int] /\ g \in [SUBSET Numbers -> Int]
              /\ \A s \in SUBSET Numbers :
                   g[s] = IF s = {} THEN 0 ELSE w[Pick(s)] + g[s \ {Pick(s)}]

\* A part of Numbers loses one element when the picked one is taken away.
LEMMA PickIs ==
  ASSUME NEW s \in SUBSET Numbers, s # {}
  PROVE  /\ Pick(s) \in s /\ Pick(s) \in Numbers /\ s \ {Pick(s)} \in SUBSET Numbers
         /\ Cardinality(s) \in Nat /\ Cardinality(s \ {Pick(s)}) \in Nat
         /\ Cardinality(s \ {Pick(s)}) = Cardinality(s) - 1
<1>1. Pick(s) \in s
  BY DEF Pick
<1>2. IsFiniteSet(s)
  BY RecorderAssumption, FS_Subset
<1>3. Cardinality(s) \in Nat /\ Cardinality(s \ {Pick(s)}) = Cardinality(s) - 1
  BY <1>1, <1>2, FS_CardinalityType, FS_RemoveElement
<1>4. IsFiniteSet(s \ {Pick(s)})
  BY <1>2, FS_Subset
<1> QED
  BY <1>1, <1>3, <1>4, FS_CardinalityType

\* There is such a sum.
LEMMA SumsExist ==
  ASSUME NEW w \in [Numbers -> Int]
  PROVE  \E g : Sums(w, g)
<1> DEFINE D == SUBSET Numbers
           m == [s \in D |-> Cardinality(s)]
           body(s, g) == IF s = {} THEN 0 ELSE w[Pick(s)] + g[s \ {Pick(s)}]
           step == [s \in D |-> [g \in [D -> Int] |-> body(s, g)]]
<1>1. m \in [D -> Nat]
  <2>1. \A s \in D : Cardinality(s) \in Nat
    BY RecorderAssumption, FS_Subset, FS_CardinalityType
  <2> QED
    BY <2>1
<1>2. \A s \in D : \A g \in [D -> Int] : body(s, g) \in Int
  <2> SUFFICES ASSUME NEW s \in D, NEW g \in [D -> Int], s # {} PROVE body(s, g) \in Int
    OBVIOUS
  <2>1. Pick(s) \in Numbers /\ s \ {Pick(s)} \in D
    BY PickIs
  <2>2. w[Pick(s)] \in Int /\ g[s \ {Pick(s)}] \in Int
    BY <2>1
  <2> QED
    BY <2>2
<1>3. step \in [D -> [[D -> Int] -> Int]]
  <2> HIDE DEF body
  <2> QED BY <1>2
<1>4. ASSUME NEW s \in D, NEW g \in [D -> Int], NEW h \in [D -> Int],
             \A y \in D : m[y] < m[s] => g[y] = h[y]
      PROVE  body(s, g) = body(s, h)
  <2> SUFFICES ASSUME s # {} PROVE g[s \ {Pick(s)}] = h[s \ {Pick(s)}]
    OBVIOUS
  <2>1. s \ {Pick(s)} \in D /\ Cardinality(s \ {Pick(s)}) < Cardinality(s)
    BY PickIs
  <2> QED
    BY <1>4, <2>1
<1>5. Depends(D, m, step, [D -> Int])
  <2> SUFFICES ASSUME NEW s \in D, NEW g \in [D -> Int], NEW h \in [D -> Int],
                      \A y \in D : m[y] < m[s] => g[y] = h[y]
               PROVE  step[s][g] = step[s][h]
    BY DEF Depends
  <2>1. body(s, g) = body(s, h)
    BY <1>4
  <2> HIDE DEF body
  <2> QED
    BY <2>1
<1>6. Recursive(D, Int, m, step)
  <2>1. Int # {}
    OBVIOUS
  <2> QED
    BY <1>1, <1>3, <1>5, <2>1, Zenon DEF Recursive
<1>7. PICK g : Solves(D, Int, step, g)
  <2> HIDE DEF D, m, step
  <2> QED BY <1>6, Recursion, Zenon
<1>8. g \in [D -> Int] /\ \A s \in D : g[s] = body(s, g)
  <2> HIDE DEF body
  <2> QED BY <1>7 DEF Solves
<1>9. Sums(w, g)
  BY <1>8 DEF Sums
<1> QED
  BY <1>9

\* When one weight changes, the sums over the sets that have it change by as much.
LEMMA SumsChange ==
  ASSUME NEW w, NEW g, NEW v, NEW h, NEW x \in Numbers, Sums(w, g), Sums(v, h),
         \A e \in Numbers : e # x => v[e] = w[e]
  PROVE  \A s \in SUBSET Numbers : h[s] = g[s] + (IF x \in s THEN v[x] - w[x] ELSE 0)
<1> DEFINE Ok(s) == h[s] = g[s] + (IF x \in s THEN v[x] - w[x] ELSE 0)
           T == {n \in Nat : \A s \in SUBSET Numbers : Cardinality(s) = n => Ok(s)}
<1>1. 0 \in T
  <2>1. ASSUME NEW s \in SUBSET Numbers, Cardinality(s) = 0 PROVE Ok(s)
    <3>1. s = {}
      BY <2>1, RecorderAssumption, FS_Subset, FS_EmptySet
    <3>2. g[s] = 0 /\ h[s] = 0
      BY <3>1 DEF Sums
    <3> QED
      BY <3>1, <3>2
  <2> QED
    BY <2>1
<1>2. ASSUME NEW n \in Nat, n \in T PROVE n + 1 \in T
  <2>1. ASSUME NEW s \in SUBSET Numbers, Cardinality(s) = n + 1 PROVE Ok(s)
    <3> DEFINE p == Pick(s)
               t == s \ {p}
    <3>1. s # {}
      BY <2>1, FS_EmptySet
    <3>2. p \in s /\ p \in Numbers /\ t \in SUBSET Numbers /\ Cardinality(t) = n
      BY <2>1, <3>1, PickIs
    <3>3. Ok(t)
      BY <1>2, <3>2
    <3>4. g[s] = w[p] + g[t] /\ h[s] = v[p] + h[t]
      BY <3>1 DEF Sums
    <3>5. w[p] \in Int /\ v[p] \in Int /\ w[x] \in Int /\ v[x] \in Int /\ g[t] \in Int /\ h[t] \in Int
      BY <3>2 DEF Sums
    <3>6. CASE p = x
      BY <3>2, <3>3, <3>4, <3>5, <3>6
    <3>7. CASE p # x
      <4>1. v[p] = w[p] /\ (x \in s <=> x \in t)
        BY <3>2, <3>7
      <4> HIDE DEF p, t
      <4> QED BY <3>3, <3>4, <3>5, <4>1
    <3> QED
      BY <3>6, <3>7
  <2> QED
    BY <2>1
<1>3. \A n \in Nat : n \in T
  <2> HIDE DEF T
  <2> QED BY <1>1, <1>2, NatSet
<1>4. \A s \in SUBSET Numbers : Cardinality(s) \in Nat
  BY RecorderAssumption, FS_Subset, FS_CardinalityType
<1> QED
  BY <1>3, <1>4

\* The sum over Numbers that RecordsLast speaks of is one of these sums.
LEMMA SumSetIs ==
  ASSUME NEW w, NEW g, Sums(w, g), \A e \in Numbers : w[e] = e * Occurs(e)
  PROVE  MapThenSumSet(LAMBDA e : e * Occurs(e), Numbers) = g[Numbers]
<1> DEFINE Eq(f) == f = [s \in SUBSET Numbers |->
                           IF s = {} THEN 0
                           ELSE Pick(s) * Occurs(Pick(s)) + f[s \ {Pick(s)}]]
           sum == CHOOSE f : Eq(f)
<1>1. MapThenSumSet(LAMBDA e : e * Occurs(e), Numbers) = sum[Numbers]
  BY DEF MapThenSumSet, MapThenFoldSet, Pick
<1>2. Eq(g)
  <2>1. \A s \in SUBSET Numbers : g[s] = IF s = {} THEN 0
                                         ELSE Pick(s) * Occurs(Pick(s)) + g[s \ {Pick(s)}]
    BY PickIs DEF Sums
  <2>2. g \in [SUBSET Numbers -> Int]
    BY DEF Sums
  <2> QED
    BY <2>1, <2>2
<1>3. Eq(sum)
  <2> HIDE DEF Eq
  <2> QED BY <1>2
<1> HIDE DEF sum
<1>4. \A s \in SUBSET Numbers : sum[s] = IF s = {} THEN 0
                                         ELSE w[Pick(s)] + sum[s \ {Pick(s)}]
  BY <1>3, PickIs
<1> DEFINE T == {n \in Nat : \A s \in SUBSET Numbers : Cardinality(s) = n => sum[s] = g[s]}
<1>5. 0 \in T
  <2>1. ASSUME NEW s \in SUBSET Numbers, Cardinality(s) = 0 PROVE sum[s] = g[s]
    <3>1. s = {}
      BY <2>1, RecorderAssumption, FS_Subset, FS_EmptySet
    <3> QED
      BY <1>4, <3>1 DEF Sums
  <2> QED
    BY <2>1
<1>6. ASSUME NEW n \in Nat, n \in T PROVE n + 1 \in T
  <2>1. ASSUME NEW s \in SUBSET Numbers, Cardinality(s) = n + 1 PROVE sum[s] = g[s]
    <3>1. s # {}
      BY <2>1, FS_EmptySet
    <3>2. s \ {Pick(s)} \in SUBSET Numbers /\ Cardinality(s \ {Pick(s)}) = n
      BY <2>1, <3>1, PickIs
    <3>3. sum[s \ {Pick(s)}] = g[s \ {Pick(s)}]
      BY <1>6, <3>2
    <3> QED
      BY <1>4, <3>1, <3>3 DEF Sums
  <2> QED
    BY <2>1
<1>7. \A n \in Nat : n \in T
  <2> HIDE DEF T
  <2> QED BY <1>5, <1>6, NatSet
<1>8. Cardinality(Numbers) \in Nat
  BY RecorderAssumption, FS_CardinalityType
<1> QED
  BY <1>1, <1>7, <1>8
\* Where a place of the buffer is after at most one round.
LEMMA Wrap ==
  ASSUME NEW b \in 0..(LEN - 1), NEW i \in 0..LEN
  PROVE  (b + i) % LEN = IF b + i < LEN THEN b + i ELSE b + i - LEN
<1>1. LEN \in Nat /\ LEN > 0
  BY RecorderAssumption
<1>2. \A x \in 0..(LEN - 1) : x % LEN = x
  BY <1>1
<1>3. \A x \in LEN..(2 * LEN - 1) : x % LEN = x - LEN
  BY <1>1
<1> QED
  BY <1>1, <1>2, <1>3

\* The invariant: the places from beg to cur have the numbers that were appended last.
Spot(b, i) == (b + i - 1) % LEN
RecorderTypeOK == /\ buf \in [0..(LEN - 1) -> Numbers]
                  /\ beg \in 0..(LEN - 1) /\ cur \in 0..(LEN - 1)
                  /\ started \in BOOLEAN
                  /\ appended \in Seq(Numbers)
Window == /\ len = Len(appended)
          /\ started <=> len > 0
          /\ cur = IF len = 0 THEN beg ELSE Spot(beg, get_len)
          /\ \A i \in 1..get_len : buf[Spot(beg, i)] = appended[len - get_len + i]
RecorderInv == RecorderTypeOK /\ Window

\* The invariant holds when the recorder is constructed, whatever is in its buffer.
LEMMA RecorderInitInv == RecorderInit => RecorderInv
<1> SUFFICES ASSUME RecorderInit PROVE RecorderInv
  OBVIOUS
<1>1. LEN \in Nat /\ LEN > 0
  BY RecorderAssumption
<1>2. RecorderTypeOK
  <2>1. PICK junk \in Numbers : buf = [i \in 0..(LEN - 1) |-> junk]
    BY DEF RecorderInit
  <2>2. buf \in [0..(LEN - 1) -> Numbers]
    BY <2>1
  <2>3. appended = <<>> /\ started = FALSE /\ beg = 0 /\ cur = 0
    BY DEF RecorderInit
  <2>4. appended \in Seq(Numbers) /\ started \in BOOLEAN
    BY <2>3, EmptySeq
  <2> QED
    BY <1>1, <2>2, <2>3, <2>4 DEF RecorderTypeOK
<1>3. Window
  BY <1>1 DEF RecorderInit, Window, get_len
<1> QED
  BY <1>2, <1>3 DEF RecorderInv

\* append keeps it: the new number takes the place behind cur, which is that of the oldest
\* once the buffer is full.
LEMMA AppendInv == ASSUME RecorderInv, NEW in \in Numbers, append(in) PROVE RecorderInv'
<1> USE DEF RecorderInv
<1>1. LEN \in Nat /\ LEN > 0
  BY RecorderAssumption
<1>2. len \in Nat /\ len = Len(appended) /\ (started <=> len > 0)
  BY DEF RecorderTypeOK, Window
<1>3. /\ len' = len + 1 /\ started' = TRUE /\ appended' = Append(appended, in)
      /\ cur' = IF started THEN (cur + 1) % LEN ELSE cur
      /\ buf' = [buf EXCEPT ![cur'] = in]
      /\ beg' = IF started /\ beg = cur' THEN (beg + 1) % LEN ELSE beg
  BY DEF append, Beg
<1>4. appended' \in Seq(Numbers) /\ Len(appended') = len + 1 /\ appended'[len + 1] = in
      /\ \A i \in 1..len : appended'[i] = appended[i]
  BY <1>2, <1>3 DEF RecorderTypeOK
<1>5. \A b \in 0..(LEN - 1) : \A i \in 0..LEN : (b + i) % LEN = IF b + i < LEN THEN b + i ELSE b + i - LEN
  BY Wrap
<1>6. beg \in 0..(LEN - 1) /\ cur \in 0..(LEN - 1) /\ buf \in [0..(LEN - 1) -> Numbers]
  BY DEF RecorderTypeOK
<1>7. CASE len = 0
  <2>1. cur' = beg /\ beg' = beg /\ cur = beg
    BY <1>2, <1>3, <1>7 DEF Window
  <2>2. buf' \in [0..(LEN - 1) -> Numbers] /\ buf'[beg] = in
    BY <1>3, <1>6, <2>1
  <2>3. RecorderTypeOK'
    BY <1>3, <1>4, <1>6, <2>1, <2>2 DEF RecorderTypeOK
  <2>4. get_len' = 1
    BY <1>1, <1>3, <1>7 DEF get_len
  <2>5. Spot(beg', 1) = beg
    BY <1>1, <1>5, <1>6, <2>1 DEF Spot
  <2>6. Window'
    BY <1>3, <1>4, <1>7, <2>1, <2>2, <2>4, <2>5 DEF Window
  <2> QED
    BY <2>3, <2>6
<1>8. CASE len > 0 /\ len < LEN
  <2>1. get_len = len /\ get_len' = len + 1
    BY <1>1, <1>2, <1>3, <1>8 DEF get_len
  <2>2. cur = Spot(beg, len)
    BY <1>2, <1>8, <2>1 DEF Window
  <2>3. cur = IF beg + len - 1 < LEN THEN beg + len - 1 ELSE beg + len - 1 - LEN
    BY <1>1, <1>2, <1>5, <1>6, <1>8, <2>2 DEF Spot
  <2>4. cur' = IF cur + 1 < LEN THEN cur + 1 ELSE cur + 1 - LEN
    BY <1>1, <1>2, <1>3, <1>5, <1>6, <1>8
  <2>5. cur' = (IF beg + len < LEN THEN beg + len ELSE beg + len - LEN) /\ cur' # beg
    BY <1>1, <1>2, <1>6, <1>8, <2>3, <2>4
  <2>6. beg' = beg
    BY <1>3, <2>5
  <2>7. cur' \in 0..(LEN - 1) /\ buf' \in [0..(LEN - 1) -> Numbers] /\ buf'[cur'] = in
    BY <1>1, <1>2, <1>3, <1>6, <1>8, <2>5
  <2>8. RecorderTypeOK'
    BY <1>3, <1>4, <1>6, <2>6, <2>7 DEF RecorderTypeOK
  <2>9. ASSUME NEW i \in 1..(len + 1)
        PROVE  /\ Spot(beg', i) = (IF beg + i - 1 < LEN THEN beg + i - 1 ELSE beg + i - 1 - LEN)
               /\ Spot(beg, i) = Spot(beg', i)
    <3>1. i - 1 \in 0..LEN /\ beg + i - 1 = beg + (i - 1)
      BY <1>1, <1>2, <1>6, <1>8
    <3>2. (beg + (i - 1)) % LEN = IF beg + (i - 1) < LEN THEN beg + (i - 1) ELSE beg + (i - 1) - LEN
      BY <1>5, <1>6, <3>1
    <3> QED
      BY <2>6, <3>1, <3>2 DEF Spot
  <2>10. ASSUME NEW i \in 1..(len + 1) PROVE buf'[Spot(beg', i)] = appended'[i]
    <3>1. CASE i = len + 1
      BY <1>1, <1>2, <1>4, <1>6, <1>8, <2>5, <2>7, <2>9, <3>1
    <3>2. CASE i \in 1..len
      <4>1. Spot(beg, i) # cur' /\ Spot(beg, i) \in 0..(LEN - 1)
        BY <1>1, <1>2, <1>6, <1>8, <2>5, <2>9, <3>2
      <4>2. buf'[Spot(beg, i)] = buf[Spot(beg, i)]
        BY <1>3, <1>6, <4>1
      <4>3. buf[Spot(beg, i)] = appended[i]
        BY <1>2, <2>1, <3>2 DEF Window
      <4> QED
        BY <1>4, <2>9, <3>2, <4>2, <4>3
    <3> QED
      BY <1>2, <3>1, <3>2
  <2>11. cur' = Spot(beg', len + 1)
    BY <1>1, <1>2, <1>6, <1>8, <2>5, <2>9
  <2>12. Window'
    <3>1. \A i \in 1..get_len' : buf'[Spot(beg', i)] = appended'[len' - get_len' + i]
      BY <1>2, <1>3, <2>1, <2>10
    <3>2. cur' = IF len' = 0 THEN beg' ELSE Spot(beg', get_len')
      BY <1>2, <1>3, <2>1, <2>11 DEF Spot
    <3>3. started' <=> len' > 0
      BY <1>2, <1>3
    <3> QED
      BY <1>3, <1>4, <3>1, <3>2, <3>3 DEF Window
  <2> QED
    BY <2>8, <2>12
<1>9. CASE len >= LEN
  <2>1. get_len = LEN /\ get_len' = LEN
    BY <1>1, <1>2, <1>3, <1>9 DEF get_len
  <2>2. cur = Spot(beg, LEN)
    BY <1>1, <1>2, <1>9, <2>1 DEF Window
  <2>3. cur = IF beg = 0 THEN LEN - 1 ELSE beg - 1
    BY <1>1, <1>5, <1>6, <2>2 DEF Spot
  <2>4. cur' = beg
    <3>1. (cur + 1) % LEN = IF cur + 1 < LEN THEN cur + 1 ELSE cur + 1 - LEN
      BY <1>1, <1>5, <1>6
    <3> QED
      BY <1>1, <1>2, <1>3, <1>6, <1>9, <2>3, <3>1
  <2>5. beg' = IF beg + 1 < LEN THEN beg + 1 ELSE 0
    BY <1>1, <1>2, <1>3, <1>5, <1>6, <1>9, <2>4
  <2>6. buf' \in [0..(LEN - 1) -> Numbers] /\ buf'[beg] = in
    BY <1>3, <1>6, <2>4
  <2>7. beg' \in 0..(LEN - 1)
    BY <1>1, <1>6, <2>5
  <2>8. RecorderTypeOK'
    BY <1>3, <1>4, <1>6, <2>4, <2>6, <2>7 DEF RecorderTypeOK
  <2>9. ASSUME NEW i \in 1..LEN
        PROVE  /\ Spot(beg, i) = (IF beg + i - 1 < LEN THEN beg + i - 1 ELSE beg + i - 1 - LEN)
               /\ Spot(beg', i) = (IF beg' + i - 1 < LEN THEN beg' + i - 1 ELSE beg' + i - 1 - LEN)
    <3>1. i - 1 \in 0..LEN /\ beg + i - 1 = beg + (i - 1) /\ beg' + i - 1 = beg' + (i - 1)
      BY <1>1, <1>6, <2>7
    <3>2. (beg + (i - 1)) % LEN = IF beg + (i - 1) < LEN THEN beg + (i - 1) ELSE beg + (i - 1) - LEN
      BY <1>5, <1>6, <3>1
    <3>3. (beg' + (i - 1)) % LEN = IF beg' + (i - 1) < LEN THEN beg' + (i - 1) ELSE beg' + (i - 1) - LEN
      BY <1>5, <2>7, <3>1
    <3> QED
      BY <3>1, <3>2, <3>3 DEF Spot
  <2>10. Spot(beg', LEN) = beg
    BY <1>1, <1>6, <2>5, <2>9
  <2>11. ASSUME NEW i \in 1..(LEN - 1)
         PROVE  Spot(beg', i) = Spot(beg, i + 1) /\ Spot(beg, i + 1) # beg /\ Spot(beg, i + 1) \in 0..(LEN - 1)
    <3>1. i + 1 \in 1..LEN /\ i \in 1..LEN
      BY <1>1
    <3>2. Spot(beg, i + 1) = IF beg + i < LEN THEN beg + i ELSE beg + i - LEN
      BY <1>1, <1>6, <2>9, <3>1
    <3>3. Spot(beg', i) = IF beg' + i - 1 < LEN THEN beg' + i - 1 ELSE beg' + i - 1 - LEN
      BY <2>9, <3>1
    <3> QED
      BY <1>1, <1>6, <2>5, <3>2, <3>3
  <2>12. ASSUME NEW i \in 1..LEN PROVE buf'[Spot(beg', i)] = appended'[len' - LEN + i]
    <3>1. CASE i = LEN
      BY <1>1, <1>2, <1>3, <1>4, <2>6, <2>10, <3>1
    <3>2. CASE i \in 1..(LEN - 1)
      <4>1. buf'[Spot(beg, i + 1)] = buf[Spot(beg, i + 1)]
        BY <1>3, <1>6, <2>4, <2>11, <3>2
      <4>2. buf[Spot(beg, i + 1)] = appended[len - LEN + (i + 1)]
        BY <1>1, <2>1, <3>2 DEF Window
      <4>3. len - LEN + (i + 1) \in 1..len /\ len' - LEN + i = len - LEN + (i + 1)
        BY <1>1, <1>2, <1>3, <1>9, <3>2
      <4> QED
        BY <1>4, <2>11, <3>2, <4>1, <4>2, <4>3
    <3> QED
      BY <1>1, <3>1, <3>2
  <2>13. Window'
    <3>1. \A i \in 1..get_len' : buf'[Spot(beg', i)] = appended'[len' - get_len' + i]
      BY <2>1, <2>12
    <3>2. cur' = IF len' = 0 THEN beg' ELSE Spot(beg', get_len')
      BY <1>2, <1>3, <2>1, <2>4, <2>10 DEF Spot
    <3>3. started' <=> len' > 0
      BY <1>2, <1>3
    <3> QED
      BY <1>3, <1>4, <3>1, <3>2, <3>3 DEF Window
  <2> QED
    BY <2>8, <2>13
<1> QED
  BY <1>1, <1>2, <1>7, <1>8, <1>9

\* clear keeps it: the next number goes to where cur is.
LEMMA ClearInv == ASSUME RecorderInv, clear PROVE RecorderInv'
<1>1. LEN \in Nat /\ LEN > 0
  BY RecorderAssumption
<1>2. RecorderTypeOK'
  <2>1. buf' \in [0..(LEN - 1) -> Numbers]
    BY DEF RecorderInv, RecorderTypeOK, clear
  <2>2. appended' \in Seq(Numbers) /\ started' \in BOOLEAN
    <3>1. appended' = <<>> /\ started' = FALSE
      BY DEF clear
    <3> QED
      BY <3>1, EmptySeq
  <2>3. beg' \in 0..(LEN - 1) /\ cur' \in 0..(LEN - 1)
    BY DEF RecorderInv, RecorderTypeOK, clear
  <2> QED
    BY <2>1, <2>2, <2>3 DEF RecorderTypeOK
<1>3. Window'
  BY <1>1 DEF RecorderInv, RecorderTypeOK, Window, clear, get_len
<1> QED
  BY <1>2, <1>3 DEF RecorderInv

\* append and clear keep the invariant.
THEOREM RecorderInvariant == RecorderSpec => []RecorderInv
<1>1. RecorderInv /\ [RecorderNext]_recorderVars => RecorderInv'
  <2> SUFFICES ASSUME RecorderInv, [RecorderNext]_recorderVars PROVE RecorderInv'
    OBVIOUS
  <2>1. CASE UNCHANGED recorderVars
    BY <2>1 DEF recorderVars, RecorderInv, RecorderTypeOK, Window, Spot, get_len
  <2> QED
    BY <2>1, AppendInv, ClearInv DEF RecorderNext
<1> QED
  BY <1>1, RecorderInitInv, PTL DEF RecorderSpec
\* The places among the first i of s that have e, and how their number grows.
Hits(s, i, e) == {j \in 1..i : s[j] = e}
LEMMA HitsUp ==
  ASSUME NEW s, NEW i \in Nat, NEW e
  PROVE  /\ IsFiniteSet(Hits(s, i, e)) /\ Cardinality(Hits(s, i, e)) \in Nat
         /\ Cardinality(Hits(s, 0, e)) = 0
         /\ Cardinality(Hits(s, i + 1, e)) = Cardinality(Hits(s, i, e)) + (IF s[i + 1] = e THEN 1 ELSE 0)
<1>1. IsFiniteSet(Hits(s, i, e))
  <2>1. IsFiniteSet(1..i)
    BY FS_Interval
  <2>2. Hits(s, i, e) \subseteq 1..i
    BY DEF Hits
  <2> QED
    BY <2>1, <2>2, FS_Subset
<1>2. Cardinality(Hits(s, i, e)) \in Nat
  BY <1>1, FS_CardinalityType
<1>3. Cardinality(Hits(s, 0, e)) = 0
  <2>1. Hits(s, 0, e) = {}
    BY DEF Hits
  <2> QED
    BY <2>1, FS_EmptySet
<1>4. CASE s[i + 1] = e
  <2>1. Hits(s, i + 1, e) = Hits(s, i, e) \cup {i + 1} /\ i + 1 \notin Hits(s, i, e)
    BY <1>4 DEF Hits
  <2>2. Cardinality(Hits(s, i, e) \cup {i + 1}) = Cardinality(Hits(s, i, e)) + 1
    BY <1>1, <2>1, FS_AddElement
  <2> QED
    BY <1>1, <1>2, <1>3, <1>4, <2>1, <2>2
<1>5. CASE s[i + 1] # e
  <2>1. Hits(s, i + 1, e) = Hits(s, i, e)
    BY <1>5 DEF Hits
  <2> QED
    BY <1>1, <1>2, <1>3, <1>5, <2>1
<1> QED
  BY <1>4, <1>5

\* Weights that are all 0 add up to 0.
LEMMA SumsZero ==
  ASSUME NEW w, NEW g, Sums(w, g), \A e \in Numbers : w[e] = 0
  PROVE  g[Numbers] = 0
<1> DEFINE T == {n \in Nat : \A s \in SUBSET Numbers : Cardinality(s) = n => g[s] = 0}
<1>1. 0 \in T
  <2>1. ASSUME NEW s \in SUBSET Numbers, Cardinality(s) = 0 PROVE g[s] = 0
    <3>1. s = {}
      BY <2>1, RecorderAssumption, FS_Subset, FS_EmptySet
    <3> QED
      BY <3>1 DEF Sums
  <2> QED
    BY <2>1
<1>2. ASSUME NEW n \in Nat, n \in T PROVE n + 1 \in T
  <2>1. ASSUME NEW s \in SUBSET Numbers, Cardinality(s) = n + 1 PROVE g[s] = 0
    <3>1. s # {}
      BY <2>1, FS_EmptySet
    <3>2. Pick(s) \in Numbers /\ s \ {Pick(s)} \in SUBSET Numbers /\ Cardinality(s \ {Pick(s)}) = n
      BY <2>1, <3>1, PickIs
    <3>3. g[s \ {Pick(s)}] = 0 /\ w[Pick(s)] = 0
      BY <1>2, <3>2
    <3>4. g[s] = w[Pick(s)] + g[s \ {Pick(s)}]
      BY <3>1 DEF Sums
    <3> QED
      BY <3>3, <3>4
  <2> QED
    BY <2>1
<1>3. \A n \in Nat : n \in T
  <2> HIDE DEF T
  <2> QED BY <1>1, <1>2, NatSet
<1>4. Cardinality(Numbers) \in Nat
  BY RecorderAssumption, FS_CardinalityType
<1> QED
  BY <1>3, <1>4

\* A division that truncates leaves a rest of the sign of what was divided.
LEMMA Truncated ==
  ASSUME NEW n \in Nat, n > 0, NEW s \in Int
  PROVE  LET a == IF s >= 0 THEN s \div n ELSE - ((- s) \div n)
             r == s - a * n
         IN  - n < r /\ r < n /\ r * s >= 0
<1>1. ASSUME NEW x \in Nat
      PROVE  x \div n \in Nat /\ 0 <= x - (x \div n) * n /\ x - (x \div n) * n < n
  OBVIOUS
<1>2. \A x, y \in Nat : x * y >= 0 /\ (- x) * (- y) >= 0
  OBVIOUS
<1>3. CASE s >= 0
  <2> DEFINE r == s - (s \div n) * n
  <2>1. r \in Nat /\ r < n
    BY <1>1, <1>3
  <2>2. r * s >= 0
    <3> HIDE DEF r
    <3> QED BY <1>2, <1>3, <2>1
  <2> QED
    BY <1>3, <2>1, <2>2
<1>4. CASE s < 0
  <2> DEFINE x == - s
             q == x \div n
             r == s - (- q) * n
  <2>1. x \in Nat /\ q \in Nat /\ 0 <= x - q * n /\ x - q * n < n
    BY <1>1, <1>4
  <2>2. r = - (x - q * n)
    <3> HIDE DEF q
    <3> QED BY <2>1
  <2>3. - r \in Nat /\ - r < n /\ r \in Int
    <3> HIDE DEF q, r
    <3> QED BY <2>1, <2>2
  <2>4. r * s >= 0
    <3>1. \A y \in Nat : y = - r => (- y) * (- x) >= 0
      BY <1>2, <2>1
    <3> HIDE DEF r
    <3> QED BY <2>3, <3>1
  <2> QED
    BY <1>4, <2>3, <2>4
<1> QED
  BY <1>3, <1>4
\* Last has get_len numbers, and get_every gives them.
LEMMA LastIs ==
  ASSUME RecorderInv
  PROVE  /\ get_len \in 0..LEN /\ get_len <= len /\ (get_len = 0 <=> len = 0)
         /\ Last \in [1..get_len -> Numbers] /\ Last \in Seq(Numbers) /\ Len(Last) = get_len
         /\ get_every(LEN) = Last
         /\ \A k \in Nat : get_every(k) = SubSeq(Last, 1, IF k < get_len THEN k ELSE get_len)
<1>1. LEN \in Nat /\ LEN > 0
  BY RecorderAssumption
<1>2. appended \in Seq(Numbers) /\ len = Len(appended) /\ len \in Nat
  BY DEF RecorderInv, RecorderTypeOK, Window
<1>3. get_len \in 0..LEN /\ get_len <= len /\ (get_len = 0 <=> len = 0)
  BY <1>1, <1>2 DEF get_len
<1>4. Last = SubSeq(appended, len - get_len + 1, len)
  <2>1. (IF Len(appended) > LEN THEN Len(appended) - LEN + 1 ELSE 1) = len - get_len + 1
    <3>1. (IF len > LEN THEN len - LEN + 1 ELSE 1) = len - get_len + 1
      <4>1. CASE len >= LEN
        BY <1>1, <1>2, <4>1 DEF get_len
      <4>2. CASE len < LEN
        <5>1. get_len = len /\ ~ (len > LEN) /\ len \in Nat
          BY <1>1, <1>2, <4>2 DEF get_len
        <5> HIDE DEF get_len
        <5> QED
          BY ONLY <5>1
      <4> QED
        BY <1>1, <1>2, <4>1, <4>2
    <3> QED
      BY <1>2, <3>1
  <2> QED
    BY <1>2, <2>1 DEF Last
<1>5. /\ Last \in Seq(Numbers) /\ Len(Last) = get_len
      /\ \A i \in 1..get_len : Last[i] = appended[len - get_len + i]
  <2>1. len - get_len + 1 \in 1..(len + 1)
    BY <1>2, <1>3
  <2> HIDE DEF get_len
  <2> QED
    BY <1>2, <1>3, <1>4, <2>1
<1>6. Last \in [1..get_len -> Numbers]
  BY <1>5, LenProperties
<1>7. \A i \in 1..get_len : buf[(beg + i - 1) % LEN] = Last[i]
  BY <1>5 DEF RecorderInv, Window, Spot
<1>8. ASSUME NEW k \in Nat PROVE get_every(k) = SubSeq(Last, 1, IF k < get_len THEN k ELSE get_len)
  <2> DEFINE m == IF k < get_len THEN k ELSE get_len
             f == [i \in 1..m |-> buf[(beg + i - 1) % LEN]]
             h == SubSeq(Last, 1, m)
  <2>1. get_every(k) = f
    BY DEF get_every
  <2>2. m \in Nat /\ m <= get_len
    BY <1>3
  <2> HIDE DEF m
  <2>3. h \in Seq(Numbers) /\ Len(h) = m /\ \A i \in 1..m : h[i] = Last[i]
    BY <1>3, <1>5, <2>2
  <2>4. h = [i \in 1..m |-> h[i]]
    BY <2>3, LenProperties
  <2>5. \A i \in 1..m : h[i] = buf[(beg + i - 1) % LEN]
    BY <1>3, <1>7, <2>2, <2>3
  <2> HIDE DEF h
  <2>6. f = h
    BY <2>4, <2>5
  <2> QED
    BY <2>1, <2>6 DEF h, m
<1>9. get_every(LEN) = Last
  <2>1. get_every(LEN) = SubSeq(Last, 1, get_len)
    BY <1>1, <1>3, <1>8
  <2>2. SubSeq(Last, 1, get_len) = Last
    BY <1>5, SubSeqFull
  <2> QED
    BY <2>1, <2>2
<1> QED
  BY <1>3, <1>5, <1>6, <1>8, <1>9

\* get_count counts.
LEMMA CountIs == ASSUME RecorderInv, NEW e \in Numbers
                 PROVE  get_count(e) = Occurs(e) /\ Occurs(e) \in Nat
<1> DEFINE s == [i \in 1..get_len |-> IF Last[i] = e THEN 1 ELSE 0]
           g == [i \in 0..get_len |-> Cardinality(Hits(Last, i, e))]
<1>1. get_len \in Nat /\ DOMAIN Last = 1..get_len
  BY LastIs, RecorderAssumption
<1>2. get_count(e) = Added(s)
  BY LastIs DEF get_count
<1>3. s \in [1..get_len -> Int] /\ g \in [0..get_len -> Int]
  BY <1>1, HitsUp
<1>4. g[0] = 0
  BY <1>1, HitsUp
<1>5. ASSUME NEW i \in 1..get_len PROVE g[i] = g[i - 1] + s[i]
  <2>1. i - 1 \in Nat /\ i - 1 \in 0..get_len /\ i \in 0..get_len /\ (i - 1) + 1 = i
    BY <1>1
  <2>2. Cardinality(Hits(Last, (i - 1) + 1, e))
          = Cardinality(Hits(Last, i - 1, e)) + (IF Last[(i - 1) + 1] = e THEN 1 ELSE 0)
    BY <2>1, HitsUp
  <2> QED
    BY <2>1, <2>2
<1>6. Added(s) = g[get_len]
  <2> HIDE DEF s, g
  <2> QED BY <1>1, <1>3, <1>4, <1>5, AddedIs
<1>7. Occurs(e) = Cardinality(Hits(Last, get_len, e))
  BY <1>1 DEF Occurs, Hits
<1>8. g[get_len] = Cardinality(Hits(Last, get_len, e))
  BY <1>1
<1> QED
  BY <1>1, <1>2, <1>6, <1>7, <1>8, HitsUp

\* get_sum adds up.
LEMMA SumIs == ASSUME RecorderInv
               PROVE  get_sum = MapThenSumSet(LAMBDA e : e * Occurs(e), Numbers) /\ get_sum \in Int
<1> DEFINE w(i) == [e \in Numbers |-> e * Cardinality(Hits(Last, i, e))]
           G(i) == CHOOSE h : Sums(w(i), h)
           g == [i \in 0..get_len |-> G(i)[Numbers]]
<1>1. /\ get_len \in Nat /\ Last \in [1..get_len -> Numbers]
      /\ Numbers \subseteq Int
  BY LastIs, RecorderAssumption
<1>2. \A i \in Nat : w(i) \in [Numbers -> Int]
  <2> SUFFICES ASSUME NEW i \in Nat, NEW e \in Numbers PROVE e * Cardinality(Hits(Last, i, e)) \in Int
    OBVIOUS
  <2>1. Cardinality(Hits(Last, i, e)) \in Nat
    BY HitsUp
  <2> QED
    BY <1>1, <2>1
<1>3. \A i \in Nat : Sums(w(i), G(i))
  <2> HIDE DEF w
  <2> QED BY <1>2, SumsExist
<1>4. \A i \in Nat : G(i)[Numbers] \in Int
  <2> HIDE DEF G, w
  <2> QED BY <1>3 DEF Sums
<1>5. g \in [0..get_len -> Int]
  <2> HIDE DEF G
  <2> QED BY <1>1, <1>4
<1>6. g[0] = 0
  <2>1. \A e \in Numbers : w(0)[e] = 0
    BY <1>1, HitsUp
  <2>2. G(0)[Numbers] = 0
    <3> HIDE DEF G, w
    <3> QED BY <1>3, <2>1, SumsZero
  <2> HIDE DEF G
  <2> QED
    BY <1>1, <2>2
<1>7. ASSUME NEW i \in 1..get_len PROVE g[i] = g[i - 1] + Last[i]
  <2> DEFINE k == i - 1
             x == Last[i]
  <2>1. k \in Nat /\ k + 1 = i /\ i \in Nat /\ k \in 0..get_len /\ i \in 0..get_len /\ x \in Numbers
    BY <1>1
  <2>2. \A e \in Numbers : /\ Cardinality(Hits(Last, i, e))
                                = Cardinality(Hits(Last, k, e)) + (IF x = e THEN 1 ELSE 0)
                           /\ Cardinality(Hits(Last, k, e)) \in Nat
    <3> HIDE DEF k
    <3> QED BY <2>1, HitsUp
  <2>3. \A e \in Numbers : e # x => w(i)[e] = w(k)[e]
    <3> HIDE DEF k
    <3> QED BY <1>1, <2>2
  <2>4. w(i)[x] - w(k)[x] = x
    <3>1. \A y \in Int : \A c \in Nat : y * (c + 1) - y * c = y
      OBVIOUS
    <3> HIDE DEF k, x
    <3> QED BY <1>1, <2>1, <2>2, <3>1
  <2>5. \A s \in SUBSET Numbers : G(i)[s] = G(k)[s] + (IF x \in s THEN w(i)[x] - w(k)[x] ELSE 0)
    <3>1. Sums(w(i), G(i)) /\ Sums(w(k), G(k))
      BY <1>3, <2>1
    <3> HIDE DEF w, G, k, x
    <3> QED
      BY <2>1, <2>3, <3>1, SumsChange
  <2>6. G(i)[Numbers] = G(k)[Numbers] + x
    <3> HIDE DEF w, G, k, x
    <3> QED BY <2>1, <2>4, <2>5
  <2> HIDE DEF G
  <2> QED
    BY <2>1, <2>6
<1>8. get_sum = Added(Last)
  BY LastIs DEF get_sum
<1>9. Added(Last) = g[get_len]
  <2>1. Last \in [1..get_len -> Int]
    BY <1>1
  <2> HIDE DEF g
  <2> QED BY <1>1, <1>5, <1>6, <1>7, <2>1, AddedIs
<1>10. g[get_len] = G(get_len)[Numbers]
  <2> HIDE DEF G
  <2> QED BY <1>1
<1>11. \A e \in Numbers : w(get_len)[e] = e * Occurs(e)
  <2>1. DOMAIN Last = 1..get_len
    BY <1>1
  <2>2. \A e \in Numbers : Occurs(e) = Cardinality(Hits(Last, get_len, e))
    BY <2>1 DEF Occurs, Hits
  <2> QED
    BY <2>2
<1>12. MapThenSumSet(LAMBDA e : e * Occurs(e), Numbers) = G(get_len)[Numbers]
  <2>1. Sums(w(get_len), G(get_len))
    BY <1>1, <1>3
  <2> HIDE DEF w, G
  <2> QED BY <1>11, <2>1, SumSetIs
<1>13. G(get_len)[Numbers] \in Int
  BY <1>1, <1>4
<1> QED
  BY <1>8, <1>9, <1>10, <1>12, <1>13

\* RecordsLast for any length of the buffer, however many numbers were appended and wherever
\* the recorder was cleared.
THEOREM RecorderRecordsLast == RecorderSpec => []RecordsLast
<1>1. ASSUME RecorderInv PROVE RecordsLast
  <2>1. get_len \in Nat /\ get_len = Len(Last) /\ Last \in Seq(Numbers)
    BY <1>1, LastIs, RecorderAssumption
  <2>2. \A k \in 0..(LEN + 1) : get_every(k) = SubSeq(Last, 1, IF k < get_len THEN k ELSE get_len)
    BY <1>1, LastIs, RecorderAssumption
  <2>3. Last = <<>> <=> get_len = 0
    BY <2>1
  <2>4. ASSUME Last # <<>>
        PROVE  LET r == get_sum - get_avg * get_len
               IN  - get_len < r /\ r < get_len /\ r * get_sum >= 0
    <3>1. get_len > 0
      BY <2>1, <2>3, <2>4
    <3>2. get_sum \in Int
      BY <1>1, SumIs
    <3>3. get_avg = IF get_sum >= 0 THEN get_sum \div get_len ELSE - ((- get_sum) \div get_len)
      BY <3>1, <3>2 DEF get_avg
    <3> HIDE DEF get_avg, get_sum, get_len
    <3> QED
      BY <2>1, <3>1, <3>2, <3>3, Truncated
  <2>5. \A e \in Numbers : get_density(e)[1] * (IF Last = <<>> THEN 1 ELSE Len(Last))
                              = Occurs(e) * get_density(e)[2]
    <3> SUFFICES ASSUME NEW e \in Numbers
                 PROVE  get_density(e)[1] * (IF Last = <<>> THEN 1 ELSE Len(Last))
                          = Occurs(e) * get_density(e)[2]
      OBVIOUS
    <3>1. CASE get_len = 0
      <4>1. Occurs(e) = 0
        <5>1. {i \in DOMAIN Last : Last[i] = e} = {}
          BY <2>1, <2>3, <3>1
        <5> QED
          BY <5>1, FS_EmptySet DEF Occurs
      <4>2. get_density(e)[1] = 0 /\ get_density(e)[2] = 1
        BY <3>1 DEF get_density
      <4> QED
        BY <2>3, <3>1, <4>1, <4>2
    <3>2. CASE get_len # 0
      <4>1. get_density(e)[1] = Occurs(e) /\ get_density(e)[2] = get_len
        BY <1>1, <3>2, CountIs DEF get_density
      <4> QED
        BY <2>1, <2>3, <3>2, <4>1
    <3> QED
      BY <3>1, <3>2
  <2> QED
    BY <1>1, <2>1, <2>2, <2>4, <2>5, SumIs, CountIs DEF RecordsLast
<1> QED
  BY <1>1, RecorderInvariant, PTL

-----------------------------------------------------------------------------
(* Arrays: sequences of numbers are the functions on 1..n, and how often   *)
(* each number is in them.                                                 *)

LEMMA ArrayIs ==
  ASSUME NEW n \in Nat, NEW a \in [1..n -> Int]
  PROVE  a \in Arrays /\ Len(a) = n /\ DOMAIN a = 1..n
  BY DEF Arrays

LEMMA ArrayFun ==
  ASSUME NEW a \in Arrays
  PROVE  Len(a) \in Nat /\ a \in [1..Len(a) -> Int] /\ DOMAIN a = 1..Len(a)
  BY LenProperties DEF Arrays

\* Two arrays with the same numbers, each as often.
Same(a, b) == Len(a) = Len(b) /\ \A x \in Int : Count(a, x) = Count(b, x)

LEMMA CountHits ==
  ASSUME NEW a \in Arrays, NEW x
  PROVE  Count(a, x) = Cardinality(Hits(a, Len(a), x)) /\ Count(a, x) \in Nat
<1>1. Len(a) \in Nat /\ DOMAIN a = 1..Len(a)
  BY ArrayFun
<1>2. Count(a, x) = Cardinality(Hits(a, Len(a), x))
  BY <1>1 DEF Count, Hits
<1> QED
  BY <1>1, <1>2, HitsUp

\* A number is counted exactly if it is there.
LEMMA CountIn ==
  ASSUME NEW a \in Arrays, NEW x
  PROVE  Count(a, x) > 0 <=> \E i \in 1..Len(a) : a[i] = x
<1>1. Len(a) \in Nat
  BY ArrayFun
<1>2. IsFiniteSet(Hits(a, Len(a), x)) /\ Cardinality(Hits(a, Len(a), x)) \in Nat
  BY <1>1, HitsUp
<1>3. Cardinality(Hits(a, Len(a), x)) = 0 <=> Hits(a, Len(a), x) = {}
  BY <1>2, FS_EmptySet
<1> QED
  BY <1>2, <1>3, CountHits DEF Hits

LEMMA SameIn ==
  ASSUME NEW a \in Arrays, NEW b \in Arrays, Same(a, b), NEW i \in 1..Len(a)
  PROVE  \E j \in 1..Len(b) : b[j] = a[i]
<1>1. a[i] \in Int
  BY ArrayFun
<1>2. Count(a, a[i]) > 0
  BY CountIn
<1>3. Count(b, a[i]) > 0
  BY <1>1, <1>2 DEF Same
<1> QED
  BY <1>3, CountIn

\* The two parts of an array.
LEMMA ConcatIs ==
  ASSUME NEW a \in Arrays, NEW b \in Arrays
  PROVE  /\ a \o b \in Arrays /\ Len(a \o b) = Len(a) + Len(b)
         /\ \A i \in 1..Len(a) : (a \o b)[i] = a[i]
         /\ \A i \in 1..Len(b) : (a \o b)[Len(a) + i] = b[i]
<1>1. Len(a) \in Nat /\ Len(b) \in Nat
  BY ArrayFun
<1>2. /\ a \o b \in Arrays /\ Len(a \o b) = Len(a) + Len(b)
      /\ \A i \in 1..(Len(a) + Len(b)) : (a \o b)[i] = IF i <= Len(a) THEN a[i] ELSE b[i - Len(a)]
  BY ConcatProperties DEF Arrays
<1>3. \A i \in 1..Len(a) : (a \o b)[i] = a[i]
  BY <1>1, <1>2
<1>4. \A i \in 1..Len(b) : (a \o b)[Len(a) + i] = b[i]
  <2> SUFFICES ASSUME NEW i \in 1..Len(b) PROVE (a \o b)[Len(a) + i] = b[i]
    OBVIOUS
  <2>1. Len(a) + i \in 1..(Len(a) + Len(b)) /\ ~ (Len(a) + i <= Len(a)) /\ (Len(a) + i) - Len(a) = i
    BY <1>1
  <2> QED
    BY <1>2, <2>1
<1> QED
  BY <1>2, <1>3, <1>4

LEMMA ArrayEqual ==
  ASSUME NEW a \in Arrays, NEW b \in Arrays, Len(a) = Len(b), \A i \in 1..Len(a) : a[i] = b[i]
  PROVE  a = b
<1>1. a \in [1..Len(a) -> Int] /\ b \in [1..Len(a) -> Int]
  BY ArrayFun
<1> QED
  BY <1>1

LEMMA SubArray ==
  ASSUME NEW a \in Arrays, NEW m \in Nat, NEW n \in Nat, m > 0, m <= n + 1, n <= Len(a)
  PROVE  /\ SubSeq(a, m, n) \in Arrays /\ Len(SubSeq(a, m, n)) = n - m + 1
         /\ \A i \in 1..(n - m + 1) : SubSeq(a, m, n)[i] = a[m + i - 1]
<1>1. Len(a) \in Nat /\ a \in [1..Len(a) -> Int]
  BY ArrayFun
<1>2. \A i \in m..n : a[i] \in Int
  BY <1>1
<1>3. /\ SubSeq(a, m, n) \in Seq(Int)
      /\ Len(SubSeq(a, m, n)) = IF m <= n THEN n - m + 1 ELSE 0
      /\ \A i \in 1..(n - m + 1) : SubSeq(a, m, n)[i] = a[m + i - 1]
  BY <1>2, SubSeqProperties
<1> QED
  BY <1>3 DEF Arrays

LEMMA SplitIs ==
  ASSUME NEW a \in Arrays, NEW k \in 0..Len(a)
  PROVE  a = SubSeq(a, 1, k) \o SubSeq(a, k + 1, Len(a))
<1>1. Len(a) \in Nat /\ k \in Nat /\ a \in Seq(Int)
  BY ArrayFun DEF Arrays
<1>2. SubSeq(a, 1, k) \o SubSeq(a, k + 1, Len(a)) = SubSeq(a, 1, Len(a))
  <2>1. 1 \in 1..(Len(a) + 1) /\ k \in (1 - 1)..Len(a) /\ Len(a) \in k..Len(a)
    BY <1>1
  <2> QED
    BY <1>1, <2>1, ConcatAdjacentSubSeq
<1> QED
  BY <1>1, <1>2, SubSeqFull

LEMMA HitsEqual ==
  ASSUME NEW a, NEW b, NEW n \in Nat, \A i \in 1..n : a[i] = b[i], NEW x
  PROVE  Hits(a, n, x) = Hits(b, n, x)
  BY DEF Hits

\* The numbers of two arrays in a row are counted apart.
LEMMA CountConcat ==
  ASSUME NEW a \in Arrays, NEW b \in Arrays, NEW x
  PROVE  Count(a \o b, x) = Count(a, x) + Count(b, x)
<1> DEFINE c == a \o b
           n == Len(a)
           C(s, i) == Cardinality(Hits(s, i, x))
           T == {k \in Nat : k <= Len(b) => C(c, n + k) = C(a, n) + C(b, k)}
<1>1. n \in Nat /\ Len(b) \in Nat /\ c \in Arrays /\ Len(c) = n + Len(b)
  BY ArrayFun, ConcatIs
<1>2. \A s : \A i \in Nat : C(s, i) \in Nat /\ C(s, 0) = 0
                            /\ C(s, i + 1) = C(s, i) + (IF s[i + 1] = x THEN 1 ELSE 0)
  BY HitsUp
<1> HIDE DEF C
<1>3. C(c, n) = C(a, n)
  <2>1. \A i \in 1..n : c[i] = a[i]
    BY ConcatIs
  <2> HIDE DEF c, n
  <2> QED
    BY <1>1, <2>1, HitsEqual DEF C
<1>4. 0 \in T
  BY <1>1, <1>2, <1>3
<1>5. ASSUME NEW k \in Nat, k \in T PROVE k + 1 \in T
  <2> SUFFICES ASSUME k + 1 <= Len(b) PROVE C(c, n + (k + 1)) = C(a, n) + C(b, k + 1)
    OBVIOUS
  <2>1. c[n + (k + 1)] = b[k + 1]
    BY <1>1, ConcatIs
  <2>2. n + (k + 1) = (n + k) + 1 /\ n + k \in Nat
    BY <1>1
  <2>3. C(c, (n + k) + 1) = C(c, n + k) + (IF c[(n + k) + 1] = x THEN 1 ELSE 0)
    BY <1>2, <2>2
  <2>4. C(b, k + 1) = C(b, k) + (IF b[k + 1] = x THEN 1 ELSE 0)
    BY <1>2
  <2>5. C(c, n + k) = C(a, n) + C(b, k)
    BY <1>1, <1>5
  <2>6. C(a, n) \in Nat /\ C(b, k) \in Nat
    BY <1>1, <1>2
  <2> HIDE DEF c, n
  <2> QED
    BY <2>1, <2>2, <2>3, <2>4, <2>5, <2>6
<1>6. \A k \in Nat : k \in T
  <2> HIDE DEF T
  <2> QED BY <1>4, <1>5, NatSet
<1>7. C(c, n + Len(b)) = C(a, n) + C(b, Len(b))
  BY <1>1, <1>6
<1> QED
  BY <1>1, <1>7, CountHits DEF C

LEMMA SameConcat ==
  ASSUME NEW a \in Arrays, NEW b \in Arrays, NEW c \in Arrays, NEW d \in Arrays, Same(a, c), Same(b, d)
  PROVE  Same(a \o b, c \o d)
<1>1. Len(a \o b) = Len(c \o d)
  <2>1. Len(a \o b) = Len(a) + Len(b)
    BY ConcatIs
  <2>2. Len(c \o d) = Len(c) + Len(d)
    BY ConcatIs
  <2> QED
    BY <2>1, <2>2 DEF Same
<1>2. \A x \in Int : Count(a \o b, x) = Count(c \o d, x)
  BY CountConcat DEF Same
<1> QED
  BY <1>1, <1>2 DEF Same

\* Two arrays have the same numbers if one is the other with its places exchanged.
Moved(n, a, b, p) ==
  /\ n \in Nat /\ a \in [1..n -> Int] /\ b \in [1..n -> Int] /\ p \in [1..n -> 1..n]
  /\ \A i, j \in 1..n : p[i] = p[j] => i = j
  /\ \A i \in 1..n : a[i] = b[p[i]]

\* No place is left out when no two go to the same.
LEMMA Onto ==
  ASSUME NEW n \in Nat, NEW p \in [1..n -> 1..n], \A i, j \in 1..n : p[i] = p[j] => i = j
  PROVE  \A j \in 1..n : \E i \in 1..n : p[i] = j
<1>1. p \in Injection(1..n, 1..n)
  BY DEF Injection, IsInjective
<1>2. IsFiniteSet(1..n)
  BY FS_Interval
<1>3. p \in Surjection(1..n, 1..n)
  BY <1>1, <1>2, FS_Injection
<1> QED
  BY <1>3 DEF Surjection

LEMMA SameMoved ==
  ASSUME NEW n, NEW a, NEW b, NEW p, Moved(n, a, b, p)
  PROVE  Same(a, b)
<1> USE DEF Moved
<1>0. \A j \in 1..n : \E i \in 1..n : p[i] = j
  BY Onto
<1>1. a \in Arrays /\ b \in Arrays /\ Len(a) = n /\ Len(b) = n
  BY ArrayIs
<1>2. ASSUME NEW x \in Int PROVE Count(a, x) = Count(b, x)
  <2> DEFINE A == Hits(a, n, x)
             B == Hits(b, n, x)
             f == [i \in A |-> p[i]]
  <2>1. f \in [A -> B]
    BY DEF Hits
  <2>2. \A i, j \in A : f[i] = f[j] => i = j
    BY DEF Hits
  <2>3. \A j \in B : \E i \in A : f[i] = j
    BY <1>0 DEF Hits
  <2>4. f \in Bijection(A, B)
    <3> HIDE DEF f, A, B
    <3> QED BY <2>1, <2>2, <2>3 DEF Bijection, Injection, Surjection, IsInjective
  <2>5. IsFiniteSet(A)
    BY HitsUp
  <2> HIDE DEF f, A, B
  <2>6. Cardinality(A) = Cardinality(B)
    BY <2>4, <2>5, FS_Bijection DEF ExistsBijection
  <2> QED
    BY <1>1, <2>6, CountHits DEF A, B
<1> QED
  BY <1>1, <1>2 DEF Same

LEMMA SwapIs ==
  ASSUME NEW a \in Arrays, NEW i \in 1..Len(a), NEW j \in 1..Len(a)
  PROVE  /\ Swap(a, i, j) \in Arrays /\ Len(Swap(a, i, j)) = Len(a)
         /\ \A k \in 1..Len(a) : Swap(a, i, j)[k] = IF k = i THEN a[j] ELSE IF k = j THEN a[i] ELSE a[k]
         /\ Same(Swap(a, i, j), a)
<1> DEFINE n == Len(a)
<1>0. n \in Nat /\ a \in [1..n -> Int]
  BY ArrayFun
<1> HIDE DEF n
<1>i. i \in 1..n /\ j \in 1..n
  BY DEF n
<1> USE <1>0, <1>i
<1> DEFINE b == Swap(a, i, j)
           p == [k \in 1..n |-> IF k = i THEN j ELSE IF k = j THEN i ELSE k]
<1>1. b \in [1..n -> Int]
  BY DEF Swap
<1>2. \A k \in 1..n : b[k] = IF k = i THEN a[j] ELSE IF k = j THEN a[i] ELSE a[k]
  BY DEF Swap
<1>3. p \in [1..n -> 1..n] /\ \A k, l \in 1..n : p[k] = p[l] => k = l
  <2>1. \A l \in 1..n : p[p[l]] = l /\ p[l] \in 1..n
    OBVIOUS
  <2>2. p \in [1..n -> 1..n]
    BY <2>1
  <2> HIDE DEF p
  <2> QED
    BY <2>1, <2>2
<1>4. \A k \in 1..n : b[k] = a[p[k]]
  BY <1>2
<1>5. Same(b, a)
  <2> HIDE DEF b, p
  <2>1. Moved(n, b, a, p)
    BY <1>1, <1>3, <1>4 DEF Moved
  <2> QED
    BY <2>1, SameMoved
<1>6. b \in Arrays /\ Len(b) = n
  <2> HIDE DEF b
  <2> QED BY <1>1, ArrayIs
<1> QED
  BY <1>2, <1>5, <1>6 DEF n

LEMMA SameTrans ==
  ASSUME NEW a, NEW b, NEW c, Same(a, b), Same(b, c)
  PROVE  Same(a, c)
  BY DEF Same

LEMMA SameSelf == ASSUME NEW a PROVE Same(a, a)
  BY DEF Same

\* In order.
Ordered(a) == \A i, j \in 1..Len(a) : i < j => a[i] <= a[j]

LEMMA NoInversions ==
  ASSUME NEW a \in Arrays, NEW b \in Arrays, Ordered(a), Same(a, b)
  PROVE  IsPermutation(a, b) /\ Inversions(a) = {}
<1>1. IsPermutation(a, b)
  BY RecorderAssumption DEF IsPermutation, Same
<1>2. ASSUME NEW i \in DOMAIN a, NEW j \in DOMAIN a, i < j, a[i] > a[j] PROVE FALSE
  <2>1. i \in 1..Len(a) /\ j \in 1..Len(a) /\ a[i] \in Int /\ a[j] \in Int
    BY ArrayFun
  <2> QED
    BY <1>2, <2>1 DEF Ordered
<1> QED
  BY <1>1, <1>2 DEF Inversions
\* The rounds of a loop.
Loop(n, V, v, step) == n \in Nat /\ v \in V /\ step \in [1..n -> [V -> V]]
Runs(n, V, v, step, f) == /\ f \in [0..n -> V] /\ f[0] = v
                          /\ \A i \in 1..n : f[i - 1] \in V /\ f[i] = step[i][f[i - 1]]

LEMMA Rounds ==
  ASSUME NEW n, NEW V, NEW v, NEW step, Loop(n, V, v, step)
  PROVE  \E f : Runs(n, V, v, step, f)
<1> USE DEF Loop
<1> DEFINE D == 0..n
           m == [i \in D |-> i]
           body(i, f) == IF i = 0 THEN v ELSE step[i][f[i - 1]]
           st == [i \in D |-> [f \in [D -> V] |-> body(i, f)]]
<1>1. m \in [D -> Nat] /\ V # {}
  OBVIOUS
<1>2. \A i \in D : \A f \in [D -> V] : body(i, f) \in V
  <2> SUFFICES ASSUME NEW i \in 1..n, NEW f \in [D -> V] PROVE step[i][f[i - 1]] \in V
    OBVIOUS
  <2>1. f[i - 1] \in V
    OBVIOUS
  <2> QED
    BY <2>1
<1>3. st \in [D -> [[D -> V] -> V]]
  <2> HIDE DEF body, D
  <2> QED BY <1>2
<1>4. ASSUME NEW i \in D, NEW f \in [D -> V], NEW g \in [D -> V], \A j \in D : m[j] < m[i] => f[j] = g[j]
      PROVE  body(i, f) = body(i, g)
  <2> SUFFICES ASSUME i # 0 PROVE f[i - 1] = g[i - 1]
    OBVIOUS
  <2>1. i - 1 \in D /\ m[i - 1] < m[i]
    OBVIOUS
  <2> QED
    BY <1>4, <2>1
<1>5. Depends(D, m, st, [D -> V])
  <2> SUFFICES ASSUME NEW i \in D, NEW f \in [D -> V], NEW g \in [D -> V], \A j \in D : m[j] < m[i] => f[j] = g[j]
               PROVE  st[i][f] = st[i][g]
    BY DEF Depends
  <2>1. body(i, f) = body(i, g)
    BY <1>4
  <2> HIDE DEF body
  <2> QED
    BY <2>1
<1>6. Recursive(D, V, m, st)
  BY <1>1, <1>3, <1>5, Zenon DEF Recursive
<1>7. PICK f : Solves(D, V, st, f)
  <2> HIDE DEF D, m, st
  <2> QED BY <1>6, Recursion, Zenon
<1>8. f \in [D -> V] /\ \A i \in D : f[i] = body(i, f)
  <2> HIDE DEF body
  <2> QED BY <1>7 DEF Solves
<1> QED
  BY <1>8 DEF Runs

\* A finite set of numbers has a greatest and a least element.
LEMMA Extremes ==
  ASSUME NEW S, S \subseteq Int, IsFiniteSet(S), S # {}
  PROVE  /\ Max(S) \in S /\ \A y \in S : y <= Max(S)
         /\ Min(S) \in S /\ \A y \in S : Min(S) <= y
<1> DEFINE Ok(s) == (\E x \in s : \A y \in s : x >= y) /\ (\E x \in s : \A y \in s : x <= y)
           T == {n \in Nat : \A s \in SUBSET Int : IsFiniteSet(s) /\ Cardinality(s) = n + 1 => Ok(s)}
<1>1. 0 \in T
  <2> SUFFICES ASSUME NEW s \in SUBSET Int, IsFiniteSet(s), Cardinality(s) = 0 + 1 PROVE Ok(s)
    OBVIOUS
  <2>1. PICK x : s = {x}
    <3>1. Cardinality(s) = 1
      OBVIOUS
    <3> QED
      BY <3>1, FS_Singleton
  <2> QED
    BY <2>1
<1>2. ASSUME NEW n \in Nat, n \in T PROVE n + 1 \in T
  <2> SUFFICES ASSUME NEW s \in SUBSET Int, IsFiniteSet(s), Cardinality(s) = (n + 1) + 1 PROVE Ok(s)
    OBVIOUS
  <2>1. s # {}
    BY FS_EmptySet
  <2>2. PICK x \in s : TRUE
    BY <2>1
  <2> DEFINE t == s \ {x}
  <2>3. t \in SUBSET Int /\ IsFiniteSet(t) /\ Cardinality(t) = n + 1
    BY <2>2, FS_RemoveElement
  <2>4. Ok(t)
    BY <1>2, <2>3
  <2>5. PICK a \in t : \A y \in t : a >= y
    BY <2>4
  <2>6. PICK b \in t : \A y \in t : b <= y
    BY <2>4
  <2>7. x \in Int /\ a \in Int /\ b \in Int /\ a \in s /\ b \in s /\ \A y \in s : y = x \/ y \in t
    BY <2>2
  <2>8. \E z \in s : \A y \in s : z >= y
    <3>1. CASE x >= a
      BY <2>2, <2>5, <2>7, <3>1
    <3>2. CASE ~ (x >= a)
      BY <2>2, <2>5, <2>7, <3>2
    <3> QED
      BY <3>1, <3>2
  <2>9. \E z \in s : \A y \in s : z <= y
    <3>1. CASE x <= b
      BY <2>2, <2>6, <2>7, <3>1
    <3>2. CASE ~ (x <= b)
      BY <2>2, <2>6, <2>7, <3>2
    <3> QED
      BY <3>1, <3>2
  <2> QED
    BY <2>8, <2>9
<1>3. \A n \in Nat : n \in T
  <2> HIDE DEF T
  <2> QED BY <1>1, <1>2, NatSet
<1>4. Cardinality(S) \in Nat /\ Cardinality(S) # 0
  BY FS_CardinalityType, FS_EmptySet
<1>5. Cardinality(S) - 1 \in Nat /\ (Cardinality(S) - 1) + 1 = Cardinality(S)
  BY <1>4
<1>6. Ok(S)
  BY <1>3, <1>5
<1> QED
  BY <1>6 DEF Max, Min

-----------------------------------------------------------------------------
(* insert_sort.                                                            *)

OrderedTo(a, i) == \A j, k \in 1..i : j < k => a[j] <= a[k]

\* A round puts the next number among those before it, which are in order.
LEMMA InsertKeyIs ==
  ASSUME NEW n \in Nat, NEW a \in [1..n -> Int], NEW i \in 1..n
  PROVE  /\ InsertKey(a, i) \in [1..n -> Int]
         /\ Same(InsertKey(a, i), a)
         /\ OrderedTo(a, i - 1) => OrderedTo(InsertKey(a, i), i)
<1> DEFINE S == {0} \cup {k \in 1..(i - 1) : a[k] <= a[i]}
           j == Place(a, i)
           b == InsertKey(a, i)
           p == [k \in 1..n |-> IF k = j + 1 THEN i ELSE IF k \in (j + 2)..i THEN k - 1 ELSE k]
<1>1. Len(a) = n
  BY LenProperties
<1>2. j \in S /\ \A y \in S : y <= j
  <2>1. S \subseteq 0..n /\ S # {} /\ S \subseteq Int
    OBVIOUS
  <2>2. IsFiniteSet(S)
    <3>1. IsFiniteSet(0..n)
      BY FS_Interval
    <3> HIDE DEF S
    <3> QED
      BY <2>1, <3>1, FS_Subset
  <2>3. Max(S) \in S /\ \A y \in S : y <= Max(S)
    <3> HIDE DEF S
    <3> QED BY <2>1, <2>2, Extremes
  <2>4. j = Max(S)
    BY DEF Place
  <2> QED
    BY <2>3, <2>4
<1>3. j \in 0..(i - 1) /\ (j > 0 => a[j] <= a[i]) /\ \A k \in (j + 1)..(i - 1) : a[k] > a[i]
  BY <1>2
<1>4. b = [k \in 1..n |-> IF k = j + 1 THEN a[i] ELSE IF k \in (j + 2)..i THEN a[k - 1] ELSE a[k]]
  BY <1>1 DEF InsertKey
<1> HIDE DEF j, b, S
<1>5. p \in [1..n -> 1..n] /\ \A k, l \in 1..n : p[k] = p[l] => k = l
  BY <1>3
<1>6. \A k \in 1..n : b[k] = a[p[k]]
  BY <1>3, <1>4
<1>7. b \in [1..n -> Int]
  BY <1>3, <1>4
<1>8. Moved(n, b, a, p)
  <2> HIDE DEF p
  <2> QED BY <1>5, <1>6, <1>7 DEF Moved
<1>9. ASSUME OrderedTo(a, i - 1), NEW k \in 1..i, NEW l \in 1..i, k < l PROVE b[k] <= b[l]
  <2>1. \A x, y \in 1..(i - 1) : x < y => a[x] <= a[y]
    BY <1>9 DEF OrderedTo
  <2>2. b[k] = IF k = j + 1 THEN a[i] ELSE IF k \in (j + 2)..i THEN a[k - 1] ELSE a[k]
    BY <1>4
  <2>3. b[l] = IF l = j + 1 THEN a[i] ELSE IF l \in (j + 2)..i THEN a[l - 1] ELSE a[l]
    BY <1>4
  <2>4. \A x \in 1..i : a[x] \in Int
    OBVIOUS
  <2>5. CASE l <= j
    BY <1>3, <1>9, <2>1, <2>2, <2>3, <2>4, <2>5
  <2>6. CASE l = j + 1
    <3>1. b[l] = a[i] /\ b[k] = a[k] /\ k <= j /\ k \in 1..(i - 1) /\ j \in 1..(i - 1)
      BY <1>3, <1>9, <2>2, <2>3, <2>6
    <3>2. a[k] <= a[j]
      BY <2>1, <2>4, <3>1
    <3> QED
      BY <1>3, <2>4, <3>1, <3>2
  <2>7. CASE l > j + 1
    <3>1. b[l] = a[l - 1] /\ l - 1 \in (j + 1)..(i - 1)
      BY <1>3, <2>3, <2>7
    <3>2. CASE k <= j
      <4>1. b[k] = a[k] /\ k \in 1..(i - 1) /\ l - 1 \in 1..(i - 1) /\ k < l - 1
        BY <1>3, <2>2, <3>1, <3>2
      <4> QED
        BY <2>1, <3>1, <4>1
    <3>3. CASE k = j + 1
      BY <1>3, <2>2, <2>4, <3>1, <3>3
    <3>4. CASE k > j + 1
      <4>1. b[k] = a[k - 1] /\ k - 1 \in 1..(i - 1) /\ l - 1 \in 1..(i - 1) /\ k - 1 < l - 1
        BY <1>3, <1>9, <2>2, <3>1, <3>4
      <4> QED
        BY <2>1, <3>1, <4>1
    <3> QED
      BY <1>3, <3>2, <3>3, <3>4
  <2> QED
    BY <1>3, <2>5, <2>6, <2>7
<1> QED
  BY <1>7, <1>8, <1>9, SameMoved DEF OrderedTo, b

\* insert_sort returns the numbers in order.
THEOREM InsertSorts ==
  ASSUME NEW a \in Arrays
  PROVE  insert_sort(a) \in Arrays /\ Ordered(insert_sort(a)) /\ Same(insert_sort(a), a)
<1> DEFINE n == Len(a)
           V == [1..n -> Int]
           Eq(f) == f = [i \in 0..n |-> IF i <= 1 THEN a ELSE InsertKey(f[i - 1], i)]
           rounds == CHOOSE f : Eq(f)
           step == [i \in 1..n |-> [v \in V |-> IF i = 1 THEN v ELSE InsertKey(v, i)]]
<1>1. n \in Nat /\ a \in V
  BY ArrayFun
<1>2. insert_sort(a) = rounds[n]
  BY DEF insert_sort
<1> HIDE DEF n
<1>3. PICK f : Runs(n, V, a, step, f)
  <2>1. \A i \in 1..n : \A v \in V : InsertKey(v, i) \in V
    BY <1>1, InsertKeyIs
  <2>2. step \in [1..n -> [V -> V]]
    <3> HIDE DEF V
    <3> QED BY <2>1
  <2>3. Loop(n, V, a, step)
    <3> HIDE DEF V, step
    <3> QED BY <1>1, <2>2 DEF Loop
  <2> HIDE DEF step, V
  <2> QED
    BY <2>3, Rounds
<1>4. Eq(f)
  <2> HIDE DEF V
  <2>1. f \in [0..n -> V] /\ f[0] = a /\ \A i \in 1..n : f[i - 1] \in V /\ f[i] = step[i][f[i - 1]]
    BY <1>3 DEF Runs
  <2>2. \A i \in 1..n : \A v \in V : step[i][v] = IF i = 1 THEN v ELSE InsertKey(v, i)
    OBVIOUS
  <2> HIDE DEF step
  <2>3. \A i \in 0..n : f[i] = IF i <= 1 THEN a ELSE InsertKey(f[i - 1], i)
    BY <1>1, <2>1, <2>2
  <2> QED
    BY <2>1, <2>3
<1>5. Eq(rounds)
  <2> HIDE DEF Eq
  <2> QED BY <1>4
<1> HIDE DEF rounds
<1>6. \A i \in 0..n : rounds[i] = IF i <= 1 THEN a ELSE InsertKey(rounds[i - 1], i)
  BY <1>5
<1> DEFINE T == {i \in Nat : i <= n => rounds[i] \in V /\ Same(rounds[i], a) /\ OrderedTo(rounds[i], i)}
<1>7. 0 \in T
  BY <1>1, <1>6, SameSelf DEF OrderedTo
<1>8. ASSUME NEW i \in Nat, i \in T PROVE i + 1 \in T
  <2> SUFFICES ASSUME i + 1 <= n
               PROVE  rounds[i + 1] \in V /\ Same(rounds[i + 1], a) /\ OrderedTo(rounds[i + 1], i + 1)
    OBVIOUS
  <2>1. CASE i = 0
    BY <1>1, <1>6, <2>1, SameSelf DEF OrderedTo
  <2>2. CASE i # 0
    <3>1. rounds[i + 1] = InsertKey(rounds[i], i + 1)
      BY <1>1, <1>6, <2>2
    <3>2. rounds[i] \in V /\ Same(rounds[i], a) /\ OrderedTo(rounds[i], (i + 1) - 1)
      BY <1>1, <1>8
    <3>3. /\ InsertKey(rounds[i], i + 1) \in V
          /\ Same(InsertKey(rounds[i], i + 1), rounds[i])
          /\ OrderedTo(InsertKey(rounds[i], i + 1), i + 1)
      <4>1. i + 1 \in 1..n
        BY <1>1
      <4> QED
        BY <1>1, <3>2, <4>1, InsertKeyIs
    <3> QED
      BY <3>1, <3>2, <3>3, SameTrans
  <2> QED
    BY <2>1, <2>2
<1>9. \A i \in Nat : i \in T
  <2> HIDE DEF T
  <2> QED BY <1>7, <1>8, NatSet
<1>10. rounds[n] \in V /\ Same(rounds[n], a) /\ OrderedTo(rounds[n], n)
  BY <1>1, <1>9
<1>11. rounds[n] \in Arrays /\ Len(rounds[n]) = n
  BY <1>1, <1>10, ArrayIs
<1> QED
  BY <1>2, <1>10, <1>11 DEF Ordered, OrderedTo

-----------------------------------------------------------------------------
(* merge_sort.                                                             *)

\* The rounds of the merge: t[k] elements of a1 and k - t[k] of a2 are taken.
Takes(a1, a2, i, j) == i < Len(a1) /\ (j < Len(a2) => a1[i + 1] < a2[j + 1])
Taken(a1, a2, t) == /\ t \in [0..(Len(a1) + Len(a2)) -> Nat] /\ t[0] = 0
                    /\ \A k \in 1..(Len(a1) + Len(a2)) :
                         t[k] = IF Takes(a1, a2, t[k - 1], k - 1 - t[k - 1]) THEN t[k - 1] + 1 ELSE t[k - 1]

LEMMA MergeTakes ==
  ASSUME NEW a1 \in Arrays, NEW a2 \in Arrays
  PROVE  \E t : /\ Taken(a1, a2, t)
                /\ Merge(a1, a2) = [k \in 1..(Len(a1) + Len(a2)) |->
                                      IF t[k] = t[k - 1] THEN a2[k - t[k]] ELSE a1[t[k]]]
<1> DEFINE n == Len(a1) + Len(a2)
           Body(f, k) == IF Takes(a1, a2, f[k - 1], k - 1 - f[k - 1]) THEN f[k - 1] + 1 ELSE f[k - 1]
           Eq(f) == f = [k \in 0..n |-> IF k = 0 THEN 0 ELSE Body(f, k)]
           taken == CHOOSE f : Eq(f)
           step == [k \in 1..n |-> [i \in Nat |-> IF Takes(a1, a2, i, k - 1 - i) THEN i + 1 ELSE i]]
<1>1. n \in Nat
  BY ArrayFun
<1>2. Merge(a1, a2) = [k \in 1..n |-> IF taken[k] = taken[k - 1] THEN a2[k - taken[k]] ELSE a1[taken[k]]]
  BY DEF Merge, Takes
<1> HIDE DEF n
<1>3. PICK f : Runs(n, Nat, 0, step, f)
  <2>1. step \in [1..n -> [Nat -> Nat]]
    OBVIOUS
  <2>2. Loop(n, Nat, 0, step)
    <3> HIDE DEF step
    <3> QED BY <1>1, <2>1 DEF Loop
  <2> HIDE DEF step
  <2> QED
    BY <2>2, Rounds
<1>4. Eq(f)
  <2>1. f \in [0..n -> Nat] /\ f[0] = 0 /\ \A i \in 1..n : f[i - 1] \in Nat /\ f[i] = step[i][f[i - 1]]
    BY <1>3 DEF Runs
  <2>2. \A k \in 1..n : \A i \in Nat : step[k][i] = IF Takes(a1, a2, i, k - 1 - i) THEN i + 1 ELSE i
    OBVIOUS
  <2> HIDE DEF step
  <2>3. \A k \in 1..n : f[k] = Body(f, k)
    BY <1>1, <2>1, <2>2
  <2> HIDE DEF Body
  <2>4. \A k \in 0..n : f[k] = IF k = 0 THEN 0 ELSE Body(f, k)
    BY <1>1, <2>1, <2>3
  <2> QED
    BY <2>1, <2>4
<1>5. Eq(taken)
  <2> HIDE DEF Eq
  <2> QED BY <1>4
<1> HIDE DEF taken
<1>6. taken[0] = 0 /\ \A k \in 1..n : taken[k] = Body(taken, k)
  <2> HIDE DEF Body
  <2> QED BY <1>1, <1>5
<1> DEFINE T == {k \in Nat : k <= n => taken[k] \in Nat}
<1>7. 0 \in T
  BY <1>6
<1>8. ASSUME NEW k \in Nat, k \in T PROVE k + 1 \in T
  <2> SUFFICES ASSUME k + 1 <= n PROVE taken[k + 1] \in Nat
    OBVIOUS
  <2>1. taken[k] \in Nat
    BY <1>1, <1>8
  <2>2. k + 1 \in 1..n /\ (k + 1) - 1 = k
    BY <1>1
  <2>3. taken[k + 1] = taken[k] + 1 \/ taken[k + 1] = taken[k]
    BY <1>6, <2>2
  <2> QED
    BY <2>1, <2>3
<1>9. \A k \in Nat : k \in T
  <2> HIDE DEF T
  <2> QED BY <1>7, <1>8, NatSet
<1>10. taken \in [0..n -> Nat]
  <2>1. \A k \in 0..n : taken[k] \in Nat
    BY <1>1, <1>9
  <2>2. taken = [k \in 0..n |-> taken[k]]
    <3> HIDE DEF Body
    <3> QED BY <1>5
  <2> QED
    BY <2>1, <2>2
<1>11. Taken(a1, a2, taken)
  BY <1>6, <1>10 DEF Taken, n
<1> QED
  BY <1>2, <1>11 DEF n

\* Neither count goes down, and neither exceeds its array.
LEMMA TakenIs ==
  ASSUME NEW a1 \in Arrays, NEW a2 \in Arrays, NEW t, Taken(a1, a2, t)
  PROVE  /\ \A k \in 0..(Len(a1) + Len(a2)) : t[k] \in 0..Len(a1) /\ k - t[k] \in 0..Len(a2)
         /\ \A k, l \in 0..(Len(a1) + Len(a2)) : k <= l => t[k] <= t[l] /\ k - t[k] <= l - t[l]
         /\ \A k \in 1..(Len(a1) + Len(a2)) : IF t[k] = t[k - 1] THEN k - t[k] \in 1..Len(a2) ELSE t[k] \in 1..Len(a1)
<1> DEFINE n1 == Len(a1)
           n2 == Len(a2)
           n == n1 + n2
<1>1. n1 \in Nat /\ n2 \in Nat
  BY ArrayFun
<1>2. /\ t[0] = 0 /\ \A k \in 0..n : t[k] \in Nat
      /\ \A k \in 1..n : t[k] = IF Takes(a1, a2, t[k - 1], k - 1 - t[k - 1]) THEN t[k - 1] + 1 ELSE t[k - 1]
  BY DEF Taken
<1>3. \A i, j : /\ Takes(a1, a2, i, j) => i < n1
                /\ ~ Takes(a1, a2, i, j) => ~ (i < n1) \/ j < n2
  BY DEF Takes
<1> HIDE DEF n1, n2
<1> DEFINE T == {k \in Nat : k <= n => t[k] \in 0..n1 /\ k - t[k] \in 0..n2}
<1>4. 0 \in T
  BY <1>1, <1>2
<1>5. ASSUME NEW k \in Nat, k \in T PROVE k + 1 \in T
  <2> SUFFICES ASSUME k + 1 <= n PROVE t[k + 1] \in 0..n1 /\ (k + 1) - t[k + 1] \in 0..n2
    OBVIOUS
  <2>1. t[k] \in 0..n1 /\ k - t[k] \in 0..n2
    BY <1>1, <1>5
  <2>2. k + 1 \in 1..n /\ (k + 1) - 1 = k
    BY <1>1
  <2>3. t[k + 1] = IF Takes(a1, a2, t[k], k - t[k]) THEN t[k] + 1 ELSE t[k]
    BY <1>2, <2>2
  <2>4. CASE Takes(a1, a2, t[k], k - t[k])
    BY <1>1, <1>3, <2>1, <2>3, <2>4
  <2>5. CASE ~ Takes(a1, a2, t[k], k - t[k])
    <3>1. ~ (t[k] < n1) \/ k - t[k] < n2
      BY <1>3, <2>5
    <3> QED
      BY <1>1, <2>1, <2>3, <2>5, <3>1
  <2> QED
    BY <2>4, <2>5
<1>6. \A k \in Nat : k \in T
  <2> HIDE DEF T
  <2> QED BY <1>4, <1>5, NatSet
<1>7. \A k \in 0..n : t[k] \in 0..n1 /\ k - t[k] \in 0..n2
  BY <1>1, <1>6
<1>8. ASSUME NEW k \in 0..n
      PROVE  \A l \in 0..n : k <= l => t[k] <= t[l] /\ k - t[k] <= l - t[l]
  <2> DEFINE U == {d \in Nat : k + d <= n => t[k] <= t[k + d] /\ k - t[k] <= (k + d) - t[k + d]}
  <2>1. 0 \in U
    BY <1>1, <1>2
  <2>2. ASSUME NEW d \in Nat, d \in U PROVE d + 1 \in U
    <3> SUFFICES ASSUME k + (d + 1) <= n
                 PROVE  t[k] <= t[k + (d + 1)] /\ k - t[k] <= (k + (d + 1)) - t[k + (d + 1)]
      OBVIOUS
    <3>1. k + (d + 1) \in 1..n /\ (k + (d + 1)) - 1 = k + d /\ k + d \in 0..n
      BY <1>1
    <3>2. t[k + (d + 1)] = t[k + d] \/ t[k + (d + 1)] = t[k + d] + 1
      BY <1>2, <3>1
    <3>3. t[k] \in Nat /\ t[k + d] \in Nat /\ t[k] <= t[k + d] /\ k - t[k] <= (k + d) - t[k + d]
      BY <1>1, <1>2, <2>2, <3>1
    <3> QED
      BY <3>2, <3>3
  <2>3. \A d \in Nat : d \in U
    <3> HIDE DEF U
    <3> QED BY <2>1, <2>2, NatSet
  <2> SUFFICES ASSUME NEW l \in 0..n, k <= l PROVE t[k] <= t[l] /\ k - t[k] <= l - t[l]
    OBVIOUS
  <2>4. l - k \in Nat /\ k + (l - k) = l
    BY <1>1
  <2> QED
    BY <1>1, <2>3, <2>4
<1>9. \A k \in 1..n : IF t[k] = t[k - 1] THEN k - t[k] \in 1..n2 ELSE t[k] \in 1..n1
  <2> SUFFICES ASSUME NEW k \in 1..n PROVE IF t[k] = t[k - 1] THEN k - t[k] \in 1..n2 ELSE t[k] \in 1..n1
    OBVIOUS
  <2>1. k \in 0..n /\ k - 1 \in 0..n
    BY <1>1
  <2>2. t[k] \in 0..n1 /\ k - t[k] \in 0..n2 /\ t[k - 1] \in 0..n1 /\ (k - 1) - t[k - 1] \in 0..n2
    BY <1>7, <2>1
  <2>3. t[k] = t[k - 1] \/ t[k] = t[k - 1] + 1
    BY <1>2
  <2> QED
    BY <1>1, <2>2, <2>3
<1> QED
  BY <1>7, <1>8, <1>9 DEF n1, n2

\* The merged array has the numbers of both.
LEMMA MergeSame ==
  ASSUME NEW a1 \in Arrays, NEW a2 \in Arrays
  PROVE  Merge(a1, a2) \in Arrays /\ Same(Merge(a1, a2), a1 \o a2)
<1>1. PICK t : /\ Taken(a1, a2, t)
               /\ Merge(a1, a2) = [k \in 1..(Len(a1) + Len(a2)) |->
                                     IF t[k] = t[k - 1] THEN a2[k - t[k]] ELSE a1[t[k]]]
  BY MergeTakes
<1> DEFINE n1 == Len(a1)
           n2 == Len(a2)
           n == n1 + n2
           c == Merge(a1, a2)
           d == a1 \o a2
           p == [k \in 1..n |-> IF t[k] = t[k - 1] THEN n1 + (k - t[k]) ELSE t[k]]
<1>2. /\ n1 \in Nat /\ n2 \in Nat /\ n \in Nat
      /\ \A i \in 1..n1 : a1[i] \in Int /\ d[i] = a1[i]
      /\ \A i \in 1..n2 : a2[i] \in Int /\ d[n1 + i] = a2[i]
      /\ d \in [1..n -> Int]
  BY ArrayFun, ConcatIs
<1>3. /\ \A k \in 0..n : t[k] \in 0..n1 /\ k - t[k] \in 0..n2
      /\ \A k, l \in 0..n : k <= l => t[k] <= t[l] /\ k - t[k] <= l - t[l]
      /\ \A k \in 1..n : IF t[k] = t[k - 1] THEN k - t[k] \in 1..n2 ELSE t[k] \in 1..n1
  BY <1>1, TakenIs
<1>4. c = [k \in 1..n |-> IF t[k] = t[k - 1] THEN a2[k - t[k]] ELSE a1[t[k]]]
  BY <1>1
<1> HIDE DEF n1, n2, c, d
<1>5. c \in [1..n -> Int]
  BY <1>2, <1>3, <1>4
<1>6. p \in [1..n -> 1..n]
  <2>1. ASSUME NEW k \in 1..n PROVE (IF t[k] = t[k - 1] THEN n1 + (k - t[k]) ELSE t[k]) \in 1..n
    <3>1. IF t[k] = t[k - 1] THEN k - t[k] \in 1..n2 ELSE t[k] \in 1..n1
      BY <1>3
    <3>2. CASE t[k] = t[k - 1]
      <4> DEFINE u == k - t[k]
      <4>1. u \in 1..n2
        BY <3>1, <3>2
      <4> HIDE DEF u
      <4>2. n1 + u \in 1..n
        BY <1>2, <4>1
      <4> QED
        BY <3>2, <4>2 DEF u
    <3>3. CASE t[k] # t[k - 1]
      BY <1>2, <3>1, <3>3
    <3> QED
      BY <3>2, <3>3
  <2> QED
    BY <2>1
<1>7. ASSUME NEW k \in 1..n, NEW l \in 1..n, k < l PROVE p[k] # p[l]
  <2>1. k \in 0..n /\ l - 1 \in 0..n /\ k <= l - 1 /\ l \in 0..n
    BY <1>2, <1>7
  <2>2. t[k] <= t[l - 1] /\ k - t[k] <= (l - 1) - t[l - 1]
    BY <1>3, <2>1
  <2>3. t[k] \in 0..n1 /\ t[l] \in 0..n1 /\ t[l - 1] \in 0..n1 /\ t[l - 1] <= t[l]
    BY <1>3, <2>1
  <2>4. IF t[k] = t[k - 1] THEN k - t[k] \in 1..n2 ELSE t[k] \in 1..n1
    BY <1>3
  <2>5. IF t[l] = t[l - 1] THEN l - t[l] \in 1..n2 ELSE t[l] \in 1..n1
    BY <1>3
  <2>6. p[k] = (IF t[k] = t[k - 1] THEN n1 + (k - t[k]) ELSE t[k])
        /\ p[l] = (IF t[l] = t[l - 1] THEN n1 + (l - t[l]) ELSE t[l])
    OBVIOUS
  <2> HIDE DEF p
  <2>7. CASE t[k] = t[k - 1]
    <3>1. p[k] = n1 + (k - t[k]) /\ k - t[k] >= 1
      BY <2>4, <2>6, <2>7
    <3>2. CASE t[l] = t[l - 1]
      <4>1. p[l] = n1 + (l - t[l]) /\ k - t[k] <= (l - 1) - t[l]
        BY <2>2, <2>6, <3>2
      <4>2. t[k] \in Int /\ t[l] \in Int /\ k \in Int /\ l \in Int
        BY <2>3
      <4> QED
        BY <1>2, <3>1, <4>1, <4>2
    <3>3. CASE t[l] # t[l - 1]
      BY <1>2, <2>2, <2>3, <2>6, <3>1, <3>3
    <3> QED
      BY <3>2, <3>3
  <2>8. CASE t[k] # t[k - 1]
    <3>1. p[k] = t[k]
      BY <2>6, <2>8
    <3>2. CASE t[l] = t[l - 1]
      <4>1. p[l] = n1 + (l - t[l]) /\ l - t[l] >= 1
        BY <2>5, <2>6, <3>2
      <4> QED
        BY <1>2, <2>3, <3>1, <4>1
    <3>3. CASE t[l] # t[l - 1]
      BY <1>2, <2>2, <2>3, <2>6, <3>1, <3>3
    <3> QED
      BY <3>2, <3>3
  <2> QED
    BY <2>7, <2>8
<1>8. \A k, l \in 1..n : p[k] = p[l] => k = l
  <2> HIDE DEF p, n
  <2> QED BY <1>2, <1>7
<1>9. \A k \in 1..n : c[k] = d[p[k]]
  <2> SUFFICES ASSUME NEW k \in 1..n PROVE c[k] = d[p[k]]
    OBVIOUS
  <2>1. IF t[k] = t[k - 1] THEN k - t[k] \in 1..n2 ELSE t[k] \in 1..n1
    BY <1>3
  <2> QED
    BY <1>2, <1>4, <2>1
<1>10. Moved(n, c, d, p)
  <2> HIDE DEF p, n
  <2> QED BY <1>2, <1>5, <1>6, <1>8, <1>9 DEF Moved
<1> QED
  BY <1>2, <1>5, <1>10, ArrayIs, SameMoved DEF c, d

\* What is taken in a round is not greater than what is left of either array.
LEMMA MergeOrdered ==
  ASSUME NEW a1 \in Arrays, NEW a2 \in Arrays, Ordered(a1), Ordered(a2)
  PROVE  Ordered(Merge(a1, a2))
<1>1. PICK t : /\ Taken(a1, a2, t)
               /\ Merge(a1, a2) = [k \in 1..(Len(a1) + Len(a2)) |->
                                     IF t[k] = t[k - 1] THEN a2[k - t[k]] ELSE a1[t[k]]]
  BY MergeTakes
<1> DEFINE n1 == Len(a1)
           n2 == Len(a2)
           n == n1 + n2
           c == Merge(a1, a2)
<1>2. n1 \in Nat /\ n2 \in Nat /\ n \in Nat
  BY ArrayFun
<1>3. /\ \A k \in 0..n : t[k] \in 0..n1 /\ k - t[k] \in 0..n2
      /\ \A k, l \in 0..n : k <= l => t[k] <= t[l] /\ k - t[k] <= l - t[l]
      /\ \A k \in 1..n : IF t[k] = t[k - 1] THEN k - t[k] \in 1..n2 ELSE t[k] \in 1..n1
  BY <1>1, TakenIs
<1>4. \A k \in 1..n : c[k] = IF t[k] = t[k - 1] THEN a2[k - t[k]] ELSE a1[t[k]]
  BY <1>1
<1>5. Len(c) = n
  BY <1>1, <1>2, LenProperties
<1>6. \A k \in 1..n : t[k] = IF Takes(a1, a2, t[k - 1], k - 1 - t[k - 1]) THEN t[k - 1] + 1 ELSE t[k - 1]
  BY <1>1 DEF Taken
<1>7. \A i, j \in Nat : Takes(a1, a2, i, j) <=> i < n1 /\ (j < n2 => a1[i + 1] < a2[j + 1])
  BY DEF Takes
<1>8. /\ \A i \in 1..n1 : a1[i] \in Int
      /\ \A i \in 1..n2 : a2[i] \in Int
      /\ \A i, j \in 1..n1 : i <= j => a1[i] <= a1[j]
      /\ \A i, j \in 1..n2 : i <= j => a2[i] <= a2[j]
  <2>1. (\A i \in 1..n1 : a1[i] \in Int) /\ (\A i \in 1..n2 : a2[i] \in Int)
    BY ArrayFun
  <2>2. (\A i, j \in 1..n1 : i < j => a1[i] <= a1[j]) /\ (\A i, j \in 1..n2 : i < j => a2[i] <= a2[j])
    BY DEF Ordered
  <2>3. \A m \in Nat : \A i, j \in 1..m : i <= j => i < j \/ i = j
    OBVIOUS
  <2>4. \A x \in Int : x <= x
    OBVIOUS
  <2> HIDE DEF n1, n2
  <2> QED
    BY <1>2, <2>1, <2>2, <2>3, <2>4
<1> HIDE DEF n1, n2, c
<1>9. ASSUME NEW k \in 1..n
      PROVE  /\ \A i \in (t[k] + 1)..n1 : c[k] <= a1[i]
             /\ \A j \in (k - t[k] + 1)..n2 : c[k] <= a2[j]
  <2>1. k \in 0..n /\ k - 1 \in 0..n
    BY <1>2
  <2>2. t[k] \in 0..n1 /\ k - t[k] \in 0..n2 /\ t[k - 1] \in 0..n1 /\ (k - 1) - t[k - 1] \in 0..n2
    BY <1>3, <2>1
  <2> DEFINE i0 == t[k - 1]
             j0 == k - 1 - t[k - 1]
  <2>3. i0 \in 0..n1 /\ j0 \in 0..n2 /\ i0 \in Nat /\ j0 \in Nat /\ j0 = k - 1 - i0
    BY <2>2
  <2>4. t[k] = IF Takes(a1, a2, i0, j0) THEN i0 + 1 ELSE i0
    BY <1>6
  <2>5. Takes(a1, a2, i0, j0) <=> i0 < n1 /\ (j0 < n2 => a1[i0 + 1] < a2[j0 + 1])
    BY <1>7, <2>3
  <2>6. c[k] = IF t[k] = i0 THEN a2[k - t[k]] ELSE a1[t[k]]
    BY <1>4
  <2> HIDE DEF i0, j0
  <2>7. CASE Takes(a1, a2, i0, j0)
    <3>1. t[k] = i0 + 1 /\ k - t[k] = j0 /\ c[k] = a1[i0 + 1] /\ i0 + 1 \in 1..n1
      BY <1>2, <2>3, <2>4, <2>5, <2>6, <2>7
    <3>2. \A i \in (t[k] + 1)..n1 : c[k] <= a1[i]
      BY <1>2, <1>8, <3>1
    <3>3. ASSUME NEW j \in (k - t[k] + 1)..n2 PROVE c[k] <= a2[j]
      <4>1. j0 + 1 \in 1..n2 /\ j \in 1..n2 /\ j0 + 1 <= j /\ j0 < n2
        BY <1>2, <2>3, <3>1
      <4>2. a2[j0 + 1] <= a2[j] /\ a1[i0 + 1] < a2[j0 + 1] /\ a1[i0 + 1] \in Int /\ a2[j0 + 1] \in Int /\ a2[j] \in Int
        BY <1>8, <2>5, <2>7, <3>1, <4>1
      <4> QED
        BY <3>1, <4>2
    <3> QED
      BY <3>2, <3>3
  <2>8. CASE ~ Takes(a1, a2, i0, j0)
    <3>1. t[k] = i0 /\ k - t[k] = j0 + 1 /\ c[k] = a2[j0 + 1] /\ j0 + 1 \in 1..n2
      BY <1>2, <2>2, <2>3, <2>4, <2>6, <2>8
    <3>2. \A j \in (k - t[k] + 1)..n2 : c[k] <= a2[j]
      BY <1>2, <1>8, <3>1
    <3>3. ASSUME NEW i \in (t[k] + 1)..n1 PROVE c[k] <= a1[i]
      <4>1. i0 + 1 \in 1..n1 /\ i \in 1..n1 /\ i0 + 1 <= i /\ i0 < n1
        BY <1>2, <2>3, <3>1
      <4>2. a1[i0 + 1] <= a1[i] /\ a1[i0 + 1] \in Int /\ a2[j0 + 1] \in Int /\ a1[i] \in Int /\ ~ (a1[i0 + 1] < a2[j0 + 1])
        BY <1>8, <2>5, <2>8, <3>1, <4>1
      <4> QED
        BY <3>1, <4>2
    <3> QED
      BY <3>2, <3>3
  <2> QED
    BY <2>7, <2>8
<1>10. ASSUME NEW k \in 1..n, NEW l \in 1..n, k < l PROVE c[k] <= c[l]
  <2>1. k \in 0..n /\ l - 1 \in 0..n /\ k <= l - 1 /\ l \in 0..n
    BY <1>2, <1>10
  <2>2. t[k] <= t[l - 1] /\ k - t[k] <= (l - 1) - t[l - 1] /\ t[l - 1] <= t[l]
    BY <1>3, <2>1
  <2>3. t[k] \in 0..n1 /\ t[l] \in 0..n1 /\ t[l - 1] \in 0..n1
    BY <1>3, <2>1
  <2>4. IF t[l] = t[l - 1] THEN l - t[l] \in 1..n2 ELSE t[l] \in 1..n1
    BY <1>3
  <2>5. CASE t[l] = t[l - 1]
    <3>1. c[l] = a2[l - t[l]] /\ l - t[l] \in (k - t[k] + 1)..n2
      BY <1>2, <1>4, <2>2, <2>3, <2>4, <2>5
    <3> QED
      BY <1>9, <3>1
  <2>6. CASE t[l] # t[l - 1]
    <3>1. c[l] = a1[t[l]] /\ t[l] \in (t[k] + 1)..n1
      BY <1>2, <1>4, <2>2, <2>3, <2>4, <2>6
    <3> QED
      BY <1>9, <3>1
  <2> QED
    BY <2>5, <2>6
<1> QED
  BY <1>5, <1>10 DEF Ordered, c
\* The two parts of an array that is cut at k.
LEMMA Parts ==
  ASSUME NEW a \in Arrays, NEW k \in 0..Len(a)
  PROVE  /\ SubSeq(a, 1, k) \in Arrays /\ Len(SubSeq(a, 1, k)) = k
         /\ \A i \in 1..k : SubSeq(a, 1, k)[i] = a[i]
         /\ From(a, k + 1) \in Arrays /\ Len(From(a, k + 1)) = Len(a) - k
         /\ \A i \in 1..(Len(a) - k) : From(a, k + 1)[i] = a[k + i]
         /\ a = SubSeq(a, 1, k) \o From(a, k + 1)
<1>1. Len(a) \in Nat /\ k \in Nat /\ k <= Len(a)
  BY ArrayFun
<1>2. /\ SubSeq(a, 1, k) \in Arrays /\ Len(SubSeq(a, 1, k)) = k - 1 + 1
      /\ \A i \in 1..(k - 1 + 1) : SubSeq(a, 1, k)[i] = a[1 + i - 1]
  BY <1>1, SubArray
<1>3. k - 1 + 1 = k /\ \A i \in 1..k : 1 + i - 1 = i
  BY <1>1
<1>4. /\ From(a, k + 1) \in Arrays /\ Len(From(a, k + 1)) = Len(a) - (k + 1) + 1
      /\ \A i \in 1..(Len(a) - (k + 1) + 1) : From(a, k + 1)[i] = a[(k + 1) + i - 1]
  <2>1. k + 1 \in Nat /\ k + 1 > 0 /\ k + 1 <= Len(a) + 1
    BY <1>1
  <2> QED
    BY <1>1, <2>1, SubArray DEF From
<1>5. Len(a) - (k + 1) + 1 = Len(a) - k /\ \A i \in 1..(Len(a) - k) : (k + 1) + i - 1 = k + i
  BY <1>1
<1> QED
  BY <1>2, <1>3, <1>4, <1>5, SplitIs DEF From

MergeStep(a, f) ==
  CASE Len(a) < 2 -> a
    [] Len(a) = 2 -> IF a[1] > a[2] THEN Swap(a, 1, 2) ELSE a
    [] OTHER -> Merge(f[SubSeq(a, 1, Len(a) \div 2)], f[From(a, (Len(a) \div 2) + 1)])

LEMMA Halves ==
  ASSUME NEW a \in Arrays, ~ (Len(a) < 2)
  PROVE  /\ Len(a) \div 2 \in 1..(Len(a) - 1)
         /\ SubSeq(a, 1, Len(a) \div 2) \in Arrays /\ Len(SubSeq(a, 1, Len(a) \div 2)) < Len(a)
         /\ From(a, (Len(a) \div 2) + 1) \in Arrays /\ Len(From(a, (Len(a) \div 2) + 1)) < Len(a)
         /\ a = SubSeq(a, 1, Len(a) \div 2) \o From(a, (Len(a) \div 2) + 1)
<1>1. Len(a) \in Nat
  BY ArrayFun
<1>2. Len(a) \div 2 \in 1..(Len(a) - 1) /\ Len(a) \div 2 \in 0..Len(a)
  BY <1>1
<1> DEFINE k == Len(a) \div 2
<1> HIDE DEF k
<1>3. k \in 1..(Len(a) - 1) /\ k \in 0..Len(a)
  BY <1>2 DEF k
<1>4. /\ SubSeq(a, 1, k) \in Arrays /\ Len(SubSeq(a, 1, k)) = k
      /\ From(a, k + 1) \in Arrays /\ Len(From(a, k + 1)) = Len(a) - k
      /\ a = SubSeq(a, 1, k) \o From(a, k + 1)
  BY <1>3, Parts
<1>5. k < Len(a) /\ Len(a) - k < Len(a)
  BY <1>1, <1>3
<1> QED
  BY <1>3, <1>4, <1>5 DEF k

\* The array of two with its numbers exchanged.
LEMMA SwapTwo ==
  ASSUME NEW a \in Arrays, Len(a) = 2
  PROVE  LET b == Swap(a, 1, 2)
         IN  b \in Arrays /\ Len(b) = 2 /\ b[1] = a[2] /\ b[2] = a[1] /\ Same(b, a)
<1> DEFINE b == Swap(a, 1, 2)
<1>1. 1 \in 1..Len(a) /\ 2 \in 1..Len(a)
  OBVIOUS
<1>2. b \in Arrays /\ Len(b) = Len(a) /\ Same(b, a)
  BY <1>1, SwapIs
<1>3. b[1] = a[2] /\ b[2] = a[1]
  BY <1>1, SwapIs
<1> QED
  BY <1>2, <1>3 DEF b

LEMMA MergeSortIs == \A a \in Arrays : merge_sort[a] = MergeStep(a, merge_sort)
<1> DEFINE Eq(f) == f = [a \in Arrays |-> MergeStep(a, f)]
           m == [a \in Arrays |-> Len(a)]
           step == [a \in Arrays |-> [f \in [Arrays -> Arrays] |-> MergeStep(a, f)]]
<1>1. merge_sort = CHOOSE f : Eq(f)
  BY DEF merge_sort, MergeStep, Mid
<1>2. m \in [Arrays -> Nat]
  BY ArrayFun
<1>3. ASSUME NEW a \in Arrays, NEW f \in [Arrays -> Arrays] PROVE MergeStep(a, f) \in Arrays
  <2>1. CASE Len(a) < 2
    BY <2>1 DEF MergeStep
  <2>2. CASE Len(a) = 2
    <3>1. Swap(a, 1, 2) \in Arrays
      BY <2>2, SwapTwo
    <3> QED
      BY <2>2, <3>1 DEF MergeStep
  <2>3. CASE ~ (Len(a) < 2) /\ Len(a) # 2
    BY <2>3, Halves, MergeSame DEF MergeStep
  <2> QED
    BY <2>1, <2>2, <2>3
<1>4. step \in [Arrays -> [[Arrays -> Arrays] -> Arrays]]
  BY <1>3
<1>5. Depends(Arrays, m, step, [Arrays -> Arrays])
  <2> SUFFICES ASSUME NEW a \in Arrays, NEW f \in [Arrays -> Arrays], NEW g \in [Arrays -> Arrays],
                      \A y \in Arrays : m[y] < m[a] => f[y] = g[y]
               PROVE  step[a][f] = step[a][g]
    BY DEF Depends
  <2>1. MergeStep(a, f) = MergeStep(a, g)
    <3>1. CASE Len(a) < 2
      BY <3>1 DEF MergeStep
    <3>2. CASE ~ (Len(a) < 2)
      <4>1. /\ f[SubSeq(a, 1, Len(a) \div 2)] = g[SubSeq(a, 1, Len(a) \div 2)]
            /\ f[From(a, (Len(a) \div 2) + 1)] = g[From(a, (Len(a) \div 2) + 1)]
        BY <3>2, Halves
      <4> QED
        BY <4>1 DEF MergeStep
    <3> QED
      BY <3>1, <3>2
  <2> QED
    BY <2>1
<1>6. Recursive(Arrays, Arrays, m, step)
  <2>1. Arrays # {}
    BY EmptySeq DEF Arrays
  <2> HIDE DEF m, step
  <2> QED
    BY <1>2, <1>4, <1>5, <2>1, Zenon DEF Recursive
<1>7. PICK f : Solves(Arrays, Arrays, step, f)
  <2> HIDE DEF m, step
  <2> QED BY <1>6, Recursion, Zenon
<1>8. f \in [Arrays -> Arrays] /\ \A a \in Arrays : f[a] = MergeStep(a, f)
  BY <1>7 DEF Solves
<1>9. Eq(f)
  BY <1>8
<1>10. Eq(merge_sort)
  <2> HIDE DEF Eq
  <2> QED BY <1>1, <1>9
<1> QED
  BY <1>10

\* merge_sort returns the numbers in order.
THEOREM MergeSorts ==
  \A a \in Arrays : merge_sort[a] \in Arrays /\ Ordered(merge_sort[a]) /\ Same(merge_sort[a], a)
<1> DEFINE Ok(a) == merge_sort[a] \in Arrays /\ Ordered(merge_sort[a]) /\ Same(merge_sort[a], a)
           T == {n \in Nat : \A a \in Arrays : Len(a) <= n => Ok(a)}
<1>0. \A a \in Arrays : Len(a) \in Nat
  BY ArrayFun
<1>1. ASSUME NEW a \in Arrays, Len(a) < 2 PROVE Ok(a)
  <2>1. merge_sort[a] = a
    BY <1>1, MergeSortIs DEF MergeStep
  <2> QED
    BY <1>0, <1>1, <2>1, SameSelf DEF Ordered
<1>2. ASSUME NEW a \in Arrays, Len(a) = 2 PROVE Ok(a)
  <2>1. merge_sort[a] = IF a[1] > a[2] THEN Swap(a, 1, 2) ELSE a
    BY <1>2, MergeSortIs DEF MergeStep
  <2>2. a \in [1..2 -> Int]
    BY <1>2, ArrayFun
  <2>3. CASE a[1] > a[2]
    <3> DEFINE b == Swap(a, 1, 2)
    <3>1. b[1] = a[2] /\ b[2] = a[1] /\ Same(b, a)
      BY <1>2, SwapTwo
    <3>2. b \in Arrays /\ Len(b) = 2
      BY <1>2, SwapTwo
    <3> HIDE DEF b
    <3>3. Ordered(b)
      BY <2>2, <2>3, <3>1, <3>2 DEF Ordered
    <3> QED
      BY <2>1, <2>3, <3>1, <3>2, <3>3 DEF b
  <2>4. CASE ~ (a[1] > a[2])
    <3>1. Ordered(a)
      BY <1>2, <2>2, <2>4 DEF Ordered
    <3> QED
      BY <2>1, <2>4, <3>1, SameSelf
  <2> QED
    BY <2>3, <2>4
<1>3. 0 \in T
  BY <1>0, <1>1
<1>4. ASSUME NEW n \in Nat, n \in T PROVE n + 1 \in T
  <2> SUFFICES ASSUME NEW a \in Arrays, Len(a) <= n + 1 PROVE Ok(a)
    OBVIOUS
  <2>1. CASE ~ (Len(a) < 2) /\ Len(a) # 2
    <3> DEFINE b == SubSeq(a, 1, Len(a) \div 2)
               c == From(a, (Len(a) \div 2) + 1)
    <3>1. b \in Arrays /\ Len(b) < Len(a) /\ c \in Arrays /\ Len(c) < Len(a) /\ a = b \o c
      BY <2>1, Halves
    <3>2. merge_sort[a] = Merge(merge_sort[b], merge_sort[c])
      BY <2>1, MergeSortIs DEF MergeStep
    <3> HIDE DEF b, c
    <3>3. Ok(b) /\ Ok(c)
      <4>1. Len(b) <= n /\ Len(c) <= n
        BY <1>0, <3>1
      <4> QED
        BY <1>4, <3>1, <4>1
    <3>4. /\ Merge(merge_sort[b], merge_sort[c]) \in Arrays
          /\ Same(Merge(merge_sort[b], merge_sort[c]), merge_sort[b] \o merge_sort[c])
          /\ Ordered(Merge(merge_sort[b], merge_sort[c]))
      BY <3>3, MergeSame, MergeOrdered
    <3>5. Same(merge_sort[b] \o merge_sort[c], b \o c)
      BY <3>1, <3>3, SameConcat
    <3> QED
      BY <3>1, <3>2, <3>4, <3>5, SameTrans
  <2> QED
    BY <1>1, <1>2, <2>1
<1>5. \A n \in Nat : n \in T
  <2> HIDE DEF T
  <2> QED BY <1>3, <1>4, NatSet
<1> QED
  BY <1>0, <1>5

-----------------------------------------------------------------------------
(* bin_find.                                                               *)

FindStep(a, x, f) ==
  IF Len(a) < 1 THEN -1
  ELSE IF x = a[Mid(a) + 1] THEN Mid(a)
  ELSE IF x > a[Mid(a) + 1] THEN Mid(a) + 1 + f[From(a, Mid(a) + 2)]
  ELSE f[SubSeq(a, 1, Mid(a))]

LEMMA FindParts ==
  ASSUME NEW a \in Arrays, NEW x \in Int, NEW f, Len(a) >= 1
  PROVE  LET mid == Len(a) \div 2
             u == From(a, mid + 2)
             l == SubSeq(a, 1, mid)
         IN  /\ mid \in 0..(Len(a) - 1) /\ a[mid + 1] \in Int
             /\ l \in Arrays /\ Len(l) = mid /\ \A i \in 1..mid : l[i] = a[i]
             /\ u \in Arrays /\ Len(u) = Len(a) - (mid + 1)
             /\ \A i \in 1..(Len(a) - (mid + 1)) : u[i] = a[mid + 1 + i]
             /\ x = a[mid + 1] => FindStep(a, x, f) = mid
             /\ x > a[mid + 1] => FindStep(a, x, f) = mid + 1 + f[u]
             /\ x < a[mid + 1] => FindStep(a, x, f) = f[l]
<1> DEFINE mid == Len(a) \div 2
<1>1. Len(a) \in Nat
  BY ArrayFun
<1>2. mid \in 0..(Len(a) - 1) /\ mid \in 0..Len(a) /\ mid + 1 \in 0..Len(a) /\ mid + 1 \in 1..Len(a)
  BY <1>1
<1>3. a[mid + 1] \in Int
  BY <1>2, ArrayFun
<1>4. (mid + 1) + 1 = mid + 2
  BY <1>1, <1>2
<1>5. /\ SubSeq(a, 1, mid) \in Arrays /\ Len(SubSeq(a, 1, mid)) = mid
      /\ \A i \in 1..mid : SubSeq(a, 1, mid)[i] = a[i]
  BY <1>2, Parts
<1>6. /\ From(a, mid + 2) \in Arrays /\ Len(From(a, mid + 2)) = Len(a) - (mid + 1)
      /\ \A i \in 1..(Len(a) - (mid + 1)) : From(a, mid + 2)[i] = a[mid + 1 + i]
  <2> HIDE DEF mid
  <2> QED BY <1>2, <1>4, Parts
<1>7. ~ (Len(a) < 1)
  BY <1>1
<1>8. /\ x = a[mid + 1] => ~ (x > a[mid + 1]) /\ ~ (x < a[mid + 1])
      /\ x > a[mid + 1] => x # a[mid + 1] /\ ~ (x < a[mid + 1])
      /\ x < a[mid + 1] => ~ (x > a[mid + 1]) /\ x # a[mid + 1]
  BY <1>3
<1>9. x = a[mid + 1] => FindStep(a, x, f) = mid
  BY <1>7, <1>8 DEF FindStep, Mid
<1>10. x > a[mid + 1] => FindStep(a, x, f) = mid + 1 + f[From(a, mid + 2)]
  BY <1>7, <1>8 DEF FindStep, Mid
<1>11. x < a[mid + 1] => FindStep(a, x, f) = f[SubSeq(a, 1, mid)]
  BY <1>7, <1>8 DEF FindStep, Mid
<1> QED
  BY <1>2, <1>3, <1>5, <1>6, <1>9, <1>10, <1>11

LEMMA FindIs ==
  ASSUME NEW x \in Int
  PROVE  \E f : \A a \in Arrays : f[a] = FindStep(a, x, f) /\ bin_find(a, x) = f[a]
<1> DEFINE Eq(f) == f = [a \in Arrays |-> FindStep(a, x, f)]
           find == CHOOSE f : Eq(f)
           m == [a \in Arrays |-> Len(a)]
           step == [a \in Arrays |-> [f \in [Arrays -> Int] |-> FindStep(a, x, f)]]
<1>0. \A a \in Arrays : Len(a) \in Nat
  BY ArrayFun
<1>1. ASSUME NEW b \in Arrays PROVE bin_find(b, x) = find[b]
  BY DEF bin_find, FindStep, Passed
<1>2. m \in [Arrays -> Nat]
  BY <1>0
<1>3. ASSUME NEW a \in Arrays, NEW f \in [Arrays -> Int] PROVE FindStep(a, x, f) \in Int
  <2>1. CASE Len(a) < 1
    <3>1. ~ (Len(a) >= 1)
      BY <1>0, <2>1
    <3> QED
      BY <2>1, <3>1 DEF FindStep
  <2>2. CASE Len(a) >= 1
    <3> DEFINE mid == Len(a) \div 2
    <3>1. /\ mid \in 0..(Len(a) - 1) /\ a[mid + 1] \in Int
          /\ SubSeq(a, 1, mid) \in Arrays /\ From(a, mid + 2) \in Arrays
          /\ x = a[mid + 1] => FindStep(a, x, f) = mid
          /\ x > a[mid + 1] => FindStep(a, x, f) = mid + 1 + f[From(a, mid + 2)]
          /\ x < a[mid + 1] => FindStep(a, x, f) = f[SubSeq(a, 1, mid)]
      BY <2>2, FindParts
    <3> HIDE DEF mid
    <3>2. f[SubSeq(a, 1, mid)] \in Int /\ f[From(a, mid + 2)] \in Int /\ mid \in Int
      BY <1>0, <3>1
    <3> QED
      BY <3>1, <3>2
  <2> QED
    BY <1>0, <2>1, <2>2
<1>4. step \in [Arrays -> [[Arrays -> Int] -> Int]]
  BY <1>3
<1>5. Depends(Arrays, m, step, [Arrays -> Int])
  <2> SUFFICES ASSUME NEW a \in Arrays, NEW f \in [Arrays -> Int], NEW g \in [Arrays -> Int],
                      \A y \in Arrays : m[y] < m[a] => f[y] = g[y]
               PROVE  step[a][f] = step[a][g]
    BY DEF Depends
  <2>1. FindStep(a, x, f) = FindStep(a, x, g)
    <3>1. CASE Len(a) < 1
      <4>1. ~ (Len(a) >= 1)
        BY <1>0, <3>1
      <4> QED
        BY <3>1, <4>1 DEF FindStep
    <3>2. CASE Len(a) >= 1
      <4> DEFINE mid == Len(a) \div 2
                 l == SubSeq(a, 1, mid)
                 u == From(a, mid + 2)
      <4>0. /\ mid \in 0..(Len(a) - 1) /\ a[mid + 1] \in Int /\ l \in Arrays /\ u \in Arrays
            /\ Len(l) = mid /\ Len(u) = Len(a) - (mid + 1)
        BY <3>2, FindParts
      <4>1. /\ x = a[mid + 1] => FindStep(a, x, f) = mid
            /\ x > a[mid + 1] => FindStep(a, x, f) = mid + 1 + f[u]
            /\ x < a[mid + 1] => FindStep(a, x, f) = f[l]
        BY <3>2, FindParts
      <4>2. /\ x = a[mid + 1] => FindStep(a, x, g) = mid
            /\ x > a[mid + 1] => FindStep(a, x, g) = mid + 1 + g[u]
            /\ x < a[mid + 1] => FindStep(a, x, g) = g[l]
        BY <3>2, FindParts
      <4> HIDE DEF mid, l, u
      <4>3. Len(l) < Len(a) /\ Len(u) < Len(a)
        BY <1>0, <4>0
      <4>4. f[l] = g[l] /\ f[u] = g[u]
        BY <4>0, <4>3
      <4>5. x = a[mid + 1] \/ x > a[mid + 1] \/ x < a[mid + 1]
        BY <4>0
      <4> QED
        BY <4>1, <4>2, <4>4, <4>5
    <3> QED
      BY <1>0, <3>1, <3>2
  <2> QED
    BY <2>1
<1>6. Recursive(Arrays, Int, m, step)
  <2>1. Int # {}
    OBVIOUS
  <2> HIDE DEF m, step
  <2> QED
    BY <1>2, <1>4, <1>5, <2>1, Zenon DEF Recursive
<1>7. PICK f : Solves(Arrays, Int, step, f)
  <2> HIDE DEF m, step
  <2> QED BY <1>6, Recursion, Zenon
<1>8. f \in [Arrays -> Int] /\ \A a \in Arrays : f[a] = FindStep(a, x, f)
  BY <1>7 DEF Solves
<1>9. Eq(f)
  BY <1>8
<1>10. Eq(find)
  <2> HIDE DEF Eq
  <2> QED BY <1>9
<1> HIDE DEF find
<1>11. \A a \in Arrays : find[a] = FindStep(a, x, find)
  BY <1>10
<1> QED
  BY <1>1, <1>11

\* How many numbers of an array are smaller than x.
Smaller(a, x) == Cardinality({i \in DOMAIN a : a[i] < x})

\* In an array in order bin_find finds a number that is there.  For one that is not there
\* it does not return -1, as the recursion means to, but one less than the number of
\* smaller ones: the index of another number unless all are greater.
THEOREM BinFinds ==
  ASSUME NEW a \in Arrays, NEW x \in Int, Ordered(a)
  PROVE  IF Count(a, x) > 0 THEN a[bin_find(a, x) + 1] = x ELSE bin_find(a, x) = Smaller(a, x) - 1
<1>0. \A b \in Arrays : Len(b) \in Nat /\ \A i \in 1..Len(b) : b[i] \in Int
  BY ArrayFun
<1>1. PICK f : \A b \in Arrays : f[b] = FindStep(b, x, f) /\ bin_find(b, x) = f[b]
  BY FindIs
<1> DEFINE Hit(b) == f[b] \in 0..(Len(b) - 1) /\ b[f[b] + 1] = x
           Missed(b) == \E s \in 0..Len(b) : /\ f[b] = s - 1
                                             /\ \A i \in 1..s : b[i] < x
                                             /\ \A i \in (s + 1)..Len(b) : b[i] > x
           Ok(b) == Ordered(b) => Hit(b) \/ Missed(b)
           T == {n \in Nat : \A b \in Arrays : Len(b) <= n => Ok(b)}
<1>2. ASSUME NEW b \in Arrays, Len(b) < 1 PROVE Ok(b)
  <2>1. Len(b) = 0 /\ ~ (Len(b) >= 1)
    BY <1>0, <1>2
  <2>2. f[b] = -1
    BY <1>1, <2>1 DEF FindStep
  <2>3. Missed(b)
    BY <2>1, <2>2
  <2> QED
    BY <2>3
<1>3. 0 \in T
  <2>1. \A b \in Arrays : Len(b) <= 0 => Len(b) < 1
    BY <1>0
  <2> HIDE DEF Ok
  <2> QED
    BY <1>2, <2>1
<1>4. ASSUME NEW n \in Nat, n \in T PROVE n + 1 \in T
  <2>1. ASSUME NEW b \in Arrays, Len(b) >= 1, Len(b) <= n + 1, Ordered(b) PROVE Hit(b) \/ Missed(b)
    <3> DEFINE mid == Len(b) \div 2
               l == SubSeq(b, 1, mid)
               u == From(b, mid + 2)
    <3>1. /\ mid \in 0..(Len(b) - 1) /\ b[mid + 1] \in Int /\ l \in Arrays /\ u \in Arrays
          /\ Len(l) = mid /\ Len(u) = Len(b) - (mid + 1)
          /\ \A i \in 1..mid : l[i] = b[i]
          /\ \A i \in 1..(Len(b) - (mid + 1)) : u[i] = b[mid + 1 + i]
          /\ x = b[mid + 1] => FindStep(b, x, f) = mid
          /\ x > b[mid + 1] => FindStep(b, x, f) = mid + 1 + f[u]
          /\ x < b[mid + 1] => FindStep(b, x, f) = f[l]
      BY <2>1, FindParts
    <3> HIDE DEF mid, l, u
    <3>2. Len(b) \in Nat /\ mid \in Nat /\ \A i \in 1..Len(b) : b[i] \in Int
      BY <1>0, <3>1
    <3>3. f[b] = FindStep(b, x, f)
      BY <1>1
    <3>4. \A i, j \in 1..Len(b) : i < j => b[i] <= b[j]
      BY <2>1 DEF Ordered
    <3>5. CASE x = b[mid + 1]
      BY <3>1, <3>2, <3>3, <3>5
    <3>6. CASE x > b[mid + 1]
      <4>1. f[b] = mid + 1 + f[u]
        BY <3>1, <3>3, <3>6
      <4>2. Len(u) <= n
        BY <2>1, <3>1, <3>2
      <4>3. Ordered(u)
        <5> SUFFICES ASSUME NEW i \in 1..Len(u), NEW j \in 1..Len(u), i < j PROVE u[i] <= u[j]
          BY DEF Ordered
        <5>1. u[i] = b[mid + 1 + i] /\ u[j] = b[mid + 1 + j]
          BY <3>1
        <5>2. mid + 1 + i \in 1..Len(b) /\ mid + 1 + j \in 1..Len(b) /\ mid + 1 + i < mid + 1 + j
          BY <3>1, <3>2
        <5> QED
          BY <3>4, <5>1, <5>2
      <4>4. Hit(u) \/ Missed(u)
        <5> HIDE DEF Hit, Missed
        <5> QED BY <1>4, <3>1, <4>2, <4>3
      <4>5. \A i \in 1..(mid + 1) : b[i] < x
        <5> SUFFICES ASSUME NEW i \in 1..(mid + 1) PROVE b[i] < x
          OBVIOUS
        <5>1. i \in 1..Len(b) /\ mid + 1 \in 1..Len(b) /\ b[i] \in Int
          BY <3>1, <3>2
        <5>2. i = mid + 1 \/ b[i] <= b[mid + 1]
          BY <3>2, <3>4, <5>1
        <5> QED
          BY <3>1, <3>6, <5>1, <5>2
      <4>6. CASE Hit(u)
        <5>1. f[u] \in 0..(Len(u) - 1) /\ u[f[u] + 1] = x /\ f[u] + 1 \in 1..(Len(b) - (mid + 1))
          BY <3>1, <3>2, <4>6
        <5>3. b[mid + 1 + (f[u] + 1)] = x
          BY <3>1, <5>1
        <5>4. f[u] \in Int /\ f[u] >= 0 /\ f[u] + 1 <= Len(b) - (mid + 1)
          BY <5>1
        <5>5. \A y, z, k \in Int : z = mid + 1 + y /\ y >= 0 /\ y + 1 <= k - (mid + 1)
                                    => z + 1 = mid + 1 + (y + 1) /\ z \in 0..(k - 1)
          BY <3>2
        <5>6. f[b] \in Int /\ Len(b) \in Int
          BY <3>2, <4>1, <5>4
        <5>7. f[b] + 1 = mid + 1 + (f[u] + 1) /\ f[b] \in 0..(Len(b) - 1)
          BY <4>1, <5>4, <5>5, <5>6
        <5>2. b[f[b] + 1] = x /\ f[b] \in 0..(Len(b) - 1)
          BY <5>3, <5>7
        <5> QED
          BY <5>2
      <4>7. CASE Missed(u)
        <5>1. PICK s \in 0..Len(u) : /\ f[u] = s - 1
                                     /\ \A i \in 1..s : u[i] < x
                                     /\ \A i \in (s + 1)..Len(u) : u[i] > x
          BY <4>7
        <5>2. mid + 1 + s \in 0..Len(b) /\ f[b] = (mid + 1 + s) - 1
          BY <3>1, <3>2, <4>1, <5>1
        <5>3. ASSUME NEW i \in 1..(mid + 1 + s) PROVE b[i] < x
          <6>1. CASE i <= mid + 1
            BY <3>2, <4>5, <6>1
          <6>2. CASE i > mid + 1
            <7>1. i - (mid + 1) \in 1..s /\ i - (mid + 1) \in 1..(Len(b) - (mid + 1)) /\ mid + 1 + (i - (mid + 1)) = i
              BY <3>1, <3>2, <6>2
            <7> QED
              BY <3>1, <5>1, <7>1
          <6> QED
            BY <3>2, <6>1, <6>2
        <5>4. ASSUME NEW i \in ((mid + 1 + s) + 1)..Len(b) PROVE b[i] > x
          <6>1. i - (mid + 1) \in (s + 1)..Len(u) /\ i - (mid + 1) \in 1..(Len(b) - (mid + 1)) /\ mid + 1 + (i - (mid + 1)) = i
            BY <3>1, <3>2
          <6> QED
            BY <3>1, <5>1, <6>1
        <5>5. Missed(b)
          BY <5>2, <5>3, <5>4
        <5> QED
          BY <5>5
      <4> QED
        BY <4>4, <4>6, <4>7
    <3>7. CASE x < b[mid + 1]
      <4>1. f[b] = f[l]
        BY <3>1, <3>3, <3>7
      <4>2. Len(l) <= n
        BY <2>1, <3>1, <3>2
      <4>3. Ordered(l)
        BY <3>1, <3>2, <3>4 DEF Ordered
      <4>4. Hit(l) \/ Missed(l)
        <5> HIDE DEF Hit, Missed
        <5> QED BY <1>4, <3>1, <4>2, <4>3
      <4>5. \A i \in (mid + 1)..Len(b) : b[i] > x
        <5> SUFFICES ASSUME NEW i \in (mid + 1)..Len(b) PROVE b[i] > x
          OBVIOUS
        <5>1. i \in 1..Len(b) /\ mid + 1 \in 1..Len(b) /\ b[i] \in Int
          BY <3>1, <3>2
        <5>2. i = mid + 1 \/ b[mid + 1] <= b[i]
          BY <3>2, <3>4, <5>1
        <5> QED
          BY <3>1, <3>7, <5>1, <5>2
      <4>6. CASE Hit(l)
        <5>1. f[b] \in 0..(Len(b) - 1) /\ b[f[b] + 1] = x
          BY <3>1, <3>2, <4>1, <4>6
        <5> QED
          BY <5>1
      <4>7. CASE Missed(l)
        <5>1. PICK s \in 0..mid : /\ f[l] = s - 1
                                  /\ \A i \in 1..s : l[i] < x
                                  /\ \A i \in (s + 1)..mid : l[i] > x
          BY <3>1, <4>7
        <5>2. s \in 0..Len(b) /\ f[b] = s - 1
          BY <3>1, <3>2, <4>1, <5>1
        <5>3. \A i \in 1..s : b[i] < x
          BY <3>1, <3>2, <5>1
        <5>4. \A i \in (s + 1)..Len(b) : b[i] > x
          BY <3>1, <3>2, <4>5, <5>1
        <5>5. Missed(b)
          BY <5>2, <5>3, <5>4
        <5> QED
          BY <5>5
      <4> QED
        BY <4>4, <4>6, <4>7
    <3> QED
      BY <3>1, <3>5, <3>6, <3>7
  <2>2. \A b \in Arrays : Len(b) <= n + 1 => Len(b) < 1 \/ Len(b) >= 1
    BY <1>0
  <2> HIDE DEF Hit, Missed
  <2> QED
    BY <1>2, <2>1, <2>2
<1>5. \A n \in Nat : n \in T
  <2> HIDE DEF T
  <2> QED BY <1>3, <1>4, NatSet
<1>6. Hit(a) \/ Missed(a)
  <2> HIDE DEF Hit, Missed
  <2>1. Len(a) \in Nat /\ Len(a) <= Len(a)
    BY <1>0
  <2> QED
    BY <1>5, <2>1
<1>7. CASE Hit(a)
  <2>1. f[a] + 1 \in 1..Len(a) /\ a[f[a] + 1] = x
    BY <1>0, <1>7
  <2>2. Count(a, x) > 0
    BY <2>1, CountIn
  <2> QED
    BY <1>1, <2>1, <2>2
<1>8. CASE Missed(a)
  <2>1. PICK s \in 0..Len(a) : /\ f[a] = s - 1
                               /\ \A i \in 1..s : a[i] < x
                               /\ \A i \in (s + 1)..Len(a) : a[i] > x
    BY <1>8
  <2>2. \A i \in 1..Len(a) : i \in 1..s \/ i \in (s + 1)..Len(a)
    BY <1>0
  <2>3. \A i \in 1..Len(a) : a[i] # x
    BY <1>0, <2>1, <2>2
  <2>4. ~ (Count(a, x) > 0)
    BY <2>3, CountIn
  <2>5. {i \in DOMAIN a : a[i] < x} = 1..s
    <3>1. DOMAIN a = 1..Len(a)
      BY ArrayFun
    <3>2. \A i \in 1..Len(a) : a[i] < x <=> i \in 1..s
      BY <1>0, <2>1, <2>2
    <3> QED
      BY <1>0, <3>1, <3>2
  <2>6. Smaller(a, x) = s
    <3>1. s \in Int /\ Cardinality(1..s) = IF 1 > s THEN 0 ELSE s - 1 + 1
      BY FS_Interval
    <3>2. Cardinality(1..s) = s
      BY <3>1
    <3> QED
      BY <2>5, <3>2 DEF Smaller
  <2> QED
    BY <1>1, <2>1, <2>4, <2>6
<1> QED
  BY <1>6, <1>7, <1>8

-----------------------------------------------------------------------------
(* Loops: I[i] are the states in which the loop may be after i rounds.     *)

Keeps(n, I, v, step) == n \in Nat /\ v \in I[0] /\ \A i \in 1..n : \A x \in I[i - 1] : step[i][x] \in I[i]
Goes(n, I, v, step, f) == f[0] = v /\ \A i \in 1..n : f[i - 1] \in I[i - 1] => f[i] = step[i][f[i - 1]]

LEMMA LoopInv ==
  ASSUME NEW n, NEW I, NEW v, NEW step, NEW f, Keeps(n, I, v, step), Goes(n, I, v, step, f)
  PROVE  \A i \in 0..n : f[i] \in I[i]
<1> USE DEF Keeps, Goes
<1> DEFINE T == {i \in Nat : i <= n => f[i] \in I[i]}
<1>1. 0 \in T
  OBVIOUS
<1>2. ASSUME NEW i \in Nat, i \in T PROVE i + 1 \in T
  <2> SUFFICES ASSUME i + 1 <= n PROVE f[i + 1] \in I[i + 1]
    OBVIOUS
  <2>1. i + 1 \in 1..n /\ (i + 1) - 1 = i /\ f[i] \in I[i]
    BY <1>2
  <2> QED
    BY <2>1
<1>3. \A i \in Nat : i \in T
  <2> HIDE DEF T
  <2> QED BY <1>1, <1>2, NatSet
<1> QED
  BY <1>3

LEMMA LoopRuns ==
  ASSUME NEW n, NEW I, NEW v, NEW step, Keeps(n, I, v, step)
  PROVE  \E f : f = [i \in 0..n |-> f[i]] /\ Goes(n, I, v, step, f)
<1> DEFINE V == UNION {I[i] : i \in 0..n}
           Next1(i, x) == IF x \in I[i - 1] THEN step[i][x] ELSE v
           st == [i \in 1..n |-> [x \in V |-> Next1(i, x)]]
<1>1. n \in Nat /\ v \in V
  BY DEF Keeps
<1>2. \A i \in 1..n : \A x \in V : Next1(i, x) \in V
  BY <1>1 DEF Keeps
<1>3. st \in [1..n -> [V -> V]]
  <2> HIDE DEF V, Next1
  <2> QED BY <1>2
<1>4. Loop(n, V, v, st)
  <2> HIDE DEF V, st
  <2> QED BY <1>1, <1>3 DEF Loop
<1>5. PICK f : Runs(n, V, v, st, f)
  <2> HIDE DEF V, st
  <2> QED BY <1>4, Rounds
<1> HIDE DEF V
<1>6. f \in [0..n -> V] /\ f[0] = v /\ \A i \in 1..n : f[i] = Next1(i, f[i - 1])
  <2> HIDE DEF Next1
  <2> QED BY <1>5 DEF Runs
<1>7. f = [i \in 0..n |-> f[i]]
  BY <1>6
<1> QED
  BY <1>6, <1>7 DEF Goes

-----------------------------------------------------------------------------
(* quick_sort_v1.                                                          *)

\* The array with the pivot in the hole; its parts up to low and from high on are on
\* their side of the pivot, and n - i elements are left after i rounds.
QuickFill(ar, s) == [k \in 1..Len(ar) |-> IF k = QuickHole(s) THEN ar[1] ELSE s.ar[k]]
QuickOk(ar, i, s) ==
  /\ s.high = s.low + Len(ar) - i /\ s.high <= Len(ar) + 1
  /\ s.low \in 1..Len(ar) /\ QuickHole(s) \in 1..Len(ar)
  /\ i = 0 => s.ar = ar /\ s.on_high
  /\ Same(QuickFill(ar, s), ar)
  /\ \A k \in 1..s.low : QuickFill(ar, s)[k] <= ar[1]
  /\ \A k \in s.high..Len(ar) : QuickFill(ar, s)[k] >= ar[1]
  /\ i >= 1 /\ ar[Len(ar)] >= ar[1] => s.high <= Len(ar) /\ QuickHole(s) < Len(ar)
QuickStates(ar) == [ar : [1..Len(ar) -> Int], low : Int, high : Int, on_high : BOOLEAN]

LEMMA QuickRoundIs ==
  ASSUME NEW ar \in Arrays, NEW i \in 1..(Len(ar) - 1), NEW s \in QuickStates(ar), QuickOk(ar, i - 1, s)
  PROVE  QuickRound(s, ar[1]) \in QuickStates(ar) /\ QuickOk(ar, i, QuickRound(s, ar[1]))
<1> DEFINE n == Len(ar)
           pivot == ar[1]
           F == QuickFill(ar, s)
           r == QuickRound(s, pivot)
           G == QuickFill(ar, r)
           h == s.high - 1
           l == s.low + 1
<1>1. n \in Nat /\ ar \in [1..n -> Int] /\ i \in Int /\ i >= 1 /\ i <= n - 1 /\ pivot \in Int /\ 1 \in 1..n
  BY ArrayFun
<1>2. s.ar \in [1..n -> Int] /\ s.low \in Int /\ s.high \in Int /\ s.on_high \in BOOLEAN
  BY DEF QuickStates
<1>3. /\ s.high = s.low + n - (i - 1) /\ s.high <= n + 1 /\ s.low \in 1..n /\ QuickHole(s) \in 1..n
      /\ i - 1 = 0 => s.ar = ar /\ s.on_high
      /\ Same(F, ar)
      /\ \A k \in 1..s.low : F[k] <= pivot
      /\ \A k \in s.high..n : F[k] >= pivot
      /\ i - 1 >= 1 /\ ar[n] >= pivot => s.high <= n /\ QuickHole(s) < n
  BY DEF QuickOk
<1>4. F \in [1..n -> Int] /\ \A k \in 1..n : F[k] = IF k = QuickHole(s) THEN pivot ELSE s.ar[k]
  BY <1>1, <1>2 DEF QuickFill
<1>5. \A k \in 1..n : G[k] = IF k = QuickHole(r) THEN pivot ELSE r.ar[k]
  BY DEF QuickFill
<1>6. G = [k \in 1..n |-> G[k]]
  BY DEF QuickFill
<1>7. F \in Arrays /\ Len(F) = n
  BY <1>1, <1>4, ArrayIs
<1>12. /\ h \in 1..n /\ s.low < h /\ h = s.low + n - i /\ s.low \in 1..n
       /\ l \in 1..n /\ l < s.high /\ s.high = l + n - i
  <2>1. s.high = s.low + n - (i - 1) /\ s.high <= n + 1 /\ s.low \in 1..n
    BY <1>3
  <2>2. \A lo, hi \in Int : hi = lo + n - (i - 1) /\ hi <= n + 1 /\ lo \in 1..n =>
          /\ hi - 1 \in 1..n /\ lo < hi - 1 /\ hi - 1 = lo + n - i
          /\ lo + 1 \in 1..n /\ lo + 1 < hi /\ hi = (lo + 1) + n - i
    <3> HIDE DEF n
    <3> QED BY <1>1
  <2> QED
    BY ONLY <1>2, <2>1, <2>2
<1>8. CASE s.on_high /\ s.ar[h] < pivot
  <2>1. r = [ar |-> [s.ar EXCEPT ![s.low] = s.ar[h]], low |-> s.low, high |-> h, on_high |-> FALSE]
    BY <1>8 DEF QuickRound
  <2>2. QuickHole(s) = s.low /\ QuickHole(r) = h /\ r.low = s.low /\ r.high = h /\ r.ar = [s.ar EXCEPT ![s.low] = s.ar[h]]
    BY <1>8, <2>1 DEF QuickHole
  <2>3. h \in 1..n /\ s.low < h /\ h = s.low + n - i /\ s.low \in 1..n
    BY <1>3, <1>12, <2>2
  <2>4. r \in QuickStates(ar)
    BY <1>1, <1>2, <2>1, <2>3 DEF QuickStates
  <2> HIDE DEF r, F, h, G
  <2>5. G = Swap(F, s.low, h)
    <3> DEFINE W == Swap(F, s.low, h)
    <3>1. W = [k \in 1..n |-> W[k]] /\ \A k \in 1..n : W[k] = IF k = s.low THEN F[h] ELSE IF k = h THEN F[s.low] ELSE F[k]
      BY <1>4, <2>3 DEF Swap
    <3>2. ASSUME NEW k \in 1..n PROVE G[k] = W[k]
      <4> HIDE DEF W
      <4>1. CASE k = s.low
        <5>1. W[s.low] = s.ar[h]
          BY <1>4, <2>2, <2>3, <3>1
        <5>2. G[s.low] = r.ar[s.low]
          BY <1>5, <2>2, <2>3
        <5>3. r.ar[s.low] = s.ar[h]
          BY <1>2, <2>2, <2>3
        <5> QED
          BY <4>1, <5>1, <5>2, <5>3
      <4>2. CASE k = h
        BY <1>2, <1>4, <1>5, <2>2, <2>3, <3>1, <4>2
      <4>3. CASE k # s.low /\ k # h
        <5>1. W[k] = F[k] /\ F[k] = s.ar[k]
          BY <1>4, <2>2, <3>1, <4>3
        <5>2. G[k] = r.ar[k]
          BY <1>5, <2>2, <4>3
        <5>3. r.ar[k] = s.ar[k]
          BY <1>2, <2>2, <4>3
        <5> QED
          BY <5>1, <5>2, <5>3
      <4> QED
        BY <4>1, <4>2, <4>3
    <3> HIDE DEF W
    <3>3. G = W
      BY <1>6, <3>1, <3>2
    <3> QED
      BY <3>3 DEF W
  <2>6. Same(G, F)
    BY <1>7, <2>3, <2>5, SwapIs
  <2>7. \A k \in 1..n : G[k] = IF k = h THEN pivot ELSE IF k = s.low THEN s.ar[h] ELSE F[k]
    BY <1>2, <1>4, <1>5, <2>2, <2>3
  <2>8. \A k \in 1..s.low : G[k] <= pivot
    <3> SUFFICES ASSUME NEW k \in 1..s.low PROVE G[k] <= pivot
      OBVIOUS
    <3>1. k \in 1..n /\ k # h /\ F[k] <= pivot
      BY <1>1, <1>3, <2>3
    <3>2. s.ar[h] <= pivot
      BY <1>1, <1>2, <1>8, <2>3
    <3> QED
      BY <2>7, <3>1, <3>2
  <2>9. \A k \in h..n : G[k] >= pivot
    <3> SUFFICES ASSUME NEW k \in h..n PROVE G[k] >= pivot
      OBVIOUS
    <3>1. k = h \/ k \in s.high..n
      BY <1>1, <1>2, <2>3 DEF h
    <3>2. k \in 1..n /\ k # s.low
      BY <1>1, <2>3
    <3> QED
      BY <1>1, <1>3, <2>7, <3>1, <3>2
  <2>10. ar[n] >= pivot => h <= n /\ h < n
    <3> SUFFICES ASSUME ar[n] >= pivot PROVE h < n
      BY <1>1, <2>3
    <3>1. CASE i = 1
      <4>1. h = n /\ s.ar[h] = ar[n]
        BY <1>1, <1>2, <1>3, <2>3, <3>1 DEF h
      <4> QED
        BY <1>1, <1>8, <4>1
    <3>2. CASE i # 1
      BY <1>1, <1>2, <1>3, <3>2 DEF h
    <3> QED
      BY <3>1, <3>2
  <2> QED
    BY <1>1, <1>3, <2>2, <2>3, <2>4, <2>6, <2>8, <2>9, <2>10, SameTrans DEF QuickOk, G, r
<1>9. CASE s.on_high /\ ~ (s.ar[h] < pivot)
  <2>1. r = [ar |-> s.ar, low |-> s.low, high |-> h, on_high |-> TRUE]
    BY <1>9 DEF QuickRound
  <2>2. QuickHole(s) = s.low /\ QuickHole(r) = s.low /\ r.low = s.low /\ r.high = h /\ r.ar = s.ar
    BY <1>9, <2>1 DEF QuickHole
  <2>3. h \in 1..n /\ s.low < h /\ h = s.low + n - i /\ s.low \in 1..n
    BY <1>3, <1>12, <2>2
  <2>4. r \in QuickStates(ar)
    BY <1>1, <1>2, <2>1, <2>3 DEF QuickStates
  <2>5. G = F
    BY <2>2 DEF QuickFill
  <2> HIDE DEF r, F, h, G
  <2>6. \A k \in h..n : F[k] >= pivot
    <3> SUFFICES ASSUME NEW k \in h..n PROVE F[k] >= pivot
      OBVIOUS
    <3>1. k = h \/ k \in s.high..n
      BY <1>1, <1>2, <2>3 DEF h
    <3>2. F[h] = s.ar[h] /\ s.ar[h] \in Int
      BY <1>2, <1>4, <2>2, <2>3
    <3> QED
      BY <1>1, <1>3, <1>9, <3>1, <3>2
  <2>7. h <= n /\ s.low < n
    BY <1>1, <2>3
  <2> QED
    BY <1>1, <1>3, <2>2, <2>3, <2>4, <2>5, <2>6, <2>7 DEF QuickOk, G, r, F
<1>10. CASE ~ s.on_high /\ s.ar[l] > pivot
  <2>1. r = [ar |-> [s.ar EXCEPT ![s.high] = s.ar[l]], low |-> l, high |-> s.high, on_high |-> TRUE]
    BY <1>10 DEF QuickRound
  <2>2. /\ QuickHole(s) = s.high /\ QuickHole(r) = l /\ r.low = l /\ r.high = s.high
        /\ r.ar = [s.ar EXCEPT ![s.high] = s.ar[l]]
    BY <1>10, <2>1 DEF QuickHole
  <2>3. l \in 1..n /\ l < s.high /\ s.high = l + n - i /\ s.high \in 1..n
    BY <1>3, <1>12, <2>2
  <2>4. r \in QuickStates(ar)
    BY <1>1, <1>2, <2>1, <2>3 DEF QuickStates
  <2> HIDE DEF r, F, l, G
  <2>5. G = Swap(F, s.high, l)
    <3> DEFINE W == Swap(F, s.high, l)
    <3>1. W = [k \in 1..n |-> W[k]] /\ \A k \in 1..n : W[k] = IF k = s.high THEN F[l] ELSE IF k = l THEN F[s.high] ELSE F[k]
      BY <1>4, <2>3 DEF Swap
    <3>2. ASSUME NEW k \in 1..n PROVE G[k] = W[k]
      <4> HIDE DEF W
      <4>1. CASE k = s.high
        <5>1. W[s.high] = s.ar[l]
          BY <1>4, <2>2, <2>3, <3>1
        <5>2. G[s.high] = r.ar[s.high]
          BY <1>5, <2>2, <2>3
        <5>3. r.ar[s.high] = s.ar[l]
          BY <1>2, <2>2, <2>3
        <5> QED
          BY <4>1, <5>1, <5>2, <5>3
      <4>2. CASE k = l
        BY <1>2, <1>4, <1>5, <2>2, <2>3, <3>1, <4>2
      <4>3. CASE k # s.high /\ k # l
        <5>1. W[k] = F[k] /\ F[k] = s.ar[k]
          BY <1>4, <2>2, <3>1, <4>3
        <5>2. G[k] = r.ar[k]
          BY <1>5, <2>2, <4>3
        <5>3. r.ar[k] = s.ar[k]
          BY <1>2, <2>2, <4>3
        <5> QED
          BY <5>1, <5>2, <5>3
      <4> QED
        BY <4>1, <4>2, <4>3
    <3> HIDE DEF W
    <3>3. G = W
      BY <1>6, <3>1, <3>2
    <3> QED
      BY <3>3 DEF W
  <2>6. Same(G, F)
    BY <1>7, <2>3, <2>5, SwapIs
  <2>7. \A k \in 1..n : G[k] = IF k = l THEN pivot ELSE IF k = s.high THEN s.ar[l] ELSE F[k]
    BY <1>2, <1>4, <1>5, <2>2, <2>3
  <2>8. \A k \in s.high..n : G[k] >= pivot
    <3> SUFFICES ASSUME NEW k \in s.high..n PROVE G[k] >= pivot
      OBVIOUS
    <3>1. k \in 1..n /\ k # l /\ F[k] >= pivot
      BY <1>1, <1>2, <1>3, <2>3
    <3>2. s.ar[l] >= pivot
      BY <1>1, <1>2, <1>10, <2>3
    <3> QED
      BY <2>7, <3>1, <3>2
  <2>9. \A k \in 1..l : G[k] <= pivot
    <3> SUFFICES ASSUME NEW k \in 1..l PROVE G[k] <= pivot
      OBVIOUS
    <3>1. k = l \/ k \in 1..s.low
      BY <1>1, <1>2, <2>3 DEF l
    <3>2. k \in 1..n /\ k # s.high
      BY <1>1, <2>3
    <3> QED
      BY <1>1, <1>3, <2>7, <3>1, <3>2
  <2>10. s.high <= n /\ l < n
    BY <1>1, <2>3
  <2> QED
    BY <1>1, <1>3, <2>2, <2>3, <2>4, <2>6, <2>8, <2>9, <2>10, SameTrans DEF QuickOk, G, r
<1>11. CASE ~ s.on_high /\ ~ (s.ar[l] > pivot)
  <2>1. r = [ar |-> s.ar, low |-> l, high |-> s.high, on_high |-> FALSE]
    BY <1>11 DEF QuickRound
  <2>2. QuickHole(s) = s.high /\ QuickHole(r) = s.high /\ r.low = l /\ r.high = s.high /\ r.ar = s.ar
    BY <1>11, <2>1 DEF QuickHole
  <2>3. l \in 1..n /\ l < s.high /\ s.high = l + n - i /\ s.high \in 1..n
    BY <1>3, <1>12, <2>2
  <2>4. r \in QuickStates(ar)
    BY <1>1, <1>2, <2>1, <2>3 DEF QuickStates
  <2>5. G = F
    BY <2>2 DEF QuickFill
  <2> HIDE DEF r, F, l, G
  <2>6. \A k \in 1..l : F[k] <= pivot
    <3> SUFFICES ASSUME NEW k \in 1..l PROVE F[k] <= pivot
      OBVIOUS
    <3>1. k = l \/ k \in 1..s.low
      BY <1>1, <1>2, <2>3 DEF l
    <3>2. F[l] = s.ar[l] /\ s.ar[l] \in Int
      <4>1. l \in 1..n /\ l # QuickHole(s)
        BY <1>1, <2>2, <2>3
      <4>2. F[l] = s.ar[l]
        BY <1>4, <4>1
      <4>3. s.ar[l] \in Int
        BY <1>2, <4>1
      <4> QED
        BY <4>2, <4>3
    <3> QED
      BY <1>1, <1>3, <1>11, <3>1, <3>2
  <2>7. i - 1 >= 1
    BY <1>1, <1>3, <1>11
  <2> QED
    BY <1>1, <1>3, <2>2, <2>3, <2>4, <2>5, <2>6, <2>7 DEF QuickOk, G, r, F
<1> QED
  BY <1>2, <1>8, <1>9, <1>10, <1>11

LEMMA QuickSplitIs ==
  ASSUME NEW ar \in Arrays, Len(ar) >= 1
  PROVE  /\ QuickSplit(ar).ar \in Arrays /\ Len(QuickSplit(ar).ar) = Len(ar)
         /\ Same(QuickSplit(ar).ar, ar)
         /\ QuickSplit(ar).mid \in 1..Len(ar)
         /\ QuickSplit(ar).ar[QuickSplit(ar).mid] = ar[1]
         /\ \A k \in 1..QuickSplit(ar).mid : QuickSplit(ar).ar[k] <= ar[1]
         /\ \A k \in QuickSplit(ar).mid..Len(ar) : QuickSplit(ar).ar[k] >= ar[1]
         /\ Len(ar) >= 2 /\ ar[Len(ar)] >= ar[1] => QuickSplit(ar).mid < Len(ar)
<1> DEFINE n == Len(ar)
           N == n - 1
           v == [ar |-> ar, low |-> 1, high |-> n + 1, on_high |-> TRUE]
           Eq(f) == f = [i \in 0..N |-> IF i = 0 THEN v ELSE QuickRound(f[i - 1], ar[1])]
           rounds == CHOOSE f : Eq(f)
           I == [i \in 0..N |-> {s \in QuickStates(ar) : QuickOk(ar, i, s)}]
           step == [i \in 1..N |-> [s \in I[i - 1] |-> QuickRound(s, ar[1])]]
           s == rounds[N]
           mid == QuickHole(s)
           q == QuickSplit(ar)
<1>1. n \in Nat /\ ar \in [1..n -> Int] /\ N \in Nat /\ 1 \in 1..n /\ n \in 1..n
  BY ArrayFun
<1>2. QuickSplit(ar) = [ar |-> [s.ar EXCEPT ![mid] = ar[1]], mid |-> mid]
  BY DEF QuickSplit, QuickHole
<1>3. v \in I[0]
  <2>1. v \in QuickStates(ar)
    BY <1>1 DEF QuickStates
  <2>2. QuickHole(v) = 1
    BY DEF QuickHole
  <2>3. QuickFill(ar, v) = ar
    BY <1>1, <2>2 DEF QuickFill
  <2>4. QuickOk(ar, 0, v)
    <3>1. Same(ar, ar)
      BY SameSelf
    <3>2. \A k \in 1..1 : ar[k] <= ar[1]
      BY <1>1
    <3>3. \A k \in (n + 1)..n : ar[k] >= ar[1]
      BY <1>1
    <3>4. v.high = n + 1 /\ v.low = 1 /\ v.ar = ar /\ v.on_high = TRUE
      OBVIOUS
    <3>5. n + 1 = 1 + n - 0 /\ n + 1 <= n + 1
      BY <1>1
    <3> HIDE DEF v
    <3> QED
      BY <1>1, <2>2, <2>3, <3>1, <3>2, <3>3, <3>4, <3>5 DEF QuickOk
  <2> HIDE DEF v
  <2> QED
    BY <1>1, <2>1, <2>4
<1>4. \A i \in 1..N : \A x \in I[i - 1] : step[i][x] = QuickRound(x, ar[1])
  OBVIOUS
<1>5. Keeps(N, I, v, step)
  <2>1. ASSUME NEW i \in 1..N, NEW x \in I[i - 1] PROVE step[i][x] \in I[i]
    <3>1. i - 1 \in 0..N /\ i \in 0..N
      BY <1>1
    <3>2. x \in QuickStates(ar) /\ QuickOk(ar, i - 1, x)
      BY <3>1
    <3>3. QuickRound(x, ar[1]) \in QuickStates(ar) /\ QuickOk(ar, i, QuickRound(x, ar[1]))
      BY <3>2, QuickRoundIs
    <3> QED
      BY <1>4, <3>1, <3>3
  <2> HIDE DEF I, step, v
  <2> QED
    BY <1>1, <1>3, <2>1 DEF Keeps
<1>6. PICK f : f = [i \in 0..N |-> f[i]] /\ Goes(N, I, v, step, f)
  <2> HIDE DEF I, step, v, N
  <2> QED BY <1>5, LoopRuns
<1>7. Eq(f)
  <2> HIDE DEF I, step, v
  <2>1. \A i \in 0..N : f[i] \in I[i]
    <3> HIDE DEF N
    <3> QED BY <1>5, <1>6, LoopInv
  <2>2. f[0] = v /\ \A i \in 1..N : f[i] = QuickRound(f[i - 1], ar[1])
    <3>1. \A i \in 1..N : i - 1 \in 0..N
      BY <1>1
    <3> HIDE DEF N
    <3> QED
      BY <1>4, <1>6, <2>1, <3>1 DEF Goes
  <2>3. \A i \in 0..N : f[i] = IF i = 0 THEN v ELSE QuickRound(f[i - 1], ar[1])
    BY <1>1, <2>2
  <2> QED
    BY <1>6, <2>3
<1>8. Eq(rounds)
  <2> HIDE DEF Eq
  <2> QED BY <1>7
<1> HIDE DEF rounds
<1>9. s \in I[N]
  <2> HIDE DEF I, step, v
  <2>1. rounds[0] = v /\ \A i \in 1..N : rounds[i] = QuickRound(rounds[i - 1], ar[1])
    BY <1>1, <1>8
  <2>2. Goes(N, I, v, step, rounds)
    BY <1>4, <2>1 DEF Goes
  <2>3. \A i \in 0..N : rounds[i] \in I[i]
    <3> HIDE DEF N
    <3> QED BY <1>5, <2>2, LoopInv
  <2> QED
    BY <1>1, <2>3
<1>10. s \in QuickStates(ar) /\ QuickOk(ar, N, s)
  BY <1>1, <1>9
<1> HIDE DEF s, I, step, v
<1>11. q.mid = mid /\ q.ar = [s.ar EXCEPT ![mid] = ar[1]]
  BY <1>2
<1>12. s.ar \in [1..n -> Int] /\ s.low \in Int /\ s.high \in Int /\ s.on_high \in BOOLEAN
  BY <1>10 DEF QuickStates
<1>13. /\ s.high = s.low + n - N /\ s.low \in 1..n /\ mid \in 1..n
       /\ Same(QuickFill(ar, s), ar)
       /\ \A k \in 1..s.low : QuickFill(ar, s)[k] <= ar[1]
       /\ \A k \in s.high..n : QuickFill(ar, s)[k] >= ar[1]
       /\ N >= 1 /\ ar[n] >= ar[1] => mid < n
  BY <1>10 DEF QuickOk
<1>14. s.high = s.low + 1
  BY <1>1, <1>12, <1>13
<1>15. q.ar = QuickFill(ar, s)
  BY <1>11, <1>12 DEF QuickFill
<1>16. q.ar \in [1..n -> Int] /\ q.ar[mid] = ar[1]
  BY <1>1, <1>11, <1>12, <1>13
<1>17. mid = s.low \/ mid = s.high
  BY DEF QuickHole
<1> HIDE DEF q, mid
<1>18. \A k \in 1..mid : q.ar[k] <= ar[1]
  <2> SUFFICES ASSUME NEW k \in 1..mid PROVE q.ar[k] <= ar[1]
    OBVIOUS
  <2>1. k \in 1..s.low \/ k = mid
    BY <1>12, <1>13, <1>14, <1>17
  <2> QED
    BY <1>1, <1>13, <1>15, <1>16, <2>1
<1>19. \A k \in mid..n : q.ar[k] >= ar[1]
  <2> SUFFICES ASSUME NEW k \in mid..n PROVE q.ar[k] >= ar[1]
    OBVIOUS
  <2>1. k \in s.high..n \/ k = mid
    BY <1>1, <1>12, <1>13, <1>14, <1>17
  <2> QED
    BY <1>1, <1>13, <1>15, <1>16, <2>1
<1>20. q.ar \in Arrays /\ Len(q.ar) = n
  BY <1>1, <1>16, ArrayIs
<1>21. n >= 2 => N >= 1
  BY <1>1
<1> QED
  BY <1>11, <1>13, <1>15, <1>16, <1>18, <1>19, <1>20, <1>21 DEF q

\* Numbers that are more than d places apart are in order.
Spread(d, a) == \A i, j \in 1..Len(a) : i + d < j => a[i] <= a[j]

\* Two such arrays make one in a row if a number is between them.
LEMMA ConcatSpread ==
  ASSUME NEW a \in Arrays, NEW b \in Arrays, NEW x \in Int, NEW d \in Nat, Spread(d, a), Spread(d, b),
         \A i \in 1..Len(a) : a[i] <= x, \A i \in 1..Len(b) : b[i] >= x
  PROVE  Spread(d, a \o b)
<1> DEFINE c == a \o b
           m == Len(a)
           n == Len(b)
<1>1. m \in Nat /\ n \in Nat /\ (\A i \in 1..m : a[i] \in Int) /\ (\A i \in 1..n : b[i] \in Int)
  BY ArrayFun
<1>2. Len(c) = m + n /\ (\A i \in 1..m : c[i] = a[i]) /\ (\A i \in 1..n : c[m + i] = b[i])
  BY ConcatIs
<1>3. (\A i, j \in 1..m : i + d < j => a[i] <= a[j]) /\ (\A i, j \in 1..n : i + d < j => b[i] <= b[j])
  BY DEF Spread
<1>4. (\A i \in 1..m : a[i] <= x) /\ (\A i \in 1..n : b[i] >= x)
  OBVIOUS
<1> HIDE DEF m, n, c
<1>5. ASSUME NEW i \in 1..(m + n), NEW j \in 1..(m + n), i + d < j PROVE c[i] <= c[j]
  <2>1. CASE j <= m
    BY <1>1, <1>2, <1>3, <1>5, <2>1
  <2>2. CASE j > m
    <3> DEFINE j1 == j - m
    <3>1. j1 \in 1..n /\ j = m + j1
      BY <1>1, <2>2
    <3> HIDE DEF j1
    <3>2. c[j] = b[j1] /\ b[j1] >= x /\ b[j1] \in Int
      BY <1>1, <1>2, <1>4, <3>1
    <3>3. CASE i <= m
      <4>1. c[i] = a[i] /\ a[i] <= x /\ a[i] \in Int
        BY <1>1, <1>2, <1>4, <3>3
      <4> QED
        BY <3>2, <4>1
    <3>4. CASE i > m
      <4> DEFINE i1 == i - m
      <4>1. i1 \in 1..n /\ i = m + i1
        BY <1>1, <3>4
      <4> HIDE DEF i1
      <4>2. i1 + d < j1
        BY <1>1, <1>5, <3>1, <4>1
      <4> QED
        BY <1>2, <1>3, <3>1, <3>2, <4>1, <4>2
    <3> QED
      BY <1>1, <3>3, <3>4
  <2> QED
    BY <1>1, <2>1, <2>2
<1> QED
  BY <1>2, <1>5 DEF Spread, c

LEMMA ConcatOrdered ==
  ASSUME NEW a \in Arrays, NEW b \in Arrays, NEW x \in Int, Ordered(a), Ordered(b),
         \A i \in 1..Len(a) : a[i] <= x, \A i \in 1..Len(b) : b[i] >= x
  PROVE  Ordered(a \o b)
<1>1. \A c \in Arrays : Ordered(c) <=> Spread(0, c)
  <2>1. \A c \in Arrays : Len(c) \in Nat
    BY ArrayFun
  <2> QED
    BY <2>1 DEF Ordered, Spread
<1>2. Spread(0, a \o b)
  BY <1>1, ConcatSpread
<1> QED
  BY <1>1, <1>2, ConcatIs

\* A bound of the numbers of an array is one of the numbers of the same.
LEMMA SameBound ==
  ASSUME NEW a \in Arrays, NEW b \in Arrays, Same(a, b), NEW x \in Int
  PROVE  /\ (\A i \in 1..Len(b) : b[i] <= x) => \A i \in 1..Len(a) : a[i] <= x
         /\ (\A i \in 1..Len(b) : b[i] >= x) => \A i \in 1..Len(a) : a[i] >= x
  BY SameIn

\* A call of quick_sort_v1, with f for the calls in it.
NonEmpty == Arrays \ {<<>>}
QuickStep(ar, f) ==
  LET s     == QuickSplit(ar)
      lower == SubSeq(s.ar, 1, s.mid)
      upper == From(s.ar, s.mid + 1)
  IN  (IF s.mid > 1 THEN f[lower] ELSE lower) \o (IF Len(upper) > 1 THEN f[upper] ELSE upper)

\* The lower part may be as long as the array, but then the next one is shorter.
QuickMeasure(ar) == 2 * Len(ar) + (IF ar[Len(ar)] < ar[1] THEN 1 ELSE 0)

LEMMA NonEmptyIs == \A a \in Arrays : a \in NonEmpty <=> Len(a) >= 1
<1> SUFFICES ASSUME NEW a \in Arrays PROVE a # <<>> <=> Len(a) >= 1
  BY DEF NonEmpty
<1>1. a \in Seq(Int) /\ Len(a) \in Nat
  BY ArrayFun DEF Arrays
<1>2. Len(a) = 0 <=> a = <<>>
  BY <1>1, EmptySeq
<1> QED
  BY <1>1, <1>2

LEMMA QuickParts ==
  ASSUME NEW ar \in NonEmpty
  PROVE  LET s     == QuickSplit(ar)
             lower == SubSeq(s.ar, 1, s.mid)
             upper == From(s.ar, s.mid + 1)
         IN  /\ ar[1] \in Int /\ s.mid \in 1..Len(ar)
             /\ lower \in NonEmpty /\ Len(lower) = s.mid /\ \A k \in 1..Len(lower) : lower[k] <= ar[1]
             /\ upper \in Arrays /\ Len(upper) = Len(ar) - s.mid /\ \A k \in 1..Len(upper) : upper[k] >= ar[1]
             /\ Same(lower \o upper, ar)
             /\ s.mid > 1 => QuickMeasure(lower) < QuickMeasure(ar)
             /\ Len(upper) > 1 => upper \in NonEmpty /\ QuickMeasure(upper) < QuickMeasure(ar)
<1> DEFINE s == QuickSplit(ar)
           n == Len(ar)
           b == s.ar
           mid == s.mid
           lower == SubSeq(b, 1, mid)
           upper == From(b, mid + 1)
<1>1. ar \in Arrays /\ n \in Nat /\ n >= 1 /\ ar \in [1..n -> Int]
  BY NonEmptyIs, ArrayFun DEF NonEmpty
<1>2. /\ b \in Arrays /\ Len(b) = n /\ Same(b, ar) /\ mid \in 1..n /\ b[mid] = ar[1]
      /\ \A k \in 1..mid : b[k] <= ar[1]
      /\ \A k \in mid..n : b[k] >= ar[1]
      /\ n >= 2 /\ ar[n] >= ar[1] => mid < n
  BY <1>1, QuickSplitIs
<1> HIDE DEF s, b, mid
<1>3. mid \in 0..Len(b) /\ mid \in 1..n /\ mid \in Nat
  BY <1>1, <1>2
<1>4. /\ lower \in Arrays /\ Len(lower) = mid /\ \A i \in 1..mid : lower[i] = b[i]
      /\ upper \in Arrays /\ Len(upper) = n - mid /\ \A i \in 1..(n - mid) : upper[i] = b[mid + i]
      /\ b = lower \o upper
  <2>1. /\ lower \in Arrays /\ Len(lower) = mid /\ \A i \in 1..mid : lower[i] = b[i]
        /\ upper \in Arrays /\ Len(upper) = Len(b) - mid /\ \A i \in 1..(Len(b) - mid) : upper[i] = b[mid + i]
        /\ b = lower \o upper
    BY <1>2, <1>3, Parts
  <2> HIDE DEF lower, upper
  <2> QED
    BY <1>2, <2>1
<1> HIDE DEF lower, upper
<1>5. lower \in NonEmpty
  BY <1>3, <1>4, NonEmptyIs
<1>6. \A k \in 1..Len(lower) : lower[k] <= ar[1]
  BY <1>2, <1>4
<1>7. \A k \in 1..Len(upper) : upper[k] >= ar[1]
  <2> SUFFICES ASSUME NEW k \in 1..(n - mid) PROVE upper[k] >= ar[1]
    BY <1>4
  <2>1. mid + k \in mid..n
    BY <1>1, <1>3
  <2> QED
    BY <1>2, <1>4, <2>1
<1>8. ar[1] \in Int /\ ar[n] \in Int
  BY <1>1
<1>9. mid > 1 => QuickMeasure(lower) < QuickMeasure(ar)
  <2>1. QuickMeasure(lower) = 2 * mid + (IF lower[mid] < lower[1] THEN 1 ELSE 0)
    BY <1>4 DEF QuickMeasure
  <2>2. QuickMeasure(ar) = 2 * n + (IF ar[n] < ar[1] THEN 1 ELSE 0)
    BY DEF QuickMeasure
  <2>3. lower[mid] = ar[1] /\ lower[1] <= ar[1] /\ lower[1] \in Int
    <3>1. lower \in [1..mid -> Int] /\ mid \in 1..mid /\ 1 \in 1..mid
      <4>1. lower \in [1..Len(lower) -> Int]
        BY <1>4, ArrayFun
      <4>2. mid \in 1..mid /\ 1 \in 1..mid
        BY <1>3
      <4> QED
        BY <1>4, <4>1, <4>2
    <3> QED
      BY <1>2, <1>4, <1>6, <3>1
  <2>4. ~ (lower[mid] < lower[1])
    BY <1>8, <2>3
  <2>5. QuickMeasure(lower) = 2 * mid
    BY <1>3, <2>1, <2>4
  <2>6. CASE ar[n] < ar[1]
    BY <1>1, <1>3, <2>2, <2>5, <2>6
  <2>7. CASE ~ (ar[n] < ar[1])
    <3>1. mid > 1 => mid < n
      BY <1>1, <1>2, <1>3, <1>8, <2>7
    <3> QED
      BY <1>1, <1>3, <2>2, <2>5, <2>7, <3>1
  <2> QED
    BY <2>6, <2>7
<1>10. QuickMeasure(upper) < QuickMeasure(ar)
  <2>1. QuickMeasure(upper) = 2 * (n - mid) + (IF upper[n - mid] < upper[1] THEN 1 ELSE 0)
    BY <1>4 DEF QuickMeasure
  <2>2. QuickMeasure(ar) = 2 * n + (IF ar[n] < ar[1] THEN 1 ELSE 0)
    BY DEF QuickMeasure
  <2> QED
    BY <1>1, <1>3, <2>1, <2>2
<1>11. Len(upper) > 1 => upper \in NonEmpty
  BY <1>1, <1>3, <1>4, NonEmptyIs
<1> QED
  BY <1>2, <1>4, <1>5, <1>6, <1>7, <1>8, <1>9, <1>10, <1>11 DEF lower, upper, b, mid, s

LEMMA QuickMeasureIs == \A ar \in NonEmpty : QuickMeasure(ar) \in Nat
<1>1. \A ar \in NonEmpty : Len(ar) \in Nat
  BY ArrayFun DEF NonEmpty
<1> QED
  BY <1>1 DEF QuickMeasure

LEMMA QuickStepIs ==
  ASSUME NEW ar \in NonEmpty, NEW f \in [NonEmpty -> NonEmpty]
  PROVE  QuickStep(ar, f) \in NonEmpty
<1> DEFINE s == QuickSplit(ar)
           lower == SubSeq(s.ar, 1, s.mid)
           upper == From(s.ar, s.mid + 1)
           l == IF s.mid > 1 THEN f[lower] ELSE lower
           u == IF Len(upper) > 1 THEN f[upper] ELSE upper
<1>1. lower \in NonEmpty /\ upper \in Arrays /\ (Len(upper) > 1 => upper \in NonEmpty)
  BY QuickParts
<1>2. QuickStep(ar, f) = l \o u
  BY DEF QuickStep
<1> HIDE DEF s, lower, upper
<1>3. l \in NonEmpty /\ u \in Arrays
  BY <1>1 DEF NonEmpty
<1> HIDE DEF l, u
<1>4. l \in Arrays /\ Len(l) \in Nat /\ Len(u) \in Nat /\ Len(l) >= 1
  BY <1>3, NonEmptyIs, ArrayFun DEF NonEmpty
<1>5. l \o u \in Arrays /\ Len(l \o u) = Len(l) + Len(u)
  BY <1>3, <1>4, ConcatIs
<1>6. Len(l \o u) >= 1
  BY <1>4, <1>5
<1> QED
  BY <1>2, <1>5, <1>6, NonEmptyIs

LEMMA QuickSortIs == \A ar \in NonEmpty : quick_sort_v1[ar] = QuickStep(ar, quick_sort_v1)
<1> DEFINE D == NonEmpty
           Eq(f) == f = [ar \in D |-> QuickStep(ar, f)]
           m == [ar \in D |-> QuickMeasure(ar)]
           step == [ar \in D |-> [f \in [D -> D] |-> QuickStep(ar, f)]]
<1>1. quick_sort_v1 = CHOOSE f : Eq(f)
  BY DEF quick_sort_v1, QuickStep, NonEmpty
<1>2. m \in [D -> Nat]
  BY QuickMeasureIs
<1>3. step \in [D -> [[D -> D] -> D]]
  BY QuickStepIs
<1>4. Depends(D, m, step, [D -> D])
  <2> SUFFICES ASSUME NEW ar \in D, NEW f \in [D -> D], NEW g \in [D -> D],
                      \A y \in D : m[y] < m[ar] => f[y] = g[y]
               PROVE  step[ar][f] = step[ar][g]
    BY DEF Depends
  <2> DEFINE s == QuickSplit(ar)
             lower == SubSeq(s.ar, 1, s.mid)
             upper == From(s.ar, s.mid + 1)
  <2>1. /\ lower \in D /\ (s.mid > 1 => QuickMeasure(lower) < QuickMeasure(ar))
        /\ Len(upper) > 1 => upper \in D /\ QuickMeasure(upper) < QuickMeasure(ar)
    BY QuickParts
  <2> HIDE DEF lower, upper, s
  <2>2. (s.mid > 1 => f[lower] = g[lower]) /\ (Len(upper) > 1 => f[upper] = g[upper])
    BY <2>1
  <2>3. QuickStep(ar, f) = QuickStep(ar, g)
    BY <2>2 DEF QuickStep, lower, upper, s
  <2> QED
    BY <2>3
<1>5. Recursive(D, D, m, step)
  <2>1. D # {}
    <3> DEFINE a == [i \in 1..1 |-> 0]
    <3>1. 1 \in Nat /\ a \in [1..1 -> Int]
      OBVIOUS
    <3>2. a \in Arrays /\ Len(a) = 1
      <4> HIDE DEF a
      <4> QED BY <3>1, ArrayIs
    <3>3. a \in NonEmpty
      <4> HIDE DEF a
      <4> QED BY <3>2, NonEmptyIs
    <3> QED
      BY <3>3
  <2> HIDE DEF m, step, D
  <2> QED
    BY <1>2, <1>3, <1>4, <2>1, Zenon DEF Recursive
<1>6. PICK f : Solves(D, D, step, f)
  <2> HIDE DEF m, step, D
  <2> QED BY <1>5, Recursion, Zenon
<1>7. f \in [D -> D] /\ \A ar \in D : f[ar] = QuickStep(ar, f)
  BY <1>6 DEF Solves
<1>8. Eq(f)
  BY <1>7
<1>9. Eq(quick_sort_v1)
  <2> HIDE DEF Eq
  <2> QED BY <1>1, <1>8
<1> QED
  BY <1>9

\* quick_sort_v1 returns the numbers of an array, which is not empty, in order.
THEOREM QuickSorts ==
  \A ar \in Arrays \ {<<>>} : /\ quick_sort_v1[ar] \in Arrays /\ Ordered(quick_sort_v1[ar])
                              /\ Same(quick_sort_v1[ar], ar)
<1> DEFINE q(a) == quick_sort_v1[a]
           Ok(a) == q(a) \in Arrays /\ Ordered(q(a)) /\ Same(q(a), a)
           T == {n \in Nat : \A a \in NonEmpty : QuickMeasure(a) < n => Ok(a)}
<1>1. 0 \in T
  BY QuickMeasureIs
<1>2. ASSUME NEW n \in Nat, n \in T PROVE n + 1 \in T
  <2> SUFFICES ASSUME NEW ar \in NonEmpty, QuickMeasure(ar) < n + 1 PROVE Ok(ar)
    OBVIOUS
  <2> DEFINE s == QuickSplit(ar)
             lower == SubSeq(s.ar, 1, s.mid)
             upper == From(s.ar, s.mid + 1)
             l == IF s.mid > 1 THEN q(lower) ELSE lower
             u == IF Len(upper) > 1 THEN q(upper) ELSE upper
  <2>1. /\ ar[1] \in Int /\ s.mid \in 1..Len(ar)
        /\ lower \in NonEmpty /\ Len(lower) = s.mid /\ \A k \in 1..Len(lower) : lower[k] <= ar[1]
        /\ upper \in Arrays /\ Len(upper) = Len(ar) - s.mid /\ \A k \in 1..Len(upper) : upper[k] >= ar[1]
        /\ Same(lower \o upper, ar)
        /\ s.mid > 1 => QuickMeasure(lower) < QuickMeasure(ar)
        /\ Len(upper) > 1 => upper \in NonEmpty /\ QuickMeasure(upper) < QuickMeasure(ar)
    BY QuickParts
  <2>2. q(ar) = l \o u
    BY QuickSortIs DEF QuickStep
  <2>3. lower \in Arrays /\ ar \in Arrays
    BY <2>1 DEF NonEmpty
  <2> HIDE DEF s, lower, upper
  <2>4. ASSUME NEW a \in Arrays, ~ (Len(a) > 1) PROVE Ordered(a) /\ Same(a, a)
    <3>1. Len(a) \in Nat
      BY ArrayFun
    <3> QED
      BY <2>4, <3>1, SameSelf DEF Ordered
  <2>5. \A a \in NonEmpty : QuickMeasure(a) < QuickMeasure(ar) => Ok(a)
    <3>1. \A a \in NonEmpty : QuickMeasure(a) < QuickMeasure(ar) => QuickMeasure(a) < n
      BY QuickMeasureIs
    <3> HIDE DEF Ok
    <3> QED
      BY <1>2, <3>1
  <2>6. l \in Arrays /\ Ordered(l) /\ Same(l, lower)
    <3>1. CASE s.mid > 1
      BY <2>1, <2>5, <3>1
    <3>2. CASE ~ (s.mid > 1)
      BY <2>1, <2>3, <2>4, <3>2
    <3> QED
      BY <3>1, <3>2
  <2>7. u \in Arrays /\ Ordered(u) /\ Same(u, upper)
    <3>1. CASE Len(upper) > 1
      BY <2>1, <2>5, <3>1
    <3>2. CASE ~ (Len(upper) > 1)
      BY <2>1, <2>4, <3>2
    <3> QED
      BY <3>1, <3>2
  <2> HIDE DEF l, u, q
  <2>8. Same(l \o u, lower \o upper) /\ l \o u \in Arrays
    BY <2>1, <2>3, <2>6, <2>7, SameConcat, ConcatIs
  <2>9. Ordered(l \o u)
    <3>1. \A i \in 1..Len(l) : l[i] <= ar[1]
      BY <2>1, <2>3, <2>6, SameBound
    <3>2. \A i \in 1..Len(u) : u[i] >= ar[1]
      BY <2>1, <2>7, SameBound
    <3> QED
      BY <2>1, <2>6, <2>7, <3>1, <3>2, ConcatOrdered
  <2> QED
    BY <2>1, <2>2, <2>8, <2>9, SameTrans
<1>3. \A n \in Nat : n \in T
  <2> HIDE DEF T
  <2> QED BY <1>1, <1>2, NatSet
<1>4. \A a \in NonEmpty : QuickMeasure(a) + 1 \in Nat /\ QuickMeasure(a) < QuickMeasure(a) + 1
  BY QuickMeasureIs
<1> QED
  BY <1>3, <1>4 DEF NonEmpty

-----------------------------------------------------------------------------
(* qsort.                                                                  *)

\* As for quick_sort_v1; each round that only moves the hole is followed by one that
\* narrows the range, so that the rounds are enough.
PartFill(arr, s) == [k \in 1..Len(arr) |-> IF k = s.hole THEN arr[1] ELSE s.arr[k]]
Narrows(arr, s) == IF s.on_end THEN s.arr[s.e] >= arr[1] ELSE s.arr[s.b] <= arr[1]
RoundsLeft(arr, s) == 2 * (s.e - s.b) - (IF Narrows(arr, s) THEN 1 ELSE 0)
PartOk(arr, i, s) ==
  /\ s.b \in 1..Len(arr) /\ s.e \in 1..Len(arr) /\ s.b <= s.e
  /\ s.hole = IF s.on_end THEN s.b ELSE s.e
  /\ Same(PartFill(arr, s), arr)
  /\ \A k \in 1..Len(arr) : /\ k < s.b => PartFill(arr, s)[k] <= arr[1]
                            /\ k > s.e => PartFill(arr, s)[k] >= arr[1]
  /\ s.b < s.e => RoundsLeft(arr, s) + i <= 2 * Len(arr)
PartStates(arr) == [arr : [1..Len(arr) -> Int], b : Int, e : Int, on_end : BOOLEAN, hole : Int]

LEMMA PartRoundIs ==
  ASSUME NEW arr \in Arrays, NEW i \in 1..(2 * Len(arr)), NEW s \in PartStates(arr), PartOk(arr, i - 1, s)
  PROVE  PartitionRound(s, arr[1]) \in PartStates(arr) /\ PartOk(arr, i, PartitionRound(s, arr[1]))
<1> DEFINE n == Len(arr)
           pivot == arr[1]
           F == PartFill(arr, s)
           r == PartitionRound(s, pivot)
           G == PartFill(arr, r)
           b == s.b
           e == s.e
<1>1. n \in Nat /\ arr \in [1..n -> Int] /\ i \in Int
  BY ArrayFun
<1>2. s.arr \in [1..n -> Int] /\ s.on_end \in BOOLEAN
  BY DEF PartStates
<1>3. /\ b \in 1..n /\ e \in 1..n /\ b <= e
      /\ s.hole = IF s.on_end THEN b ELSE e
      /\ Same(F, arr)
      /\ \A k \in 1..n : (k < b => F[k] <= pivot) /\ (k > e => F[k] >= pivot)
      /\ b < e => RoundsLeft(arr, s) + (i - 1) <= 2 * n
  BY DEF PartOk
<1>4. b \in Int /\ e \in Int /\ n >= 1 /\ pivot \in Int /\ s.arr[b] \in Int /\ s.arr[e] \in Int
  BY <1>1, <1>2, <1>3
<1>5. F \in [1..n -> Int] /\ \A k \in 1..n : F[k] = IF k = s.hole THEN pivot ELSE s.arr[k]
  BY <1>1, <1>2, <1>4 DEF PartFill
<1>6. G = [k \in 1..n |-> G[k]] /\ \A k \in 1..n : G[k] = IF k = r.hole THEN pivot ELSE r.arr[k]
  BY DEF PartFill
<1>7. F \in Arrays /\ Len(F) = n
  BY <1>1, <1>5, ArrayIs
<1>8. CASE b >= e
  <2>1. r = s
    <3>1. ~ (b < e)
      BY <1>4, <1>8
    <3> QED
      BY <1>8, <3>1 DEF PartitionRound
  <2>2. ~ (b < e)
    BY <1>4, <1>8
  <2> QED
    BY <2>1, <2>2 DEF PartOk
<1>9. ASSUME b < e, r.arr \in [1..n -> Int], r.b = b, r.e = e, r.on_end \in BOOLEAN, r.on_end # s.on_end,
             r.hole = (IF s.on_end THEN e ELSE b), r \in PartStates(arr),
             r.arr = [s.arr EXCEPT ![s.hole] = s.arr[r.hole]], ~ Narrows(arr, s), Narrows(arr, r)
      PROVE  PartOk(arr, i, r)
  <2> HIDE DEF r, F, G, b, e
  <2>1. s.hole \in 1..n /\ r.hole \in 1..n /\ s.hole # r.hole
    BY <1>2, <1>3, <1>4, <1>9
  <2>2. G = Swap(F, s.hole, r.hole)
    <3> DEFINE W == Swap(F, s.hole, r.hole)
    <3>1. /\ W = [k \in 1..n |-> W[k]]
          /\ \A k \in 1..n : W[k] = IF k = s.hole THEN F[r.hole] ELSE IF k = r.hole THEN F[s.hole] ELSE F[k]
      BY <1>5, <2>1 DEF Swap
    <3>2. ASSUME NEW k \in 1..n PROVE G[k] = W[k]
      <4> HIDE DEF W
      <4>1. CASE k = s.hole
        <5>1. W[k] = s.arr[r.hole]
          BY <1>5, <2>1, <3>1, <4>1
        <5>2. G[k] = r.arr[k]
          BY <1>6, <2>1, <4>1
        <5>3. r.arr[k] = s.arr[r.hole]
          BY <1>2, <1>9, <2>1, <4>1
        <5> QED
          BY <5>1, <5>2, <5>3
      <4>2. CASE k = r.hole
        <5>1. W[k] = pivot
          BY <1>5, <2>1, <3>1, <4>2
        <5>2. G[k] = pivot
          BY <1>6, <2>1, <4>2
        <5> QED
          BY <5>1, <5>2
      <4>3. CASE k # s.hole /\ k # r.hole
        <5>1. W[k] = s.arr[k]
          BY <1>5, <3>1, <4>3
        <5>2. G[k] = r.arr[k]
          BY <1>6, <4>3
        <5>3. r.arr[k] = s.arr[k]
          BY <1>2, <1>9, <4>3
        <5> QED
          BY <5>1, <5>2, <5>3
      <4> QED
        BY <4>1, <4>2, <4>3
    <3> HIDE DEF W
    <3>3. G = W
      BY <1>6, <3>1, <3>2
    <3> QED
      BY <3>3 DEF W
  <2>3. Same(G, F)
    BY <1>7, <2>1, <2>2, SwapIs
  <2>4. \A k \in 1..n : k # s.hole /\ k # r.hole => G[k] = F[k]
    <3> SUFFICES ASSUME NEW k \in 1..n, k # s.hole, k # r.hole PROVE G[k] = F[k]
      OBVIOUS
    <3>1. r.arr[k] = s.arr[k]
      BY <1>2, <1>9
    <3> QED
      BY <1>5, <1>6, <3>1
  <2>5. \A k \in 1..n : (k < b => G[k] <= pivot) /\ (k > e => G[k] >= pivot)
    <3> SUFFICES ASSUME NEW k \in 1..n, k < b \/ k > e PROVE k # s.hole /\ k # r.hole
      BY <1>3, <2>4
    <3> QED
      BY <1>3, <1>4, <1>9
  <2>6. RoundsLeft(arr, r) + i <= 2 * n
    <3>1. RoundsLeft(arr, s) = 2 * (e - b) - 0 /\ RoundsLeft(arr, r) = 2 * (e - b) - 1
      BY <1>9 DEF RoundsLeft, b, e
    <3> QED
      BY <1>1, <1>3, <1>4, <1>9, <3>1
  <2>7. r.hole = IF r.on_end THEN b ELSE e
    BY <1>2, <1>9
  <2>8. Same(G, arr)
    BY <1>3, <2>3, SameTrans
  <2> QED
    BY <1>3, <1>9, <2>5, <2>6, <2>7, <2>8 DEF PartOk, G
<1>10. CASE b < e /\ s.on_end /\ s.arr[e] < pivot
  <2>1. r = [arr |-> [s.arr EXCEPT ![s.hole] = s.arr[e]], b |-> b, e |-> e, on_end |-> FALSE, hole |-> e]
    <3>1. ~ (b >= e) /\ ~ (s.arr[e] >= pivot)
      BY <1>4, <1>10
    <3> QED
      BY <1>10, <3>1 DEF PartitionRound
  <2>2. s.hole = b
    BY <1>3, <1>10
  <2>3. r.arr = [s.arr EXCEPT ![b] = s.arr[e]] /\ r.arr \in [1..n -> Int] /\ r.arr[b] = s.arr[e]
    <3>1. r.arr = [s.arr EXCEPT ![b] = s.arr[e]]
      BY <2>1, <2>2
    <3> HIDE DEF r, b, e
    <3> QED
      BY <1>2, <1>3, <1>4, <3>1
  <2>4. r \in PartStates(arr)
    BY <1>4, <2>1, <2>3 DEF PartStates
  <2>5. r.b = b /\ r.e = e /\ r.on_end = FALSE /\ r.hole = e
    BY <2>1
  <2> HIDE DEF r
  <2>6. ~ Narrows(arr, s) /\ Narrows(arr, r)
    BY <1>4, <1>10, <2>3, <2>5 DEF Narrows
  <2>7. PartOk(arr, i, r)
    BY <1>9, <1>10, <2>2, <2>3, <2>4, <2>5, <2>6
  <2> QED
    BY <2>4, <2>7 DEF r
<1>11. CASE b < e /\ ~ s.on_end /\ s.arr[b] > pivot
  <2>1. r = [arr |-> [s.arr EXCEPT ![s.hole] = s.arr[b]], b |-> b, e |-> e, on_end |-> TRUE, hole |-> b]
    <3>1. ~ (b >= e) /\ ~ (s.arr[b] <= pivot)
      BY <1>4, <1>11
    <3> QED
      BY <1>11, <3>1 DEF PartitionRound
  <2>2. s.hole = e
    BY <1>3, <1>11
  <2>3. r.arr = [s.arr EXCEPT ![e] = s.arr[b]] /\ r.arr \in [1..n -> Int] /\ r.arr[e] = s.arr[b]
    BY <1>2, <1>3, <1>4, <2>1, <2>2
  <2>4. r \in PartStates(arr)
    BY <1>4, <2>1, <2>3 DEF PartStates
  <2>5. r.b = b /\ r.e = e /\ r.on_end = TRUE /\ r.hole = b
    BY <2>1
  <2> HIDE DEF r
  <2>6. ~ Narrows(arr, s) /\ Narrows(arr, r)
    BY <1>4, <1>11, <2>3, <2>5 DEF Narrows
  <2>7. PartOk(arr, i, r)
    BY <1>9, <1>11, <2>2, <2>3, <2>4, <2>5, <2>6
  <2> QED
    BY <2>4, <2>7 DEF r
<1>12. ASSUME b < e, Narrows(arr, s), r \in PartStates(arr), r.arr = s.arr, r.hole = s.hole, r.on_end = s.on_end,
              r.b = (IF s.on_end THEN b ELSE b + 1), r.e = (IF s.on_end THEN e - 1 ELSE e)
       PROVE  PartOk(arr, i, r)
  <2>1. G = F
    BY <1>12 DEF PartFill
  <2> HIDE DEF r, F, G, b, e
  <2>2. r.b \in 1..n /\ r.e \in 1..n /\ r.b <= r.e
    <3>1. CASE s.on_end
      <4>1. r.b = b /\ r.e = e - 1
        BY <1>12, <3>1
      <4> QED
        BY <1>1, <1>3, <1>4, <1>12, <4>1
    <3>2. CASE ~ s.on_end
      <4>1. r.b = b + 1 /\ r.e = e
        BY <1>12, <3>2
      <4> QED
        BY <1>1, <1>3, <1>4, <1>12, <4>1
    <3> QED
      BY <3>1, <3>2
  <2>3. r.hole = IF r.on_end THEN r.b ELSE r.e
    BY <1>3, <1>12
  <2>4. ASSUME NEW k \in 1..n PROVE (k < r.b => F[k] <= pivot) /\ (k > r.e => F[k] >= pivot)
    <3>1. CASE s.on_end
      <4>1. r.b = b /\ r.e = e - 1 /\ s.hole = b
        BY <1>3, <1>12, <3>1
      <4>2. F[e] = s.arr[e] /\ s.arr[e] >= pivot
        BY <1>3, <1>4, <1>5, <1>12, <3>1, <4>1 DEF Narrows, e
      <4>3. k > e - 1 => k = e \/ k > e
        BY <1>4
      <4> QED
        BY <1>3, <4>1, <4>2, <4>3
    <3>2. CASE ~ s.on_end
      <4>1. r.b = b + 1 /\ r.e = e /\ s.hole = e
        BY <1>3, <1>12, <3>2
      <4>2. F[b] = s.arr[b] /\ s.arr[b] <= pivot
        BY <1>3, <1>4, <1>5, <1>12, <3>2, <4>1 DEF Narrows, b
      <4>3. k < b + 1 => k = b \/ k < b
        BY <1>4
      <4> QED
        BY <1>3, <4>1, <4>2, <4>3
    <3> QED
      BY <3>1, <3>2
  <2>5. RoundsLeft(arr, r) + i <= 2 * n
    <3>1. RoundsLeft(arr, s) = 2 * (e - b) - 1
      BY <1>12 DEF RoundsLeft, b, e
    <3>2. RoundsLeft(arr, r) = 2 * (r.e - r.b) - 1 \/ RoundsLeft(arr, r) = 2 * (r.e - r.b) - 0
      BY DEF RoundsLeft
    <3>3. r.e - r.b = (e - b) - 1
      <4>1. CASE s.on_end
        BY <1>4, <1>12, <4>1
      <4>2. CASE ~ s.on_end
        BY <1>4, <1>12, <4>2
      <4> QED
        BY <4>1, <4>2
    <3>4. RoundsLeft(arr, r) = 2 * ((e - b) - 1) - 1 \/ RoundsLeft(arr, r) = 2 * ((e - b) - 1)
      BY <1>4, <3>2, <3>3
    <3> QED
      BY <1>1, <1>3, <1>4, <1>12, <3>1, <3>4
  <2> QED
    BY <1>3, <2>1, <2>2, <2>3, <2>4, <2>5 DEF PartOk, G
<1>13. CASE b < e /\ s.on_end /\ ~ (s.arr[e] < pivot)
  <2>0. ~ (b >= e) /\ s.arr[e] >= pivot
    BY <1>4, <1>13
  <2>1. r = [arr |-> s.arr, b |-> b, e |-> e - 1, on_end |-> TRUE, hole |-> s.hole]
    BY <1>13, <2>0 DEF PartitionRound
  <2>2. r \in PartStates(arr)
    BY <1>2, <1>3, <1>4, <2>1 DEF PartStates
  <2>3. r.arr = s.arr /\ r.hole = s.hole /\ r.on_end = TRUE /\ r.b = b /\ r.e = e - 1
    BY <2>1
  <2>4. Narrows(arr, s)
    BY <1>13, <2>0 DEF Narrows
  <2> HIDE DEF r
  <2>5. PartOk(arr, i, r)
    BY <1>12, <1>13, <2>2, <2>3, <2>4
  <2> QED
    BY <2>2, <2>5 DEF r
<1>14. CASE b < e /\ ~ s.on_end /\ ~ (s.arr[b] > pivot)
  <2>0. ~ (b >= e) /\ s.arr[b] <= pivot
    BY <1>4, <1>14
  <2>1. r = [arr |-> s.arr, b |-> b + 1, e |-> e, on_end |-> FALSE, hole |-> s.hole]
    BY <1>14, <2>0 DEF PartitionRound
  <2>2. r \in PartStates(arr)
    BY <1>2, <1>3, <1>4, <2>1 DEF PartStates
  <2>3. r.arr = s.arr /\ r.hole = s.hole /\ r.on_end = FALSE /\ r.b = b + 1 /\ r.e = e
    BY <2>1
  <2>4. Narrows(arr, s)
    BY <1>14, <2>0 DEF Narrows
  <2> HIDE DEF r
  <2>5. PartOk(arr, i, r)
    <3>1. r.on_end = s.on_end
      BY <1>2, <1>14, <2>3
    <3> QED
      BY <1>12, <1>14, <2>2, <2>3, <2>4, <3>1
  <2> QED
    BY <2>2, <2>5 DEF r
<1> QED
  BY <1>4, <1>8, <1>10, <1>11, <1>13, <1>14

LEMMA PartitionIs ==
  ASSUME NEW arr \in Arrays, Len(arr) >= 1
  PROVE  /\ partition(arr).arr \in Arrays /\ Len(partition(arr).arr) = Len(arr)
         /\ Same(partition(arr).arr, arr)
         /\ partition(arr).index \in 1..Len(arr)
         /\ partition(arr).arr[partition(arr).index] = arr[1]
         /\ \A k \in 1..Len(arr) : /\ k < partition(arr).index => partition(arr).arr[k] <= arr[1]
                                   /\ k > partition(arr).index => partition(arr).arr[k] >= arr[1]
<1> DEFINE n == Len(arr)
           N == 2 * n
           v == [arr |-> arr, b |-> 1, e |-> n, on_end |-> TRUE, hole |-> 1]
           Eq(f) == f = [i \in 0..N |-> IF i = 0 THEN v ELSE PartitionRound(f[i - 1], arr[1])]
           rounds == CHOOSE f : Eq(f)
           I == [i \in 0..N |-> {s \in PartStates(arr) : PartOk(arr, i, s)}]
           step == [i \in 1..N |-> [s \in I[i - 1] |-> PartitionRound(s, arr[1])]]
           s == rounds[N]
           p == partition(arr)
<1>1. n \in Nat /\ arr \in [1..n -> Int] /\ N \in Nat /\ 1 \in 1..n /\ n \in 1..n
  BY ArrayFun
<1>2. p = [arr |-> [s.arr EXCEPT ![s.b] = arr[1]], index |-> s.b]
  BY DEF partition
<1>3. v \in I[0]
  <2>1. v \in PartStates(arr)
    BY <1>1 DEF PartStates
  <2>2. PartFill(arr, v) = arr
    BY <1>1 DEF PartFill
  <2>3. PartOk(arr, 0, v)
    <3>1. Same(arr, arr)
      BY SameSelf
    <3>2. \A k \in 1..n : ~ (k < 1) /\ ~ (k > n)
      BY <1>1
    <3>3. v.b = 1 /\ v.e = n /\ v.arr = arr /\ v.on_end = TRUE /\ v.hole = 1
      OBVIOUS
    <3> HIDE DEF v
    <3>4. RoundsLeft(arr, v) = 2 * (n - 1) - 1 \/ RoundsLeft(arr, v) = 2 * (n - 1) - 0
      BY <3>3 DEF RoundsLeft
    <3>5. RoundsLeft(arr, v) + 0 <= 2 * n
      BY <1>1, <3>4
    <3> QED
      BY <1>1, <2>2, <3>1, <3>2, <3>3, <3>5 DEF PartOk
  <2> HIDE DEF v
  <2> QED
    BY <1>1, <2>1, <2>3
<1>4. \A i \in 1..N : \A x \in I[i - 1] : step[i][x] = PartitionRound(x, arr[1])
  OBVIOUS
<1>5. Keeps(N, I, v, step)
  <2>1. ASSUME NEW i \in 1..N, NEW x \in I[i - 1] PROVE step[i][x] \in I[i]
    <3>1. i - 1 \in 0..N /\ i \in 0..N
      BY <1>1
    <3>2. x \in PartStates(arr) /\ PartOk(arr, i - 1, x)
      BY <3>1
    <3>3. PartitionRound(x, arr[1]) \in PartStates(arr) /\ PartOk(arr, i, PartitionRound(x, arr[1]))
      BY <3>2, PartRoundIs
    <3> QED
      BY <1>4, <3>1, <3>3
  <2> HIDE DEF I, step, v
  <2> QED
    BY <1>1, <1>3, <2>1 DEF Keeps
<1>6. PICK f : f = [i \in 0..N |-> f[i]] /\ Goes(N, I, v, step, f)
  <2> HIDE DEF I, step, v, N
  <2> QED BY <1>5, LoopRuns
<1>7. Eq(f)
  <2> HIDE DEF I, step, v
  <2>1. \A i \in 0..N : f[i] \in I[i]
    <3> HIDE DEF N
    <3> QED BY <1>5, <1>6, LoopInv
  <2>2. f[0] = v /\ \A i \in 1..N : f[i] = PartitionRound(f[i - 1], arr[1])
    <3>1. \A i \in 1..N : i - 1 \in 0..N
      BY <1>1
    <3> HIDE DEF N
    <3> QED
      BY <1>4, <1>6, <2>1, <3>1 DEF Goes
  <2>3. \A i \in 0..N : f[i] = IF i = 0 THEN v ELSE PartitionRound(f[i - 1], arr[1])
    BY <1>1, <2>2
  <2> QED
    BY <1>6, <2>3
<1>8. Eq(rounds)
  <2> HIDE DEF Eq
  <2> QED BY <1>7
<1> HIDE DEF rounds
<1>9. s \in I[N]
  <2> HIDE DEF I, step, v
  <2>1. rounds[0] = v /\ \A i \in 1..N : rounds[i] = PartitionRound(rounds[i - 1], arr[1])
    BY <1>1, <1>8
  <2>2. Goes(N, I, v, step, rounds)
    BY <1>4, <2>1 DEF Goes
  <2>3. \A i \in 0..N : rounds[i] \in I[i]
    <3> HIDE DEF N
    <3> QED BY <1>5, <2>2, LoopInv
  <2> QED
    BY <1>1, <2>3
<1>10. s \in PartStates(arr) /\ PartOk(arr, N, s)
  BY <1>1, <1>9
<1> HIDE DEF s, I, step, v
<1>11. s.arr \in [1..n -> Int] /\ s.b \in Int /\ s.e \in Int
  BY <1>10 DEF PartStates
<1>12. /\ s.b \in 1..n /\ s.e \in 1..n /\ s.b <= s.e
       /\ s.hole = IF s.on_end THEN s.b ELSE s.e
       /\ Same(PartFill(arr, s), arr)
       /\ \A k \in 1..n : /\ k < s.b => PartFill(arr, s)[k] <= arr[1]
                          /\ k > s.e => PartFill(arr, s)[k] >= arr[1]
       /\ s.b < s.e => RoundsLeft(arr, s) + N <= N
  BY <1>10 DEF PartOk
<1>13. s.b = s.e
  <2> SUFFICES ASSUME s.b < s.e PROVE FALSE
    BY <1>11, <1>12
  <2>1. RoundsLeft(arr, s) = 2 * (s.e - s.b) - 1 \/ RoundsLeft(arr, s) = 2 * (s.e - s.b) - 0
    BY DEF RoundsLeft
  <2>2. \A x, y, R \in Int : x < y /\ (R = 2 * (y - x) - 1 \/ R = 2 * (y - x) - 0) => R >= 1
    OBVIOUS
  <2>3. RoundsLeft(arr, s) \in Int
    BY <1>11, <2>1
  <2>4. RoundsLeft(arr, s) >= 1
    BY <1>11, <2>1, <2>2, <2>3
  <2>5. RoundsLeft(arr, s) + N <= N
    BY <1>12
  <2> HIDE DEF N
  <2> QED
    BY <1>1, <2>3, <2>4, <2>5
<1>14. s.hole = s.b
  BY <1>12, <1>13
<1>15. p.index = s.b /\ p.arr = [s.arr EXCEPT ![s.b] = arr[1]]
  BY <1>2
<1>16. p.arr = PartFill(arr, s)
  BY <1>11, <1>14, <1>15 DEF PartFill
<1>17. p.arr \in [1..n -> Int] /\ p.arr[s.b] = arr[1]
  BY <1>1, <1>11, <1>12, <1>15
<1> HIDE DEF p
<1>18. p.arr \in Arrays /\ Len(p.arr) = n
  BY <1>1, <1>17, ArrayIs
<1> QED
  BY <1>12, <1>13, <1>15, <1>16, <1>17, <1>18 DEF p

QsortStep(a, f) ==
  IF Len(a) - 1 < 2 THEN a
  ELSE LET p == partition(a)
           l == SubSeq(p.arr, 1, p.index - 1)
           h == From(p.arr, p.index + 1)
       IN  (IF Len(l) - 1 > 1 THEN f[l] ELSE l) \o <<p.arr[p.index]>> \o (IF Len(h) - 1 > 1 THEN f[h] ELSE h)

\* The parts below and above the pivot.
LEMMA QsortParts ==
  ASSUME NEW a \in Arrays, ~ (Len(a) - 1 < 2)
  PROVE  LET p == partition(a)
             l == SubSeq(p.arr, 1, p.index - 1)
             h == From(p.arr, p.index + 1)
             x == <<p.arr[p.index]>>
         IN  /\ p.arr[p.index] \in Int /\ x \in Arrays /\ Len(x) = 1 /\ x[1] = p.arr[p.index]
             /\ l \in Arrays /\ Len(l) < Len(a) /\ \A k \in 1..Len(l) : l[k] <= p.arr[p.index]
             /\ h \in Arrays /\ Len(h) < Len(a) /\ \A k \in 1..Len(h) : h[k] >= p.arr[p.index]
             /\ Same((l \o x) \o h, a)
<1> DEFINE p == partition(a)
           n == Len(a)
           b == p.arr
           m == p.index
           l == SubSeq(b, 1, m - 1)
           h == From(b, m + 1)
           x == <<b[m]>>
           l1 == SubSeq(b, 1, m)
<1>1. n \in Nat /\ n >= 1 /\ a \in [1..n -> Int] /\ a[1] \in Int
  BY ArrayFun
<1>2. /\ b \in Arrays /\ Len(b) = n /\ Same(b, a) /\ m \in 1..n /\ b[m] = a[1]
      /\ \A k \in 1..n : (k < m => b[k] <= a[1]) /\ (k > m => b[k] >= a[1])
  BY <1>1, PartitionIs
<1> HIDE DEF p, b, m
<1>3. m \in 0..Len(b) /\ m - 1 \in 0..Len(b) /\ m \in Int
  BY <1>1, <1>2
<1>4. /\ l1 \in Arrays /\ Len(l1) = m /\ \A i \in 1..m : l1[i] = b[i]
      /\ h \in Arrays /\ Len(h) = Len(b) - m /\ \A i \in 1..(Len(b) - m) : h[i] = b[m + i]
      /\ b = l1 \o h
  BY <1>2, <1>3, Parts
<1>5. l \in Arrays /\ Len(l) = m - 1 /\ \A i \in 1..(m - 1) : l[i] = b[i]
  BY <1>2, <1>3, Parts
<1>6. x \in Arrays /\ Len(x) = 1 /\ x[1] = b[m]
  BY <1>1, <1>2 DEF Arrays
<1> HIDE DEF l, h, x, l1
<1>7. l \o x = l1
  <2> DEFINE c == l \o x
  <2>0. /\ c \in Arrays /\ Len(c) = Len(l) + Len(x)
        /\ \A i \in 1..Len(l) : c[i] = l[i]
        /\ \A i \in 1..Len(x) : c[Len(l) + i] = x[i]
    BY <1>5, <1>6, ConcatIs
  <2> HIDE DEF c
  <2>1. \A i \in 1..(m - 1) : c[i] = l[i]
    BY <1>5, <2>0
  <2>2. Len(c) = m /\ c[m] = b[m]
    <3>1. 1 \in 1..Len(x) /\ Len(l) + 1 = m
      BY <1>3, <1>5, <1>6
    <3> QED
      BY <1>6, <2>0, <3>1
  <2>3. \A i \in 1..m : c[i] = l1[i]
    <3> SUFFICES ASSUME NEW i \in 1..m PROVE c[i] = l1[i]
      OBVIOUS
    <3>1. i = m \/ i \in 1..(m - 1)
      BY <1>3
    <3> QED
      BY <1>3, <1>4, <1>5, <2>1, <2>2, <3>1
  <2>4. c = l1
    BY <1>4, <2>0, <2>2, <2>3, ArrayEqual
  <2> QED
    BY <2>4 DEF c
<1>8. \A k \in 1..Len(l) : l[k] <= b[m]
  BY <1>2, <1>3, <1>5
<1>9. \A k \in 1..Len(h) : h[k] >= b[m]
  <2> SUFFICES ASSUME NEW k \in 1..(Len(b) - m) PROVE h[k] >= b[m]
    BY <1>4
  <2>1. m + k \in 1..n /\ m + k > m
    BY <1>1, <1>2, <1>3
  <2> QED
    BY <1>2, <1>4, <2>1
<1>10. Len(l) < n /\ Len(h) < n
  BY <1>1, <1>2, <1>3, <1>4, <1>5
<1>11. Same((l \o x) \o h, a)
  BY <1>2, <1>4, <1>7
<1> QED
  BY <1>1, <1>2, <1>4, <1>5, <1>6, <1>8, <1>9, <1>10, <1>11 DEF l, h, x, b, m, p

LEMMA QsortIs == \A a \in Arrays : qsort[a] = QsortStep(a, qsort)
<1> DEFINE Eq(f) == f = [a \in Arrays |-> QsortStep(a, f)]
           m == [a \in Arrays |-> Len(a)]
           step == [a \in Arrays |-> [f \in [Arrays -> Arrays] |-> QsortStep(a, f)]]
<1>1. qsort = CHOOSE f : Eq(f)
  BY DEF qsort, QsortStep
<1>2. m \in [Arrays -> Nat]
  BY ArrayFun
<1>3. ASSUME NEW a \in Arrays, NEW f \in [Arrays -> Arrays] PROVE QsortStep(a, f) \in Arrays
  <2>1. CASE Len(a) - 1 < 2
    BY <2>1 DEF QsortStep
  <2>2. CASE ~ (Len(a) - 1 < 2)
    <3> DEFINE p == partition(a)
               l == SubSeq(p.arr, 1, p.index - 1)
               h == From(p.arr, p.index + 1)
               x == <<p.arr[p.index]>>
               l1 == IF Len(l) - 1 > 1 THEN f[l] ELSE l
               h1 == IF Len(h) - 1 > 1 THEN f[h] ELSE h
    <3>1. l \in Arrays /\ h \in Arrays /\ x \in Arrays
      BY <2>2, QsortParts
    <3>2. QsortStep(a, f) = (l1 \o x) \o h1
      BY <2>2 DEF QsortStep
    <3> HIDE DEF l, h, x
    <3>3. l1 \in Arrays /\ h1 \in Arrays
      BY <3>1
    <3> HIDE DEF l1, h1
    <3>4. l1 \o x \in Arrays
      BY <3>1, <3>3, ConcatIs
    <3>5. (l1 \o x) \o h1 \in Arrays
      BY <3>3, <3>4, ConcatIs
    <3> QED
      BY <3>2, <3>5
  <2> QED
    BY <2>1, <2>2
<1>4. step \in [Arrays -> [[Arrays -> Arrays] -> Arrays]]
  BY <1>3
<1>5. Depends(Arrays, m, step, [Arrays -> Arrays])
  <2> SUFFICES ASSUME NEW a \in Arrays, NEW f \in [Arrays -> Arrays], NEW g \in [Arrays -> Arrays],
                      \A y \in Arrays : m[y] < m[a] => f[y] = g[y]
               PROVE  step[a][f] = step[a][g]
    BY DEF Depends
  <2>1. CASE Len(a) - 1 < 2
    BY <2>1 DEF QsortStep
  <2>2. CASE ~ (Len(a) - 1 < 2)
    <3> DEFINE p == partition(a)
               l == SubSeq(p.arr, 1, p.index - 1)
               h == From(p.arr, p.index + 1)
    <3>1. l \in Arrays /\ Len(l) < Len(a) /\ h \in Arrays /\ Len(h) < Len(a)
      BY <2>2, QsortParts
    <3> HIDE DEF l, h
    <3>2. f[l] = g[l] /\ f[h] = g[h]
      BY <3>1
    <3>3. QsortStep(a, f) = QsortStep(a, g)
      BY <3>2 DEF QsortStep, l, h
    <3> QED
      BY <3>3
  <2> QED
    BY <2>1, <2>2
<1>6. Recursive(Arrays, Arrays, m, step)
  <2>1. Arrays # {}
    BY EmptySeq DEF Arrays
  <2> HIDE DEF m, step
  <2> QED
    BY <1>2, <1>4, <1>5, <2>1, Zenon DEF Recursive
<1>7. PICK f : Solves(Arrays, Arrays, step, f)
  <2> HIDE DEF m, step
  <2> QED BY <1>6, Recursion, Zenon
<1>8. f \in [Arrays -> Arrays] /\ \A a \in Arrays : f[a] = QsortStep(a, f)
  BY <1>7 DEF Solves
<1>9. Eq(f)
  BY <1>8
<1>10. Eq(qsort)
  <2> HIDE DEF Eq
  <2> QED BY <1>1, <1>9
<1> QED
  BY <1>10

\* What qsort of qsort.cpp does instead of sorting, because it leaves segments of two
\* elements as they are: no number is lost, and numbers that are out of order are
\* neighbours.
THEOREM QsortNearlySorts ==
  \A a \in Arrays : qsort[a] \in Arrays /\ Spread(1, qsort[a]) /\ Same(qsort[a], a)
<1> DEFINE Ok(a) == qsort[a] \in Arrays /\ Spread(1, qsort[a]) /\ Same(qsort[a], a)
           T == {n \in Nat : \A a \in Arrays : Len(a) <= n => Ok(a)}
<1>0. \A a \in Arrays : Len(a) \in Nat
  BY ArrayFun
<1>s. ASSUME NEW a \in Arrays, ~ (Len(a) - 1 > 1) PROVE Spread(1, a) /\ Same(a, a)
  <2>1. Len(a) \in Nat /\ Len(a) <= 2
    BY <1>0, <1>s
  <2>2. \A i, j \in 1..Len(a) : ~ (i + 1 < j)
    BY <2>1
  <2> QED
    BY <2>2, SameSelf DEF Spread
<1>1. ASSUME NEW a \in Arrays, Len(a) - 1 < 2 PROVE Ok(a)
  <2>1. qsort[a] = a
    BY <1>1, QsortIs DEF QsortStep
  <2>2. ~ (Len(a) - 1 > 1)
    BY <1>0, <1>1
  <2> QED
    BY <1>s, <2>1, <2>2
<1>2. 0 \in T
  <2>1. \A a \in Arrays : Len(a) <= 0 => Len(a) - 1 < 2
    BY <1>0
  <2> HIDE DEF Ok
  <2> QED
    BY <1>1, <2>1
<1>3. ASSUME NEW n \in Nat, n \in T PROVE n + 1 \in T
  <2> SUFFICES ASSUME NEW a \in Arrays, Len(a) <= n + 1, ~ (Len(a) - 1 < 2) PROVE Ok(a)
    <3> HIDE DEF Ok
    <3> QED BY <1>1
  <2> DEFINE p == partition(a)
             l == SubSeq(p.arr, 1, p.index - 1)
             h == From(p.arr, p.index + 1)
             y == p.arr[p.index]
             x == <<y>>
             l1 == IF Len(l) - 1 > 1 THEN qsort[l] ELSE l
             h1 == IF Len(h) - 1 > 1 THEN qsort[h] ELSE h
  <2>1. /\ y \in Int /\ x \in Arrays /\ Len(x) = 1 /\ x[1] = y
        /\ l \in Arrays /\ Len(l) < Len(a) /\ \A k \in 1..Len(l) : l[k] <= y
        /\ h \in Arrays /\ Len(h) < Len(a) /\ \A k \in 1..Len(h) : h[k] >= y
        /\ Same((l \o x) \o h, a)
    BY QsortParts
  <2>2. qsort[a] = (l1 \o x) \o h1
    BY QsortIs DEF QsortStep
  <2> HIDE DEF l, h, x, y, p
  <2>3. \A b \in Arrays : Len(b) < Len(a) => Ok(b)
    <3>1. \A b \in Arrays : Len(b) < Len(a) => Len(b) <= n
      BY <1>0
    <3> HIDE DEF Ok
    <3> QED
      BY <1>3, <3>1
  <2>4. l1 \in Arrays /\ Spread(1, l1) /\ Same(l1, l)
    <3>1. CASE Len(l) - 1 > 1
      BY <2>1, <2>3, <3>1
    <3>2. CASE ~ (Len(l) - 1 > 1)
      BY <1>s, <2>1, <3>2
    <3> QED
      BY <3>1, <3>2
  <2>5. h1 \in Arrays /\ Spread(1, h1) /\ Same(h1, h)
    <3>1. CASE Len(h) - 1 > 1
      BY <2>1, <2>3, <3>1
    <3>2. CASE ~ (Len(h) - 1 > 1)
      BY <1>s, <2>1, <3>2
    <3> QED
      BY <3>1, <3>2
  <2> HIDE DEF l1, h1
  <2>6. (\A k \in 1..Len(l1) : l1[k] <= y) /\ (\A k \in 1..Len(h1) : h1[k] >= y)
    BY <2>1, <2>4, <2>5, SameBound
  <2>7. Spread(1, x) /\ (\A k \in 1..Len(x) : x[k] >= y) /\ (\A k \in 1..Len(x) : x[k] <= y)
    BY <2>1 DEF Spread
  <2> DEFINE c == l1 \o x
  <2>8. c \in Arrays /\ Spread(1, c) /\ Same(c, l \o x) /\ l \o x \in Arrays
    <3>1. c \in Arrays /\ l \o x \in Arrays
      BY <2>1, <2>4, ConcatIs
    <3>2. Spread(1, c)
      BY <2>1, <2>4, <2>6, <2>7, ConcatSpread
    <3>3. Same(c, l \o x)
      BY <2>1, <2>4, SameSelf, SameConcat
    <3> QED
      BY <3>1, <3>2, <3>3
  <2>9. \A k \in 1..Len(c) : c[k] <= y
    <3>1. /\ Len(c) = Len(l1) + Len(x)
          /\ \A k \in 1..Len(l1) : c[k] = l1[k]
          /\ \A k \in 1..Len(x) : c[Len(l1) + k] = x[k]
      BY <2>1, <2>4, ConcatIs
    <3> HIDE DEF c
    <3> SUFFICES ASSUME NEW k \in 1..Len(c) PROVE c[k] <= y
      OBVIOUS
    <3>2. Len(l1) \in Nat /\ Len(x) = 1
      BY <1>0, <2>1, <2>4
    <3>3. CASE k <= Len(l1)
      BY <2>6, <3>1, <3>2, <3>3
    <3>4. CASE k > Len(l1)
      <4>1. k = Len(l1) + 1 /\ 1 \in 1..Len(x)
        BY <3>1, <3>2, <3>4
      <4> QED
        BY <2>1, <2>7, <3>1, <4>1
    <3> QED
      BY <3>2, <3>3, <3>4
  <2> HIDE DEF c
  <2>10. c \o h1 \in Arrays /\ Spread(1, c \o h1) /\ Same(c \o h1, (l \o x) \o h)
    <3>1. Spread(1, c \o h1)
      BY <2>1, <2>5, <2>6, <2>8, <2>9, ConcatSpread
    <3>2. Same(c \o h1, (l \o x) \o h)
      BY <2>1, <2>5, <2>8, SameConcat
    <3> QED
      BY <2>5, <2>8, <3>1, <3>2, ConcatIs
  <2> QED
    BY <2>1, <2>2, <2>10, SameTrans DEF c
<1>4. \A n \in Nat : n \in T
  <2> HIDE DEF T
  <2> QED BY <1>2, <1>3, NatSet
<1> QED
  BY <1>0, <1>4

-----------------------------------------------------------------------------
(* The algorithms together, on the numbers that the recorder gives.        *)

LEMMA ArrayLast ==
  ASSUME RecorderInv
  PROVE  Array = Last /\ Array \in Arrays /\ Array \in Seq(Numbers)
<1>1. Last \in Seq(Numbers) /\ get_every(LEN) = Last
  BY LastIs
<1>2. <<>> \o Last = Last
  BY <1>1
<1>3. Array = Last
  BY <1>1, <1>2 DEF Array
<1>4. Numbers \subseteq Int
  BY RecorderAssumption
<1>6. Array \in Arrays
  <2> HIDE DEF Array, Last
  <2>2. Len(Array) \in Nat /\ Array \in [1..Len(Array) -> Numbers]
    BY <1>1, <1>3, LenProperties
  <2>1. \A i \in 1..Len(Array) : Array[i] \in Int
    BY <1>4, <2>2
  <2>3. Array \in [1..Len(Array) -> Int]
    BY <2>1, <2>2
  <2> QED
    BY <2>2, <2>3, ArrayIs
<1> QED
  BY <1>1, <1>3, <1>6

\* Sorted for any length of the buffer and any numbers in it: the sorts of algo_sort.h are
\* right on whatever array the recorder gives.
THEOREM RecorderSorted == RecorderSpec => []Sorted
<1>1. ASSUME RecorderInv PROVE Sorted
  <2> DEFINE a == Array
             Right(b) == IsPermutation(b, a) /\ Inversions(b) = {}
  <2>1. a \in Arrays
    BY <1>1, ArrayLast
  <2> HIDE DEF a
  <2>2. Right(merge_sort[a])
    BY <2>1, MergeSorts, NoInversions
  <2>3. Right(insert_sort(a))
    BY <2>1, InsertSorts, NoInversions
  <2>4. a # <<>> => Right(quick_sort_v1[a])
    <3> SUFFICES ASSUME a # <<>> PROVE Right(quick_sort_v1[a])
      OBVIOUS
    <3>1. a \in Arrays \ {<<>>}
      BY <2>1
    <3>2. quick_sort_v1[a] \in Arrays /\ Ordered(quick_sort_v1[a]) /\ Same(quick_sort_v1[a], a)
      BY <3>1, QuickSorts
    <3> QED
      BY <2>1, <3>2, NoInversions
  <2>5. \A b \in {insert_sort(a), merge_sort[a]} \cup (IF a = <<>> THEN {} ELSE {quick_sort_v1[a]}) : Right(b)
    <3> HIDE DEF Right
    <3> QED
      BY <2>2, <2>3, <2>4
  <2> QED
    BY <2>5 DEF Sorted, a
<1> QED
  BY <1>1, RecorderInvariant, PTL

\* Found for any length of the buffer and any numbers in it.
THEOREM RecorderFound == RecorderSpec => []Found
<1>1. ASSUME RecorderInv PROVE Found
  <2> DEFINE m == merge_sort[Array]
  <2>1. Array \in Arrays /\ Numbers \subseteq Int
    BY <1>1, ArrayLast, RecorderAssumption
  <2>2. m \in Arrays /\ Ordered(m)
    BY <2>1, MergeSorts
  <2> HIDE DEF m
  <2>3. \A x \in Numbers : Count(m, x) > 0 => m[bin_find(m, x) + 1] = x
    BY <2>1, <2>2, BinFinds
  <2> QED
    BY <2>3 DEF Found, m
<1> QED
  BY <1>1, RecorderInvariant, PTL

-----------------------------------------------------------------------------
(* reverse_string.                                                         *)

\* The word of the text r, of n characters, that character i is in goes from b to e.
WordAt(r, n, i, b, e) == /\ b \in 1..i /\ e \in i..n
                         /\ b = 1 \/ r[b - 1] = Blank
                         /\ e = n \/ r[e + 1] = Blank
                         /\ \A k \in b..e : r[k] # Blank

\* After m rounds the words before last are reversed, each in itself.
RevStates(n) == [p : [1..n -> Int], last : Int]
RevDone(r, n, p, i) == \A b, e \in 1..n : WordAt(r, n, i, b, e) => e < n /\ p[i] = r[b + e - i]
RevIs(r, n, m, p, last) ==
  /\ last \in 0..m
  /\ last = 0 \/ r[last] = Blank
  /\ \A k \in (last + 1)..m : r[k] # Blank
  /\ \A i \in 1..n : i > last \/ r[i] = Blank => p[i] = r[i]
  /\ \A i \in 1..n : i <= last /\ r[i] # Blank => RevDone(r, n, p, i)

LEMMA RevRangeIs ==
  ASSUME NEW n \in Nat, NEW p \in [1..n -> Int], NEW l \in 0..n, NEW m \in 0..n
  PROVE  /\ ReverseRange(p, l, m) \in [1..n -> Int]
         /\ \A i \in 1..n : i > l /\ i <= m => ReverseRange(p, l, m)[i] = p[l + m + 1 - i]
         /\ \A i \in 1..n : ~ (i > l /\ i <= m) => ReverseRange(p, l, m)[i] = p[i]
<1>1. Len(p) = n
  BY ArrayIs
<1>2. ReverseRange(p, l, m) = [i \in 1..n |-> IF i - 1 \in l..(m - 1) THEN p[l + m + 1 - i] ELSE p[i]]
  BY <1>1 DEF ReverseRange
<1>3. \A i \in 1..n : i - 1 \in l..(m - 1) <=> i > l /\ i <= m
  OBVIOUS
<1>4. \A i \in 1..n : i > l /\ i <= m => l + m + 1 - i \in 1..n
  OBVIOUS
<1> QED
  BY <1>2, <1>3, <1>4

\* A blank at m ends the word that starts behind last.
LEMMA RevWord ==
  ASSUME NEW n \in Nat, NEW r, NEW m \in 1..n, NEW l \in 0..(m - 1), l = 0 \/ r[l] = Blank, r[m] = Blank,
         \A k \in (l + 1)..(m - 1) : r[k] # Blank, NEW i \in 1..n, i > l, i < m,
         NEW b \in 1..n, NEW e \in 1..n, WordAt(r, n, i, b, e)
  PROVE  b = l + 1 /\ e = m - 1
<1>1. /\ b <= i /\ i <= e /\ (b = 1 \/ r[b - 1] = Blank) /\ (e = n \/ r[e + 1] = Blank)
      /\ \A k \in b..e : r[k] # Blank
  BY DEF WordAt
<1>2. ~ (b <= l)
  <2> SUFFICES ASSUME b <= l PROVE FALSE
    OBVIOUS
  <2>1. l \in b..e /\ l # 0
    BY <1>1
  <2> QED
    BY <1>1, <2>1
<1>3. ~ (b > l + 1)
  <2> SUFFICES ASSUME b > l + 1 PROVE FALSE
    OBVIOUS
  <2>1. b - 1 \in (l + 1)..(m - 1) /\ b # 1
    BY <1>1
  <2> QED
    BY <1>1, <2>1
<1>4. ~ (e >= m)
  <2> SUFFICES ASSUME e >= m PROVE FALSE
    OBVIOUS
  <2>1. m \in b..e
    BY <1>1
  <2> QED
    BY <1>1, <2>1
<1>5. ~ (e < m - 1)
  <2> SUFFICES ASSUME e < m - 1 PROVE FALSE
    OBVIOUS
  <2>1. e + 1 \in (l + 1)..(m - 1) /\ e # n
    BY <1>1
  <2> QED
    BY <1>1, <2>1
<1> QED
  BY <1>2, <1>3, <1>4, <1>5

\* The array of a round with a blank at m.
LEMMA RevBlank ==
  ASSUME NEW n \in Nat, NEW r \in [1..n -> Int], NEW m \in 1..n, NEW p \in [1..n -> Int], NEW last,
         RevIs(r, n, m - 1, p, last), r[m] = Blank
  PROVE  LET q == IF last # m - 1 THEN ReverseRange(p, last, m - 1) ELSE p
         IN  q \in [1..n -> Int] /\ RevIs(r, n, m, q, m)
<1> DEFINE q == IF last # m - 1 THEN ReverseRange(p, last, m - 1) ELSE p
<1>1. /\ last \in 0..(m - 1)
      /\ last = 0 \/ r[last] = Blank
      /\ \A k \in (last + 1)..(m - 1) : r[k] # Blank
      /\ \A i \in 1..n : i > last \/ r[i] = Blank => p[i] = r[i]
      /\ \A i \in 1..n : i <= last /\ r[i] # Blank => RevDone(r, n, p, i)
  BY DEF RevIs
<1>2. /\ q \in [1..n -> Int]
      /\ \A i \in 1..n : i > last /\ i <= m - 1 => q[i] = p[last + m - i]
      /\ \A i \in 1..n : ~ (i > last /\ i <= m - 1) => q[i] = p[i]
  <2>1. last \in 0..n /\ m - 1 \in 0..n
    BY <1>1
  <2>2. /\ ReverseRange(p, last, m - 1) \in [1..n -> Int]
        /\ \A i \in 1..n : i > last /\ i <= m - 1 => ReverseRange(p, last, m - 1)[i] = p[last + (m - 1) + 1 - i]
        /\ \A i \in 1..n : ~ (i > last /\ i <= m - 1) => ReverseRange(p, last, m - 1)[i] = p[i]
    BY <2>1, RevRangeIs
  <2>3. \A i \in 1..n : last + (m - 1) + 1 - i = last + m - i
    BY <1>1
  <2>4. CASE last # m - 1
    BY <2>2, <2>3, <2>4
  <2>5. CASE last = m - 1
    <3>1. \A i \in 1..n : ~ (i > last /\ i <= m - 1)
      BY <1>1, <2>5
    <3>2. q = p
      BY <2>5
    <3> HIDE DEF q
    <3> QED
      BY <3>1, <3>2
  <2> QED
    BY <2>4, <2>5
<1> HIDE DEF q
<1>3. ASSUME NEW i \in 1..n, i > m \/ r[i] = Blank PROVE q[i] = r[i]
  <2>1. ~ (i > last /\ i <= m - 1)
    <3>1. CASE i > m
      BY <3>1
    <3>2. CASE r[i] = Blank
      <4>1. i \notin (last + 1)..(m - 1)
        BY <1>1, <3>2
      <4> QED
        BY <1>1, <4>1
    <3> QED
      BY <1>3, <3>1, <3>2
  <2>2. q[i] = p[i]
    BY <1>2, <2>1
  <2>3. i > last \/ r[i] = Blank
    BY <1>1, <1>3
  <2> QED
    BY <1>1, <2>2, <2>3
<1>4. ASSUME NEW i \in 1..n, i <= m, r[i] # Blank, NEW b \in 1..n, NEW e \in 1..n, WordAt(r, n, i, b, e)
      PROVE  e < n /\ q[i] = r[b + e - i]
  <2>1. i < m
    <3>1. i # m
      BY <1>4
    <3> QED
      BY <1>4, <3>1
  <2>2. CASE i <= last
    <3>1. RevDone(r, n, p, i)
      BY <1>1, <1>4, <2>2
    <3>2. ~ (i > last /\ i <= m - 1)
      BY <1>1, <2>2
    <3>3. q[i] = p[i]
      BY <1>2, <3>2
    <3> QED
      BY <1>4, <3>1, <3>3 DEF RevDone
  <2>3. CASE i > last
    <3>1. b = last + 1 /\ e = m - 1
      BY <1>1, <1>4, <2>1, <2>3, RevWord
    <3>2. q[i] = p[last + m - i]
      BY <1>1, <1>2, <2>1, <2>3
    <3>3. last + m - i \in 1..n /\ last + m - i > last /\ b + e - i = last + m - i /\ e < n
      BY <1>1, <2>1, <2>3, <3>1
    <3>4. p[last + m - i] = r[last + m - i]
      BY <1>1, <3>3
    <3> QED
      BY <3>2, <3>3, <3>4
  <2> QED
    BY <1>1, <2>2, <2>3
<1>5. \A i \in 1..n : i <= m /\ r[i] # Blank => RevDone(r, n, q, i)
  BY <1>4 DEF RevDone
<1>6. m \in 0..m /\ \A k \in (m + 1)..m : r[k] # Blank
  OBVIOUS
<1>7. RevIs(r, n, m, q, m)
  BY <1>3, <1>5, <1>6 DEF RevIs
<1> QED
  BY <1>2, <1>7 DEF q

LEMMA RevRoundIs ==
  ASSUME NEW n \in Nat, NEW r \in [1..n -> Int], NEW m \in 1..n, NEW s \in RevStates(n),
         RevIs(r, n, m - 1, s.p, s.last)
  PROVE  LET t == ReverseRound(s, m - 1, Blank)
         IN  t \in RevStates(n) /\ RevIs(r, n, m, t.p, t.last)
<1> DEFINE t == ReverseRound(s, m - 1, Blank)
           q == IF s.last # m - 1 THEN ReverseRange(s.p, s.last, m - 1) ELSE s.p
<1>1. s.p \in [1..n -> Int] /\ s.last \in Int
  BY DEF RevStates
<1>2. /\ s.last \in 0..(m - 1)
      /\ s.last = 0 \/ r[s.last] = Blank
      /\ \A k \in (s.last + 1)..(m - 1) : r[k] # Blank
      /\ \A i \in 1..n : i > s.last \/ r[i] = Blank => s.p[i] = r[i]
      /\ \A i \in 1..n : i <= s.last /\ r[i] # Blank => RevDone(r, n, s.p, i)
  BY DEF RevIs
<1>3. s.p[m] = r[m] /\ (m - 1) + 1 = m
  <2>1. m > s.last
    BY <1>2
  <2> QED
    BY <1>2, <2>1
<1>4. t = IF s.p[(m - 1) + 1] # Blank THEN s ELSE [p |-> q, last |-> (m - 1) + 1]
  BY DEF ReverseRound, WordAfter
<1> HIDE DEF t, q
<1>5. CASE r[m] # Blank
  <2>1. t = s
    BY <1>3, <1>4, <1>5
  <2>2. \A l \in 0..(m - 1) : l \in 0..m /\ \A k \in (l + 1)..m : k = m \/ k \in (l + 1)..(m - 1)
    OBVIOUS
  <2>3. s.last \in 0..m /\ \A k \in (s.last + 1)..m : r[k] # Blank
    BY <1>2, <1>5, <2>2
  <2>4. RevIs(r, n, m, s.p, s.last)
    BY <1>2, <2>3 DEF RevIs
  <2> QED
    BY <2>1, <2>4 DEF t
<1>6. CASE r[m] = Blank
  <2>1. t = [p |-> q, last |-> m]
    BY <1>3, <1>4, <1>6
  <2>2. q \in [1..n -> Int] /\ RevIs(r, n, m, q, m)
    BY <1>1, <1>6, RevBlank DEF q
  <2>3. t.p = q /\ t.last = m /\ t \in RevStates(n)
    BY <2>1, <2>2 DEF RevStates
  <2> QED
    BY <2>2, <2>3 DEF t
<1> QED
  BY <1>5, <1>6
\* The text backwards.
Backwards(a) == [i \in 1..Len(a) |-> a[Len(a) + 1 - i]]

LEMMA ReverseStringIs ==
  ASSUME NEW a \in Arrays
  PROVE  \E last : RevIs(Backwards(a), Len(a), Len(a), reverse_string(a, Blank), last)
<1> DEFINE n == Len(a)
           r == Backwards(a)
           v == [p |-> ReverseRange(a, 0, n), last |-> 0]
           Eq(f) == f = [i \in 0..n |-> IF i = 0 THEN v ELSE ReverseRound(f[i - 1], i - 1, Blank)]
           rounds == CHOOSE f : Eq(f)
           I == [i \in 0..n |-> {s \in RevStates(n) : RevIs(r, n, i, s.p, s.last)}]
           step == [i \in 1..n |-> [s \in I[i - 1] |-> ReverseRound(s, i - 1, Blank)]]
<1>1. n \in Nat /\ a \in [1..n -> Int]
  BY ArrayFun
<1>2. reverse_string(a, Blank) = rounds[n].p
  BY DEF reverse_string
<1>3. r \in [1..n -> Int] /\ ReverseRange(a, 0, n) = r
  <2> DEFINE w == ReverseRange(a, 0, n)
  <2> HIDE DEF n
  <2>1. 0 \in 0..n /\ n \in 0..n
    BY <1>1
  <2>2. /\ w \in [1..n -> Int]
        /\ \A i \in 1..n : i > 0 /\ i <= n => w[i] = a[0 + n + 1 - i]
    BY <1>1, <2>1, RevRangeIs
  <2>3. r = [i \in 1..n |-> a[n + 1 - i]]
    BY DEF Backwards, n
  <2> HIDE DEF w, r
  <2>4. \A i \in 1..n : n + 1 - i \in 1..n /\ 0 + n + 1 - i = n + 1 - i /\ i > 0 /\ i <= n
    BY <1>1
  <2>5. r \in [1..n -> Int]
    BY <1>1, <2>3, <2>4
  <2>6. \A i \in 1..n : w[i] = r[i]
    BY <2>2, <2>3, <2>4
  <2>7. w = r
    <3>1. w = [i \in 1..n |-> w[i]] /\ r = [i \in 1..n |-> r[i]]
      BY <2>2, <2>5
    <3> QED
      BY <2>6, <3>1, Zenon
  <2> QED
    BY <2>5, <2>7 DEF w
<1>4. v \in I[0]
  <2>1. v = [p |-> r, last |-> 0] /\ v.p = r /\ v.last = 0
    BY <1>3
  <2> HIDE DEF v, r
  <2>2. v \in RevStates(n)
    BY <1>3, <2>1 DEF RevStates
  <2>3. RevIs(r, n, 0, r, 0)
    <3>1. 0 \in 0..0 /\ (\A k \in (0 + 1)..0 : FALSE) /\ \A i \in 1..n : ~ (i <= 0)
      BY <1>1
    <3> QED
      BY <3>1 DEF RevIs
  <2>4. 0 \in 0..n
    BY <1>1
  <2> QED
    BY <2>1, <2>2, <2>3, <2>4
<1>5. \A i \in 1..n : \A x \in I[i - 1] : step[i][x] = ReverseRound(x, i - 1, Blank)
  OBVIOUS
<1> HIDE DEF v, r
<1>6. Keeps(n, I, v, step)
  <2>1. ASSUME NEW i \in 1..n, NEW x \in I[i - 1] PROVE step[i][x] \in I[i]
    <3>1. i - 1 \in 0..n /\ i \in 0..n
      BY <1>1
    <3>2. x \in RevStates(n) /\ RevIs(r, n, i - 1, x.p, x.last)
      BY <3>1
    <3> DEFINE t == ReverseRound(x, i - 1, Blank)
    <3>3. t \in RevStates(n) /\ RevIs(r, n, i, t.p, t.last)
      BY <1>1, <1>3, <3>2, RevRoundIs
    <3>4. step[i][x] = t
      BY <1>5
    <3> HIDE DEF t, step
    <3> QED
      BY <3>1, <3>3, <3>4
  <2> HIDE DEF I, step
  <2> QED
    BY <1>1, <1>4, <2>1 DEF Keeps
<1>7. PICK f : f = [i \in 0..n |-> f[i]] /\ Goes(n, I, v, step, f)
  <2> HIDE DEF I, step, n
  <2> QED BY <1>6, LoopRuns
<1>8. Eq(f)
  <2> HIDE DEF I, step
  <2>1. \A i \in 0..n : f[i] \in I[i]
    <3> HIDE DEF n
    <3> QED BY <1>6, <1>7, LoopInv
  <2>2. f[0] = v /\ \A i \in 1..n : f[i] = ReverseRound(f[i - 1], i - 1, Blank)
    <3>1. \A i \in 1..n : i - 1 \in 0..n
      BY <1>1
    <3> HIDE DEF n
    <3> QED
      BY <1>5, <1>7, <2>1, <3>1 DEF Goes
  <2>3. \A i \in 0..n : f[i] = IF i = 0 THEN v ELSE ReverseRound(f[i - 1], i - 1, Blank)
    BY <1>1, <2>2
  <2> QED
    BY <1>7, <2>3
<1>9. Eq(rounds)
  <2> HIDE DEF Eq
  <2> QED BY <1>8
<1> HIDE DEF rounds
<1>10. rounds[n] \in I[n]
  <2> HIDE DEF I, step
  <2>1. rounds[0] = v /\ \A i \in 1..n : rounds[i] = ReverseRound(rounds[i - 1], i - 1, Blank)
    BY <1>1, <1>9
  <2>2. Goes(n, I, v, step, rounds)
    BY <1>5, <2>1 DEF Goes
  <2>3. \A i \in 0..n : rounds[i] \in I[i]
    <3> HIDE DEF n
    <3> QED BY <1>6, <2>2, LoopInv
  <2> QED
    BY <1>1, <2>3
<1>11. RevIs(r, n, n, rounds[n].p, rounds[n].last)
  BY <1>1, <1>10
<1> QED
  BY <1>2, <1>11 DEF r

\* The words of the text backwards.
WordFirst(r, i) == 1 + Max({0} \cup {k \in 1..(i - 1) : r[k] = Blank})
WordLast(r, n, i) == Min({n + 1} \cup {k \in (i + 1)..n : r[k] = Blank}) - 1

LEMMA WordAtIs ==
  ASSUME NEW n \in Nat, NEW r, NEW i \in 1..n, r[i] # Blank
  PROVE  /\ WordFirst(r, i) \in 1..n /\ WordLast(r, n, i) \in 1..n
         /\ WordAt(r, n, i, WordFirst(r, i), WordLast(r, n, i))
<1> DEFINE F == {0} \cup {k \in 1..(i - 1) : r[k] = Blank}
           L == {n + 1} \cup {k \in (i + 1)..n : r[k] = Blank}
           f == Max(F)
           l == Min(L)
<1>1. F \subseteq 0..n /\ F # {} /\ L \subseteq 0..(n + 1) /\ L # {}
  OBVIOUS
<1>2. IsFiniteSet(0..n) /\ IsFiniteSet(0..(n + 1))
  <2>1. 0 \in Int /\ n \in Int /\ n + 1 \in Int
    OBVIOUS
  <2> QED
    BY <2>1, FS_Interval
<1>3. IsFiniteSet(F) /\ IsFiniteSet(L) /\ F \subseteq Int /\ L \subseteq Int
  BY <1>1, <1>2, FS_Subset
<1>4. f \in F /\ (\A y \in F : y <= f) /\ l \in L /\ \A y \in L : l <= y
  <2> HIDE DEF F, L
  <2> QED
    BY <1>1, <1>3, Extremes
<1>5. WordFirst(r, i) = 1 + f /\ WordLast(r, n, i) = l - 1
  BY DEF WordFirst, WordLast
<1> HIDE DEF f, l
<1>6. f \in 0..(i - 1) /\ (f = 0 \/ r[f] = Blank) /\ \A k \in (f + 1)..(i - 1) : r[k] # Blank
  <2>1. f \in 0..(i - 1) /\ (f = 0 \/ r[f] = Blank)
    BY <1>4
  <2>2. ASSUME NEW k \in (f + 1)..(i - 1), r[k] = Blank PROVE FALSE
    <3>1. k \in F
      BY <2>1, <2>2
    <3>2. k <= f
      BY <1>4, <3>1
    <3> QED
      BY <2>1, <3>2
  <2> QED
    BY <2>1, <2>2
<1>7. l \in (i + 1)..(n + 1) /\ (l = n + 1 \/ r[l] = Blank) /\ \A k \in (i + 1)..(l - 1) : r[k] # Blank
  <2>1. l \in (i + 1)..(n + 1) /\ (l = n + 1 \/ r[l] = Blank)
    BY <1>4
  <2>2. ASSUME NEW k \in (i + 1)..(l - 1), r[k] = Blank PROVE FALSE
    <3>1. k \in L
      BY <2>1, <2>2
    <3>2. l <= k
      BY <1>4, <3>1
    <3> QED
      BY <2>1, <3>2
  <2> QED
    BY <2>1, <2>2
<1>8. \A k \in (1 + f)..(l - 1) : r[k] # Blank
  <2> SUFFICES ASSUME NEW k \in (1 + f)..(l - 1) PROVE r[k] # Blank
    OBVIOUS
  <2>1. k = i \/ k \in (f + 1)..(i - 1) \/ k \in (i + 1)..(l - 1)
    BY <1>6, <1>7
  <2> QED
    BY <1>6, <1>7, <2>1
<1>9. /\ 1 + f \in 1..n /\ l - 1 \in 1..n /\ 1 + f \in 1..i /\ l - 1 \in i..n
      /\ (1 + f = 1 \/ r[(1 + f) - 1] = Blank) /\ (l - 1 = n \/ r[(l - 1) + 1] = Blank)
  <2>1. 1 + f \in 1..n /\ l - 1 \in 1..n /\ 1 + f \in 1..i /\ l - 1 \in i..n
    BY <1>6, <1>7
  <2>2. (1 + f) - 1 = f /\ (l - 1) + 1 = l
    BY <1>6, <1>7
  <2>3. (f = 0 => 1 + f = 1) /\ (l = n + 1 => l - 1 = n)
    OBVIOUS
  <2> QED
    BY <1>6, <1>7, <2>1, <2>2, <2>3
<1> QED
  BY <1>5, <1>8, <1>9 DEF WordAt

\* What reverse_string does: the words come in the opposite order and each is turned back,
\* but for the one behind the last blank, which the algorithm in the comment turns back as
\* well and the code leaves backwards.
THEOREM ReversesWords ==
  ASSUME NEW a \in Arrays, NEW i \in 1..Len(a)
  PROVE  LET r == Backwards(a)
         IN  reverse_string(a, Blank)[i] =
               IF r[i] = Blank \/ WordLast(r, Len(a), i) = Len(a) THEN r[i]
               ELSE r[WordFirst(r, i) + WordLast(r, Len(a), i) - i]
<1> DEFINE n == Len(a)
           r == Backwards(a)
           out == reverse_string(a, Blank)
           b == WordFirst(r, i)
           e == WordLast(r, n, i)
<1>1. n \in Nat
  BY ArrayFun
<1>2. PICK last : RevIs(r, n, n, out, last)
  BY ReverseStringIs
<1> HIDE DEF r, out, n
<1>3. i \in 1..n
  BY DEF n
<1>4. /\ last \in 0..n
      /\ last = 0 \/ r[last] = Blank
      /\ \A k \in (last + 1)..n : r[k] # Blank
      /\ i > last \/ r[i] = Blank => out[i] = r[i]
      /\ i <= last /\ r[i] # Blank => RevDone(r, n, out, i)
  BY <1>2, <1>3 DEF RevIs
<1>5. CASE r[i] = Blank
  BY <1>4, <1>5 DEF r, out, n
<1>6. CASE r[i] # Blank
  <2>1. b \in 1..n /\ e \in 1..n /\ WordAt(r, n, i, b, e)
    BY <1>1, <1>3, <1>6, WordAtIs
  <2> HIDE DEF b, e
  <2>2. CASE i <= last
    <3>1. e < n /\ out[i] = r[b + e - i]
      BY <1>4, <1>6, <2>1, <2>2 DEF RevDone
    <3>2. e # n
      BY <1>1, <2>1, <3>1
    <3> QED
      BY <1>6, <3>1, <3>2 DEF b, e, r, out, n
  <2>3. CASE i > last
    <3>1. out[i] = r[i]
      BY <1>4, <2>3
    <3>2. e = n
      <4> SUFFICES ASSUME e # n PROVE FALSE
        OBVIOUS
      <4>1. r[e + 1] = Blank /\ e >= i /\ e <= n
        BY <2>1 DEF WordAt
      <4>2. e + 1 \in (last + 1)..n
        BY <1>1, <1>4, <2>1, <2>3, <4>1
      <4> QED
        BY <1>4, <4>1, <4>2
    <3> QED
      BY <3>1, <3>2 DEF b, e, r, out, n
  <2> QED
    BY <1>3, <1>4, <2>2, <2>3
<1> QED
  BY <1>5, <1>6

-----------------------------------------------------------------------------
(* make_skip.                                                              *)

\* The first k characters of a are the last k of its first l.
Bord(a, l, k) == \A t \in 1..k : a[t] = a[l - k + t]
Longest(a, l, k) == k \in 0..(l - 1) /\ Bord(a, l, k) /\ \A h \in 0..(l - 1) : Bord(a, l, h) => h <= k

\* A border of a border is a border.
LEMMA BordBord ==
  ASSUME NEW a, NEW l \in Nat, NEW k \in 0..l, NEW h \in 0..k, Bord(a, l, k)
  PROVE  Bord(a, l, h) <=> Bord(a, k, h)
<1>1. ASSUME NEW t \in 1..h PROVE a[l - h + t] = a[k - h + t]
  <2>1. k - h + t \in 1..k /\ l - k + (k - h + t) = l - h + t
    OBVIOUS
  <2> QED
    BY <2>1 DEF Bord
<1> QED
  BY <1>1 DEF Bord

\* A border with one character more.
LEMMA BordNext ==
  ASSUME NEW a, NEW l \in Nat, NEW k \in 1..l
  PROVE  Bord(a, l, k) <=> Bord(a, l - 1, k - 1) /\ a[k] = a[l]
<1>1. \A t \in 1..k : t = k \/ t \in 1..(k - 1)
  OBVIOUS
<1>2. \A t \in 1..(k - 1) : t \in 1..k /\ l - k + t = (l - 1) - (k - 1) + t
  OBVIOUS
<1>3. k \in 1..k /\ l - k + k = l
  OBVIOUS
<1>4. Bord(a, l, k) => Bord(a, l - 1, k - 1) /\ a[k] = a[l]
  BY <1>2, <1>3 DEF Bord
<1>5. Bord(a, l - 1, k - 1) /\ a[k] = a[l] => Bord(a, l, k)
  <2> SUFFICES ASSUME Bord(a, l - 1, k - 1), a[k] = a[l], NEW t \in 1..k PROVE a[t] = a[l - k + t]
    BY DEF Bord
  <2>1. CASE t = k
    BY <1>3, <2>1
  <2>2. CASE t \in 1..(k - 1)
    <3>1. a[t] = a[(l - 1) - (k - 1) + t]
      BY <2>2 DEF Bord
    <3> QED
      BY <1>2, <2>2, <3>1
  <2> QED
    BY <1>1, <2>1, <2>2
<1> QED
  BY <1>4, <1>5

\* The array skip when it has i elements.
SkipOk(a, i, s) == /\ s \in Arrays /\ Len(s) = i /\ s[1] = -1
                   /\ \A l \in 1..(i - 1) : Longest(a, l, s[l + 1])
SkipStep(a, s, c, k, f) == IF k >= 0 /\ a[k + 1] # c THEN f[s[k + 1]] ELSE k

LEMMA SkipBack ==
  ASSUME NEW a, NEW i \in Nat, NEW s, SkipOk(a, i, s), NEW k \in 0..(i - 1)
  PROVE  /\ s[k + 1] \in -1..(k - 1)
         /\ k = 0 => s[k + 1] = -1
         /\ k > 0 => Longest(a, k, s[k + 1])
<1>1. CASE k = 0
  BY <1>1 DEF SkipOk
<1>2. CASE k > 0
  <2>1. k \in 1..(i - 1)
    BY <1>2
  <2>2. Longest(a, k, s[k + 1])
    BY <2>1 DEF SkipOk
  <2>3. s[k + 1] \in 0..(k - 1)
    BY <2>2 DEF Longest
  <2> QED
    BY <1>2, <2>2, <2>3
<1> QED
  BY <1>1, <1>2

\* The inner loop of make_skip ends.
LEMMA SkipFromIs ==
  ASSUME NEW a, NEW i \in Nat, NEW s, SkipOk(a, i, s), NEW c
  PROVE  \E f : \A k \in -1..(i - 1) : SkipFrom(a, s, k, c) = f[k] /\ f[k] = SkipStep(a, s, c, k, f)
<1> DEFINE D == -1..(Len(s) - 1)
           V == Int
           Eq(f) == f = [k \in D |-> SkipStep(a, s, c, k, f)]
           j == CHOOSE f : Eq(f)
           m == [k \in D |-> k + 1]
           step == [k \in D |-> [f \in [D -> V] |-> SkipStep(a, s, c, k, f)]]
<1>1. \A k : SkipFrom(a, s, k, c) = j[k]
  BY DEF SkipFrom, SkipStep
<1>2. Len(s) = i
  BY DEF SkipOk
<1>3. \A k \in D : k >= 0 => s[k + 1] \in D /\ s[k + 1] < k
  <2> SUFFICES ASSUME NEW k \in D, k >= 0 PROVE s[k + 1] \in D /\ s[k + 1] < k
    OBVIOUS
  <2>1. k \in 0..(i - 1)
    BY <1>2
  <2>2. s[k + 1] \in -1..(k - 1)
    BY <2>1, SkipBack
  <2> QED
    BY <1>2, <2>1, <2>2
<1>4. m \in [D -> Nat]
  BY <1>2
<1>5. \A k \in D : k \in Int
  BY <1>2
<1>6. step \in [D -> [[D -> V] -> V]]
  <2>1. \A k \in D : \A f \in [D -> V] : SkipStep(a, s, c, k, f) \in V
    BY <1>3, <1>5 DEF SkipStep
  <2> HIDE DEF D, V
  <2> QED
    BY <2>1
<1>7. Depends(D, m, step, [D -> V])
  <2> SUFFICES ASSUME NEW k \in D, NEW f \in [D -> V], NEW g \in [D -> V], \A y \in D : m[y] < m[k] => f[y] = g[y]
               PROVE  step[k][f] = step[k][g]
    BY DEF Depends
  <2>1. \A y \in D : y < k => f[y] = g[y]
    <3>1. \A y \in D : y < k => y + 1 < k + 1
      BY <1>2
    <3> QED
      BY <3>1
  <2>2. SkipStep(a, s, c, k, f) = SkipStep(a, s, c, k, g)
    BY <1>3, <2>1 DEF SkipStep
  <2> QED
    BY <2>2
<1>8. Recursive(D, V, m, step)
  <2>1. V # {}
    OBVIOUS
  <2> HIDE DEF D, V, m, step
  <2> QED
    BY <1>4, <1>6, <1>7, <2>1, Zenon DEF Recursive
<1>9. PICK f : Solves(D, V, step, f)
  <2> HIDE DEF D, V, m, step
  <2> QED BY <1>8, Recursion, Zenon
<1>10. f \in [D -> V] /\ \A k \in D : f[k] = SkipStep(a, s, c, k, f)
  <2> HIDE DEF V
  <2> QED BY <1>9 DEF Solves
<1>11. Eq(f)
  <2> HIDE DEF V, D
  <2> QED BY <1>10
<1>12. Eq(j)
  <2> HIDE DEF Eq
  <2> QED BY <1>11
<1> HIDE DEF j
<1>13. \A k \in D : j[k] = SkipStep(a, s, c, k, j)
  <2> HIDE DEF D
  <2> QED BY <1>12
<1> QED
  BY <1>1, <1>2, <1>13

\* The candidates for the next border, and where the inner loop ends.
Cand(a, i, h) == Bord(a, i - 1, h) /\ a[h + 1] = a[i]
Reach(a, i, k) == k \in -1..(i - 2) /\ \A h \in 0..(i - 2) : Cand(a, i, h) => h <= k

LEMMA SkipLoop ==
  ASSUME NEW a, NEW i \in Nat, i >= 1, NEW s, SkipOk(a, i, s), NEW f,
         \A k \in -1..(i - 1) : f[k] = SkipStep(a, s, a[i], k, f)
  PROVE  \A k \in -1..(i - 2) : Reach(a, i, k) /\ (k >= 0 => Bord(a, i - 1, k)) =>
           Reach(a, i, f[k]) /\ (f[k] >= 0 => Cand(a, i, f[k]))
<1> DEFINE Pre(k) == Reach(a, i, k) /\ (k >= 0 => Bord(a, i - 1, k))
           Post(x) == Reach(a, i, x) /\ (x >= 0 => Cand(a, i, x))
           T == {d \in Nat : \A k \in -1..(i - 2) : k < d /\ Pre(k) => Post(f[k])}
<1>0. \A k \in -1..(i - 2) : k \in -1..(i - 1)
  OBVIOUS
<1>1. ASSUME NEW k \in -1..(i - 2), k < 0, Pre(k) PROVE Post(f[k])
  <2>1. f[k] = k
    BY <1>0, <1>1 DEF SkipStep
  <2>2. ~ (k >= 0)
    BY <1>1
  <2> QED
    BY <1>1, <2>1, <2>2
<1>2. 0 \in T
  <2> HIDE DEF Pre, Post
  <2> QED BY <1>1
<1>3. ASSUME NEW d \in Nat, d \in T PROVE d + 1 \in T
  <2> SUFFICES ASSUME NEW k \in -1..(i - 2), k < d + 1, Pre(k) PROVE Post(f[k])
    OBVIOUS
  <2>1. CASE k < 0
    <3> HIDE DEF Pre, Post
    <3> QED BY <1>1, <2>1
  <2>2. CASE k >= 0 /\ a[k + 1] = a[i]
    <3>1. f[k] = k
      BY <1>0, <2>2 DEF SkipStep
    <3>2. Cand(a, i, k)
      BY <2>2 DEF Cand
    <3> QED
      BY <3>1, <3>2
  <2>3. CASE k >= 0 /\ a[k + 1] # a[i]
    <3> DEFINE b == s[k + 1]
    <3>1. f[k] = f[b]
      BY <1>0, <2>3 DEF SkipStep
    <3>2. k \in 0..(i - 1) /\ k \in 0..(i - 1) /\ k <= i - 2
      BY <2>3
    <3>3. b \in -1..(k - 1) /\ (k = 0 => b = -1) /\ (k > 0 => Longest(a, k, b))
      BY <3>2, SkipBack
    <3> HIDE DEF b
    <3>4. b \in -1..(i - 2) /\ b < d
      BY <3>2, <3>3
    <3>5. ASSUME NEW h \in 0..(i - 2), Cand(a, i, h) PROVE h <= b
      <4>1. h <= k
        BY <3>5 DEF Reach
      <4>2. h # k
        BY <2>3, <3>5 DEF Cand
      <4>3. k > 0 /\ h \in 0..(k - 1) /\ h \in 0..k /\ k \in 0..(i - 1) /\ i - 1 \in Nat
        BY <3>2, <4>1, <4>2
      <4>4. Bord(a, k, h)
        <5>1. Bord(a, i - 1, h) /\ Bord(a, i - 1, k)
          BY <2>3, <3>5 DEF Cand
        <5> QED
          BY <4>3, <5>1, BordBord
      <4> QED
        BY <3>3, <4>3, <4>4 DEF Longest
    <3>6. ASSUME b >= 0 PROVE Bord(a, i - 1, b)
      <4>1. k > 0 /\ b \in 0..k /\ k \in 0..(i - 1) /\ i - 1 \in Nat
        BY <3>2, <3>3, <3>6
      <4>2. Bord(a, k, b) /\ Bord(a, i - 1, k)
        BY <2>3, <3>3, <4>1 DEF Longest
      <4> QED
        BY <4>1, <4>2, BordBord
    <3>7. Pre(b)
      BY <3>4, <3>5, <3>6 DEF Reach
    <3>8. Post(f[b])
      <4> HIDE DEF Pre, Post
      <4> QED BY <1>3, <3>4, <3>7
    <3> HIDE DEF Post
    <3> QED
      BY <3>1, <3>8
  <2> QED
    BY <2>1, <2>2, <2>3
<1>4. \A d \in Nat : d \in T
  <2> HIDE DEF T
  <2> QED BY <1>2, <1>3, NatSet
<1>5. i \in T
  BY <1>4
<1>6. \A k \in -1..(i - 2) : k < i
  OBVIOUS
<1> QED
  BY <1>5, <1>6

\* The next element of skip.
LEMMA SkipNext ==
  ASSUME NEW a, NEW i \in Nat, i >= 1, NEW s, SkipOk(a, i, s)
  PROVE  Longest(a, i, 1 + SkipFrom(a, s, s[i], a[i]))
<1> DEFINE j0 == s[i]
           x == SkipFrom(a, s, s[i], a[i])
<1>1. PICK f : \A k \in -1..(i - 1) : SkipFrom(a, s, k, a[i]) = f[k] /\ f[k] = SkipStep(a, s, a[i], k, f)
  BY SkipFromIs
<1>2. j0 \in -1..(i - 2) /\ (i = 1 => j0 = -1) /\ (i > 1 => Longest(a, i - 1, j0))
  <2>1. i - 1 \in 0..(i - 1) /\ (i - 1) + 1 = i
    OBVIOUS
  <2>2. /\ s[(i - 1) + 1] \in -1..((i - 1) - 1)
        /\ i - 1 = 0 => s[(i - 1) + 1] = -1
        /\ i - 1 > 0 => Longest(a, i - 1, s[(i - 1) + 1])
    BY <2>1, SkipBack
  <2>3. (i - 1) - 1 = i - 2 /\ (i = 1 => i - 1 = 0) /\ (i > 1 => i - 1 > 0)
    OBVIOUS
  <2> QED
    BY <2>1, <2>2, <2>3
<1>3. x = f[j0]
  <2>1. j0 \in -1..(i - 1)
    BY <1>2
  <2> QED
    BY <1>1, <2>1
<1> HIDE DEF j0, x
<1>4. Reach(a, i, j0) /\ (j0 >= 0 => Bord(a, i - 1, j0))
  <2>1. CASE i = 1
    <3>1. ~ (j0 >= 0) /\ \A h \in 0..(i - 2) : FALSE
      BY <1>2, <2>1
    <3> QED
      BY <1>2, <3>1 DEF Reach
  <2>2. CASE i > 1
    <3>1. Longest(a, i - 1, j0) /\ (i - 1) - 1 = i - 2
      BY <1>2, <2>2
    <3> QED
      BY <1>2, <3>1 DEF Reach, Longest, Cand
  <2> QED
    BY <2>1, <2>2
<1>5. Reach(a, i, x) /\ (x >= 0 => Cand(a, i, x))
  <2>1. \A k \in -1..(i - 1) : f[k] = SkipStep(a, s, a[i], k, f)
    BY <1>1
  <2>2. \A k \in -1..(i - 2) : Reach(a, i, k) /\ (k >= 0 => Bord(a, i - 1, k)) =>
           Reach(a, i, f[k]) /\ (f[k] >= 0 => Cand(a, i, f[k]))
    BY <2>1, SkipLoop
  <2> QED
    BY <1>2, <1>3, <1>4, <2>2
<1>6. x \in -1..(i - 2) /\ \A h \in 0..(i - 2) : Cand(a, i, h) => h <= x
  BY <1>5 DEF Reach
<1>7. 1 + x \in 0..(i - 1)
  BY <1>6
<1>8. Bord(a, i, 1 + x)
  <2>1. CASE x = -1
    <3>1. 1 + x = 0
      BY <2>1
    <3> QED
      BY <3>1 DEF Bord
  <2>2. CASE x >= 0
    <3>1. 1 + x \in 1..i /\ (1 + x) - 1 = x /\ 1 + x = x + 1
      BY <1>6, <2>2
    <3>2. Bord(a, i - 1, (1 + x) - 1) /\ a[1 + x] = a[i]
      BY <1>5, <2>2, <3>1 DEF Cand
    <3> QED
      BY <3>1, <3>2, BordNext
  <2> QED
    BY <1>6, <2>1, <2>2
<1>9. ASSUME NEW h \in 0..(i - 1), Bord(a, i, h) PROVE h <= 1 + x
  <2>1. CASE h = 0
    BY <1>7, <2>1
  <2>2. CASE h > 0
    <3>1. h \in 1..i /\ h - 1 \in 0..(i - 2) /\ (h - 1) + 1 = h
      BY <2>2
    <3>2. Bord(a, i - 1, h - 1) /\ a[h] = a[i]
      BY <1>9, <3>1, BordNext
    <3>3. Cand(a, i, h - 1)
      BY <3>1, <3>2 DEF Cand
    <3>4. h - 1 <= x
      BY <1>6, <3>1, <3>3
    <3> QED
      BY <1>6, <3>4
  <2> QED
    BY <2>1, <2>2
<1> QED
  BY <1>7, <1>8, <1>9 DEF Longest, x
\* A round of make_skip.
SkipRound(a, s, i) == Append(s, 1 + SkipFrom(a, s, s[i], a[i]))

LEMMA SkipRoundIs ==
  ASSUME NEW a, NEW i \in Nat, i >= 1, NEW s, SkipOk(a, i, s)
  PROVE  SkipOk(a, i + 1, SkipRound(a, s, i))
<1> DEFINE x == 1 + SkipFrom(a, s, s[i], a[i])
           t == SkipRound(a, s, i)
<1>1. Longest(a, i, x)
  BY SkipNext
<1>2. t = Append(s, x)
  BY DEF SkipRound
<1> HIDE DEF x, t
<1>3. x \in Int
  BY <1>1 DEF Longest
<1>4. s \in Seq(Int) /\ Len(s) = i /\ s[1] = -1 /\ \A l \in 1..(i - 1) : Longest(a, l, s[l + 1])
  BY DEF SkipOk, Arrays
<1>5. /\ t \in Seq(Int) /\ Len(t) = i + 1 /\ t[i + 1] = x /\ \A k \in 1..i : t[k] = s[k]
  BY <1>2, <1>3, <1>4, AppendProperties
<1>6. ASSUME NEW l \in 1..((i + 1) - 1) PROVE Longest(a, l, t[l + 1])
  <2>1. CASE l = i
    BY <1>1, <1>5, <2>1
  <2>2. CASE l # i
    <3>1. l \in 1..(i - 1) /\ l + 1 \in 1..i
      BY <2>2
    <3> QED
      BY <1>4, <1>5, <3>1
  <2> QED
    BY <2>1, <2>2
<1>7. t[1] = -1
  BY <1>4, <1>5
<1> QED
  BY <1>5, <1>6, <1>7 DEF SkipOk, Arrays, t

\* make_skip gives the longest borders, for every pattern.
THEOREM SkipsToBorder ==
  ASSUME NEW a \in Arrays, Len(a) >= 1
  PROVE  SkipOk(a, Len(a), make_skip(a))
<1> DEFINE n == Len(a)
           N == n - 1
           v == <<-1>>
           Eq(f) == f = [i \in 1..n |-> IF i = 1 THEN v
                                        ELSE Append(f[i - 1], 1 + SkipFrom(a, f[i - 1], f[i - 1][i - 1], a[i - 1]))]
           Goal(f) == f = [i \in 1..n |-> IF i = 1 THEN v ELSE SkipRound(a, f[i - 1], i - 1)]
           rounds == CHOOSE f : Eq(f)
           I == [i \in 0..N |-> {s \in Arrays : SkipOk(a, i + 1, s)}]
           step == [i \in 1..N |-> [s \in I[i - 1] |-> SkipRound(a, s, i)]]
<1>1. n \in Nat /\ N \in Nat /\ n >= 1 /\ n = N + 1
  BY ArrayFun
<1>2. make_skip(a) = rounds[n]
  <2>1. a # <<>>
    BY NonEmptyIs DEF NonEmpty
  <2> QED
    BY <2>1 DEF make_skip
<1>3. \A f : Eq(f) <=> Goal(f)
  BY DEF SkipRound
<1>4. v \in I[0]
  <2>1. v \in Arrays /\ Len(v) = 1 /\ v[1] = -1
    BY DEF Arrays
  <2> HIDE DEF v
  <2>2. SkipOk(a, 0 + 1, v)
    <3>1. 0 + 1 = 1 /\ \A l \in 1..((0 + 1) - 1) : FALSE
      OBVIOUS
    <3> QED
      BY <2>1, <3>1 DEF SkipOk
  <2>3. 0 \in 0..N
    BY <1>1
  <2> QED
    BY <2>1, <2>2, <2>3
<1>5. \A i \in 1..N : \A x \in I[i - 1] : step[i][x] = SkipRound(a, x, i)
  OBVIOUS
<1> HIDE DEF v, Eq
<1>6. Keeps(N, I, v, step)
  <2>1. ASSUME NEW i \in 1..N, NEW x \in I[i - 1] PROVE step[i][x] \in I[i]
    <3>1. i - 1 \in 0..N /\ i \in 0..N /\ (i - 1) + 1 = i /\ i \in Nat /\ i >= 1
      BY <1>1
    <3>2. SkipOk(a, i, x)
      BY <3>1
    <3> DEFINE t == SkipRound(a, x, i)
    <3>3. SkipOk(a, i + 1, t)
      BY <3>1, <3>2, SkipRoundIs
    <3>4. t \in Arrays
      BY <3>3 DEF SkipOk
    <3>5. step[i][x] = t
      BY <1>5
    <3> HIDE DEF t, step
    <3> QED
      BY <3>1, <3>3, <3>4, <3>5
  <2> HIDE DEF I, step
  <2> QED
    BY <1>1, <1>4, <2>1 DEF Keeps
<1>7. PICK f : f = [i \in 0..N |-> f[i]] /\ Goes(N, I, v, step, f)
  <2> HIDE DEF I, step, N
  <2> QED BY <1>6, LoopRuns
<1>8. Goal([i \in 1..n |-> f[i - 1]])
  <2> DEFINE g == [i \in 1..n |-> f[i - 1]]
  <2> HIDE DEF I, step
  <2>1. \A i \in 0..N : f[i] \in I[i]
    <3> HIDE DEF N
    <3> QED BY <1>6, <1>7, LoopInv
  <2>2. f[0] = v /\ \A i \in 1..N : f[i] = SkipRound(a, f[i - 1], i)
    <3>1. \A i \in 1..N : i - 1 \in 0..N
      BY <1>1
    <3> HIDE DEF N
    <3> QED
      BY <1>5, <1>7, <2>1, <3>1 DEF Goes
  <2>3. ASSUME NEW i \in 1..n PROVE g[i] = IF i = 1 THEN v ELSE SkipRound(a, g[i - 1], i - 1)
    <3>1. CASE i = 1
      BY <1>1, <2>2, <3>1
    <3>2. CASE i # 1
      <4>1. i - 1 \in 1..N /\ i - 1 \in 1..n
        BY <1>1, <3>2
      <4>2. g[i] = f[i - 1] /\ g[i - 1] = f[(i - 1) - 1]
        BY <4>1
      <4>3. f[i - 1] = SkipRound(a, f[(i - 1) - 1], i - 1)
        BY <2>2, <4>1
      <4> HIDE DEF g
      <4> QED
        BY <3>2, <4>2, <4>3
    <3> QED
      BY <3>1, <3>2
  <2>4. g = [i \in 1..n |-> g[i]]
    OBVIOUS
  <2>5. Goal(g)
    <3> HIDE DEF g
    <3> QED BY <2>3, <2>4
  <2> QED
    BY <2>5
<1>9. Goal(rounds)
  <2>1. Eq([i \in 1..n |-> f[i - 1]])
    <3> HIDE DEF Goal
    <3> QED BY <1>3, <1>8
  <2>2. Eq(rounds)
    BY <2>1
  <2> HIDE DEF Goal, rounds
  <2> QED
    BY <1>3, <2>2
<1> HIDE DEF rounds
<1>10. rounds[n] \in I[N]
  <2> DEFINE h == [i \in 0..N |-> rounds[i + 1]]
  <2> HIDE DEF I, step
  <2>1. rounds[1] = v /\ \A i \in 2..n : rounds[i] = SkipRound(a, rounds[i - 1], i - 1)
    BY <1>1, <1>9
  <2>2. h[0] = v
    BY <1>1, <2>1
  <2>3. ASSUME NEW i \in 1..N PROVE h[i] = SkipRound(a, h[i - 1], i)
    <3>1. i + 1 \in 2..n /\ i - 1 \in 0..N /\ i \in 0..N /\ (i - 1) + 1 = i /\ (i + 1) - 1 = i
      BY <1>1
    <3>2. h[i] = rounds[i + 1] /\ h[i - 1] = rounds[i]
      BY <3>1
    <3> HIDE DEF h
    <3> QED
      BY <2>1, <3>1, <3>2
  <2> HIDE DEF h
  <2>4. Goes(N, I, v, step, h)
    BY <1>5, <2>2, <2>3 DEF Goes
  <2>5. \A i \in 0..N : h[i] \in I[i]
    <3> HIDE DEF N
    <3> QED BY <1>6, <2>4, LoopInv
  <2>6. N \in 0..N /\ h[N] = rounds[n]
    BY <1>1 DEF h
  <2> QED
    BY <2>5, <2>6
<1>11. SkipOk(a, n, rounds[n])
  <2>1. N \in 0..N /\ N + 1 = n
    BY <1>1
  <2> HIDE DEF N
  <2>2. rounds[n] \in {s \in Arrays : SkipOk(a, N + 1, s)}
    BY <1>10, <2>1
  <2> QED
    BY <2>1, <2>2
<1> QED
  BY <1>2, <1>11

\* Borders as subsequences.
LEMMA BorderIs ==
  ASSUME NEW a \in Arrays, NEW i \in 1..Len(a), NEW k \in 0..i
  PROVE  SubSeq(a, 1, k) = SubSeq(a, i - k + 1, i) <=> Bord(a, i, k)
<1> DEFINE x == SubSeq(a, 1, k)
           y == SubSeq(a, i - k + 1, i)
<1>1. Len(a) \in Nat
  BY ArrayFun
<1>2. x \in Arrays /\ Len(x) = k /\ \A t \in 1..k : x[t] = a[t]
  <2>1. k \in 0..Len(a)
    BY <1>1
  <2> QED
    BY <2>1, Parts
<1>3. y \in Arrays /\ Len(y) = k /\ \A t \in 1..k : y[t] = a[i - k + t]
  <2>1. i - k + 1 \in Nat /\ i \in Nat /\ i - k + 1 > 0 /\ i - k + 1 <= i + 1 /\ i <= Len(a)
    BY <1>1
  <2>2. /\ y \in Arrays /\ Len(y) = i - (i - k + 1) + 1
        /\ \A t \in 1..(i - (i - k + 1) + 1) : y[t] = a[(i - k + 1) + t - 1]
    BY <2>1, SubArray
  <2>3. i - (i - k + 1) + 1 = k /\ \A t \in 1..k : (i - k + 1) + t - 1 = i - k + t
    OBVIOUS
  <2> HIDE DEF y
  <2> QED
    BY <2>2, <2>3
<1> HIDE DEF x, y
<1>4. x = y => Bord(a, i, k)
  BY <1>2, <1>3 DEF Bord
<1>5. Bord(a, i, k) => x = y
  <2> SUFFICES ASSUME Bord(a, i, k) PROVE x = y
    OBVIOUS
  <2>1. \A t \in 1..Len(x) : x[t] = y[t]
    BY <1>2, <1>3 DEF Bord
  <2> QED
    BY <1>2, <1>3, <2>1, ArrayEqual
<1> QED
  BY <1>4, <1>5 DEF x, y

LEMMA LongestIs ==
  ASSUME NEW a \in Arrays, NEW i \in 1..Len(a), NEW m, Longest(a, i, m)
  PROVE  m = Max({k \in 0..(i - 1) : SubSeq(a, 1, k) = SubSeq(a, i - k + 1, i)})
<1> DEFINE S == {k \in 0..(i - 1) : SubSeq(a, 1, k) = SubSeq(a, i - k + 1, i)}
<1>1. m \in 0..(i - 1) /\ Bord(a, i, m) /\ \A h \in 0..(i - 1) : Bord(a, i, h) => h <= m
  BY DEF Longest
<1>2. \A k \in 0..(i - 1) : SubSeq(a, 1, k) = SubSeq(a, i - k + 1, i) <=> Bord(a, i, k)
  <2>1. \A k \in 0..(i - 1) : k \in 0..i
    OBVIOUS
  <2> QED
    BY <2>1, BorderIs
<1>3. m \in S /\ \A y \in S : y <= m
  BY <1>1, <1>2
<1>4. S \subseteq 0..(i - 1) /\ S \subseteq Int
  OBVIOUS
<1>5. IsFiniteSet(S)
  <2>1. 0 \in Int /\ i - 1 \in Int
    OBVIOUS
  <2>2. IsFiniteSet(0..(i - 1))
    BY <2>1, FS_Interval
  <2> QED
    BY <1>4, <2>2, FS_Subset
<1> HIDE DEF S
<1>6. Max(S) \in S /\ \A y \in S : y <= Max(S)
  BY <1>3, <1>4, <1>5, Extremes
<1>7. m \in Int /\ Max(S) \in Int /\ m <= Max(S) /\ Max(S) <= m
  BY <1>3, <1>4, <1>6
<1>8. m = Max(S)
  BY <1>7
<1> QED
  BY <1>8 DEF S

\* Borders for any length of the buffer and any numbers in it: on whatever pattern the
\* recorder gives.
THEOREM RecorderBorders == RecorderSpec => []Borders
<1>1. ASSUME RecorderInv PROVE Borders
  <2> DEFINE a == Array
             n == Len(a)
             skip == make_skip(a)
  <2>1. a \in Arrays
    BY <1>1, ArrayLast
  <2> HIDE DEF a
  <2>2. n \in Nat
    BY <2>1, ArrayFun
  <2>3. \A i \in 1..(n - 1) : skip[i + 1] = Max({k \in 0..(i - 1) : SubSeq(a, 1, k) = SubSeq(a, i - k + 1, i)})
    <3> SUFFICES ASSUME NEW i \in 1..(n - 1)
                 PROVE  skip[i + 1] = Max({k \in 0..(i - 1) : SubSeq(a, 1, k) = SubSeq(a, i - k + 1, i)})
      OBVIOUS
    <3>1. Len(a) >= 1 /\ i \in 1..Len(a)
      BY <2>2
    <3>2. SkipOk(a, Len(a), skip)
      BY <2>1, <3>1, SkipsToBorder
    <3>3. Longest(a, i, skip[i + 1])
      BY <3>2 DEF SkipOk
    <3> HIDE DEF skip
    <3> QED
      BY <2>1, <3>1, <3>3, LongestIs
  <2>4. skip[1] = -1
    <3>1. CASE a = <<>>
      BY <3>1 DEF make_skip
    <3>2. CASE a # <<>>
      <4>1. Len(a) >= 1
        BY <2>1, <3>2, NonEmptyIs DEF NonEmpty
      <4> QED
        BY <2>1, <4>1, SkipsToBorder DEF SkipOk
    <3> QED
      BY <3>1, <3>2
  <2> QED
    BY <2>3, <2>4 DEF Borders, a
<1> QED
  BY <1>1, RecorderInvariant, PTL
=============================================================================
