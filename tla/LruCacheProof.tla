--------------------------- MODULE LruCacheProof ---------------------------
(***************************************************************************)
(* Proofs about the cache: for any capacity of at least two, any bound on  *)
(* the probing and any items, the list stays a ring in the order of last   *)
(* use, hash and list agree, and get never returns an overwritten value.   *)
(***************************************************************************)
EXTENDS LruCache, FiniteSetTheorems, SequenceTheorems, WellFoundedInduction, TLAPS

AllValues == (UNION {Values[x] : x \in Items}) \cup {NULL}
Raws == {x[2] : x \in Items} \cup {""}
ListNode == [key : Nat, next : Index, last : Index, bucket : Buckets \cup {INVALID_INDEX},
             v : AllValues]
HashNode == [key : Nat, raw : Raws, index : Index \cup {INVALID_INDEX}]

LruTypeOK == /\ hash \in [Buckets -> HashNode] /\ list \in [Index -> ListNode]
             /\ head \in Index /\ tail \in Index
             /\ order \in Seq(Index) /\ stale \subseteq Index

\* w goes once round the list l, from t back to t; its first nodes are those of o, and
\* h is the next.
Ringed(w, l, h, t, o) ==
  /\ w \in [0..Capacity -> Index]
  /\ w[0] = t /\ w[Capacity] = t
  /\ \A m, n \in 0..(Capacity - 1) : w[m] = w[n] => m = n
  /\ \A n \in 0..(Capacity - 1) : l[w[n]].next = w[n + 1] /\ l[w[n + 1]].last = w[n]
  /\ Len(o) <= Capacity - 1
  /\ \A n \in 1..Len(o) : w[n - 1] = o[n]
  /\ w[Len(o)] = h

RingInv == \E w \in [0..Capacity -> Index] : Ringed(w, list, head, tail, order)

\* The item in bucket b, and that b is on the path of its key.
ItemIn(h, b) == <<h[b].key, h[b].raw>>
OnPath(k, b) == \E n \in Probes : quadratic_probing(k, n) = b

\* A free bucket is empty, and one in use has an item with one of its values and is
\* found by probing.
BucketInv ==
  \A b \in Buckets : \/ hash[b] = NoHash
                     \/ /\ ItemIn(hash, b) \in Items /\ OnPath(hash[b].key, b)
                        /\ list[hash[b].index].v \in Values[ItemIn(hash, b)]

\* Node i was used before j, and the path of k meets c before it meets b.
UsedBefore(o, i, j) == \E m, n \in 1..Len(o) : m < n /\ o[m] = i /\ o[n] = j
Sooner(k, c, b) == \E n \in Probes : /\ quadratic_probing(k, n) = c
                                     /\ \A m \in Probes : quadratic_probing(k, m) = b => n < m

\* An overwritten node has a newer one of the same item that is found before it and
\* that will be evicted after it.
StaleInv ==
  \A i \in stale : \E j \in Range(order) \ stale :
    /\ UsedBefore(order, i, j)
    /\ ItemIn(hash, list[j].bucket) = ItemIn(hash, list[i].bucket)
    /\ Sooner(hash[list[i].bucket].key, list[j].bucket, list[i].bucket)

LruInv == LruTypeOK /\ RingInv /\ Coupled /\ BucketInv /\ StaleInv

-----------------------------------------------------------------------------
(* Operators of the model.                                                 *)

\* A set of numbers that is not empty has a least one.
LEMMA NatMin ==
  ASSUME NEW T, T \subseteq Nat, T # {}
  PROVE  \E x \in T : \A y \in T : x <= y
<1> DEFINE R == OpToRel(<, Nat)
<1>1. IsWellFoundedOn(R, Nat)
  BY NatLessThanWellFounded
<1>2. \A x, y \in Nat : y < x => <<y, x>> \in R
  BY DEF OpToRel
<1> HIDE DEF R
<1>3. PICK x \in T : \A y \in T : ~ (<<y, x>> \in R)
  BY <1>1, WFMin
<1>4. \A y \in T : ~ (y < x) /\ x \in Nat /\ y \in Nat
  BY <1>2, <1>3
<1> QED
  BY <1>4

\* No bucket and no node has the number that stands for none.
LEMMA InvalidIndex == INVALID_INDEX \notin Buckets /\ INVALID_INDEX \notin Index
  BY LruAssumption DEF INVALID_INDEX, Buckets, Index

\* The fields of an empty bucket.
LEMMA NoHashIs ==
  NoHash.key = 0 /\ NoHash.raw = "" /\ NoHash.index = INVALID_INDEX /\ NoHash \in HashNode
  BY DEF NoHash, HashNode, Raws

\* FirstProbed: the bucket found is one of those looked for, and no earlier probe of
\* the path meets one.
LEMMA FirstProbedFound ==
  ASSUME NEW key, NEW bs, FirstProbed(key, bs) # INVALID_INDEX
  PROVE  /\ FirstProbed(key, bs) \in bs
         /\ \E n \in Probes : /\ quadratic_probing(key, n) = FirstProbed(key, bs)
                              /\ \A m \in Probes : quadratic_probing(key, m) \in bs => n <= m
<1> DEFINE Hits == {i \in Probes : quadratic_probing(key, i) \in bs}
           n == CHOOSE i \in Hits : \A j \in Hits : i <= j
<1>1. Hits # {} /\ FirstProbed(key, bs) = quadratic_probing(key, n)
  BY DEF FirstProbed
<1>2. Hits \subseteq Nat
  BY LruAssumption DEF Probes
<1>3. n \in Hits /\ \A j \in Hits : n <= j
  <2> HIDE DEF Hits
  <2> QED BY <1>1, <1>2, NatMin
<1> HIDE DEF n
<1> QED
  BY <1>1, <1>3

\* FirstProbed: nothing is found only if no probe meets one of the buckets.
LEMMA FirstProbedNone ==
  ASSUME NEW key, NEW bs, INVALID_INDEX \notin bs, FirstProbed(key, bs) = INVALID_INDEX
  PROVE  \A n \in Probes : quadratic_probing(key, n) \notin bs
<1> DEFINE Hits == {i \in Probes : quadratic_probing(key, i) \in bs}
           n == CHOOSE i \in Hits : \A j \in Hits : i <= j
<1> SUFFICES ASSUME Hits # {} PROVE FALSE
  OBVIOUS
<1>1. FirstProbed(key, bs) = quadratic_probing(key, n)
  BY DEF FirstProbed
<1>2. Hits \subseteq Nat
  BY LruAssumption DEF Probes
<1>3. n \in Hits
  <2> HIDE DEF Hits
  <2> QED BY <1>2, NatMin
<1> HIDE DEF n
<1> QED
  BY <1>1, <1>3

\* RemoveAt takes one element out of a sequence and keeps the order of the others.
LEMMA RemoveAtIs ==
  ASSUME NEW S, NEW s \in Seq(S), NEW n \in 1..Len(s)
  PROVE  /\ RemoveAt(s, n) \in Seq(S)
         /\ Len(RemoveAt(s, n)) = Len(s) - 1
         /\ \A k \in 1..(Len(s) - 1) : RemoveAt(s, n)[k] = IF k < n THEN s[k] ELSE s[k + 1]
<1> DEFINE a == SubSeq(s, 1, n - 1)
           c == SubSeq(s, n + 1, Len(s))
<1>1. a \in Seq(S) /\ Len(a) = n - 1 /\ \A k \in 1..(n - 1) : a[k] = s[k]
  OBVIOUS
<1>2. c \in Seq(S) /\ Len(c) = Len(s) - n /\ \A k \in 1..(Len(s) - n) : c[k] = s[k + n]
  OBVIOUS
<1>3. RemoveAt(s, n) = a \o c
  BY DEF RemoveAt
<1> HIDE DEF a, c
<1>4. a \o c \in Seq(S) /\ Len(a \o c) = Len(s) - 1
  <2>1. a \o c \in Seq(S) /\ Len(a \o c) = Len(a) + Len(c)
    BY <1>1, <1>2, ConcatProperties
  <2>2. (n - 1) + (Len(s) - n) = Len(s) - 1
    OBVIOUS
  <2> QED BY <1>1, <1>2, <2>1, <2>2
<1>5. ASSUME NEW k \in 1..(Len(s) - 1) PROVE (a \o c)[k] = IF k < n THEN s[k] ELSE s[k + 1]
  <2>1. CASE k < n
    BY <1>1, <1>2, <2>1
  <2>2. CASE ~ (k < n)
    <3>1. (a \o c)[k] = c[k - (n - 1)]
      BY <1>1, <1>2, <2>2
    <3>2. k - (n - 1) \in 1..(Len(s) - n) /\ (k - (n - 1)) + n = k + 1
      BY <2>2
    <3> QED BY <1>2, <2>2, <3>1, <3>2
  <2> QED BY <2>1, <2>2
<1> QED
  BY <1>3, <1>4, <1>5

\* The order of use when the entry at place q is used.
LEMMA UsedAgain ==
  ASSUME NEW S, NEW s \in Seq(S), NEW q \in 1..Len(s)
  PROVE  LET u == Append(RemoveAt(s, q), s[q])
         IN  /\ u \in Seq(S) /\ Len(u) = Len(s)
             /\ \A k \in 1..Len(s) : u[k] = IF k = Len(s) THEN s[q]
                                            ELSE IF k < q THEN s[k] ELSE s[k + 1]
<1> DEFINE r == RemoveAt(s, q)
<1>1. /\ r \in Seq(S) /\ Len(r) = Len(s) - 1
      /\ \A k \in 1..(Len(s) - 1) : r[k] = IF k < q THEN s[k] ELSE s[k + 1]
  BY RemoveAtIs
<1>2. s[q] \in S
  OBVIOUS
<1> HIDE DEF r
<1>3. Append(r, s[q]) \in Seq(S) /\ Len(Append(r, s[q])) = Len(r) + 1
  BY <1>1, <1>2
<1>4. ASSUME NEW k \in 1..Len(s), k # Len(s)
      PROVE  Append(r, s[q])[k] = IF k < q THEN s[k] ELSE s[k + 1]
  <2>1. k \in 1..(Len(s) - 1)
    BY <1>4
  <2> QED BY <1>1, <2>1
<1>5. Append(r, s[q])[Len(s)] = s[q]
  BY <1>1
<1> QED
  BY <1>1, <1>3, <1>4, <1>5 DEF r

\* The lists l and m have the same entries.
SameEntries(l, m) ==
  /\ m \in [Index -> ListNode]
  /\ \A k \in Index : m[k].key = l[k].key /\ m[k].v = l[k].v /\ m[k].bucket = l[k].bucket

\* What an assignment to a field of a node changes.
LEMMA SetNextIs ==
  ASSUME NEW l \in [Index -> ListNode], NEW i \in Index, NEW j \in Index
  PROVE  /\ SameEntries(l, SetNext(l, i, j))
         /\ \A k \in Index : /\ SetNext(l, i, j)[k].next = IF k = i THEN j ELSE l[k].next
                             /\ SetNext(l, i, j)[k].last = l[k].last
  BY DEF SetNext, ListNode, SameEntries

LEMMA SetLastIs ==
  ASSUME NEW l \in [Index -> ListNode], NEW i \in Index, NEW j \in Index
  PROVE  /\ SameEntries(l, SetLast(l, i, j))
         /\ \A k \in Index : /\ SetLast(l, i, j)[k].last = IF k = i THEN j ELSE l[k].last
                             /\ SetLast(l, i, j)[k].next = l[k].next
  BY DEF SetLast, ListNode, SameEntries

-----------------------------------------------------------------------------
(* The ring.                                                               *)

\* What read_adjust does to the links of a list whose links lead back.
LEMMA MovedIs ==
  ASSUME NEW l \in [Index -> ListNode], NEW i \in Index, head \in Index, i # head,
         l[i].last # i, l[i].next # i, l[head].last # head,
         l[l[i].next].last = i, l[l[i].last].next = i, l[l[head].last].next = head
  PROVE  /\ SameEntries(l, Moved(l, i))
         /\ l[i].next = head =>
              \A k \in Index : /\ Moved(l, i)[k].next = l[k].next
                               /\ Moved(l, i)[k].last = l[k].last
         /\ l[i].next # head =>
              \A k \in Index :
                /\ Moved(l, i)[k].next = IF k = i THEN head
                                         ELSE IF k = l[head].last THEN i
                                         ELSE IF k = l[i].last THEN l[i].next
                                         ELSE l[k].next
                /\ Moved(l, i)[k].last = IF k = head THEN i
                                         ELSE IF k = i THEN l[head].last
                                         ELSE IF k = l[i].next THEN l[i].last
                                         ELSE l[k].last
<1> DEFINE pr == l[i].last
           nx == l[i].next
           hl == l[head].last
           a == SetNext(l, pr, nx)
           b == SetLast(a, a[i].next, a[i].last)
           c == SetNext(b, b[head].last, i)
           d == SetLast(c, i, c[head].last)
           e == SetNext(d, i, head)
           f == SetLast(e, head, i)
<1>0. Moved(l, i) = f
  BY DEF Moved, Unlinked
<1>1. pr \in Index /\ nx \in Index /\ hl \in Index
  BY DEF ListNode
<1>T. \A m : SameEntries(l, m) => m \in [Index -> ListNode]
  BY DEF SameEntries
<1>S. \A m, n : SameEntries(l, m) /\ SameEntries(m, n) => SameEntries(l, n)
  BY DEF SameEntries
<1>a. /\ SameEntries(l, a)
      /\ \A k \in Index : a[k].next = (IF k = pr THEN nx ELSE l[k].next) /\ a[k].last = l[k].last
  <2> HIDE DEF pr, nx
  <2> QED BY <1>1, SetNextIs
<1> HIDE DEF a
<1>2. a[i].next = nx /\ a[i].last = pr
  BY <1>a
<1>b. /\ SameEntries(l, b)
      /\ \A k \in Index : b[k].last = (IF k = nx THEN pr ELSE a[k].last) /\ b[k].next = a[k].next
  <2>1. a \in [Index -> ListNode] /\ b = SetLast(a, nx, pr)
    BY <1>2, <1>a, <1>T
  <2> HIDE DEF pr, nx, b
  <2> QED BY <1>1, <1>a, <1>S, <2>1, SetLastIs
<1> HIDE DEF b
<1>3. b[head].last = (IF head = nx THEN pr ELSE hl) /\ b[head].last \in Index
  BY <1>1, <1>a, <1>b
<1> DEFINE g == b[head].last
<1>c. /\ SameEntries(l, c)
      /\ \A k \in Index : c[k].next = (IF k = g THEN i ELSE b[k].next) /\ c[k].last = b[k].last
  <2>1. b \in [Index -> ListNode] /\ c = SetNext(b, g, i) /\ g \in Index
    BY <1>3, <1>b, <1>T
  <2> HIDE DEF g, c
  <2> QED BY <1>b, <1>S, <2>1, SetNextIs
<1> HIDE DEF c
<1>4. c[head].last = g
  BY <1>c
<1>d. /\ SameEntries(l, d)
      /\ \A k \in Index : d[k].last = (IF k = i THEN g ELSE c[k].last) /\ d[k].next = c[k].next
  <2>1. c \in [Index -> ListNode] /\ d = SetLast(c, i, g) /\ g \in Index
    BY <1>3, <1>4, <1>c, <1>T
  <2> HIDE DEF g, d
  <2> QED BY <1>c, <1>S, <2>1, SetLastIs
<1> HIDE DEF d
<1>e. /\ SameEntries(l, e)
      /\ \A k \in Index : e[k].next = (IF k = i THEN head ELSE d[k].next) /\ e[k].last = d[k].last
  <2>1. d \in [Index -> ListNode]
    BY <1>d, <1>T
  <2>2. /\ SameEntries(d, e)
        /\ \A k \in Index : e[k].next = (IF k = i THEN head ELSE d[k].next) /\ e[k].last = d[k].last
    BY <2>1, SetNextIs
  <2> HIDE DEF e
  <2> QED BY <1>d, <1>S, <2>2
<1> HIDE DEF e
<1>f. /\ SameEntries(l, f)
      /\ \A k \in Index : f[k].last = (IF k = head THEN i ELSE e[k].last) /\ f[k].next = e[k].next
  <2>1. e \in [Index -> ListNode]
    BY <1>e, <1>T
  <2>2. /\ SameEntries(e, f)
        /\ \A k \in Index : f[k].last = (IF k = head THEN i ELSE e[k].last) /\ f[k].next = e[k].next
    BY <2>1, SetLastIs
  <2> HIDE DEF f
  <2> QED BY <1>e, <1>S, <2>2
<1> HIDE DEF f
<1>5. ASSUME nx = head, NEW k \in Index PROVE f[k].next = l[k].next /\ f[k].last = l[k].last
  BY <1>1, <1>3, <1>5, <1>a, <1>b, <1>c, <1>d, <1>e, <1>f
<1>6. ASSUME nx # head, NEW k \in Index
      PROVE  /\ f[k].next = (IF k = i THEN head ELSE IF k = hl THEN i
                             ELSE IF k = pr THEN nx ELSE l[k].next)
             /\ f[k].last = (IF k = head THEN i ELSE IF k = i THEN hl
                             ELSE IF k = nx THEN pr ELSE l[k].last)
  BY <1>1, <1>3, <1>6, <1>a, <1>b, <1>c, <1>d, <1>e, <1>f
<1> QED
  BY <1>0, <1>5, <1>6, <1>f

\* Injective on as many places as there are nodes, w reaches every node.
LEMMA RingReaches ==
  ASSUME NEW w \in [0..Capacity -> Index],
         \A m, n \in 0..(Capacity - 1) : w[m] = w[n] => m = n
  PROVE  \A i \in Index : \E n \in 0..(Capacity - 1) : w[n] = i
<1> DEFINE D == 0..(Capacity - 1)
           f == [n \in D |-> w[n]]
<1>1. D \subseteq 0..Capacity
  BY LruAssumption
<1>2. f \in Injection(D, D)
  <2>1. f \in [D -> D]
    BY <1>1 DEF Index
  <2>2. \A m, n \in D : f[m] = f[n] => m = n
    OBVIOUS
  <2> HIDE DEF f
  <2> QED BY <2>1, <2>2 DEF Injection, IsInjective
<1>3. IsFiniteSet(D)
  <2>1. 0 \in Int /\ Capacity - 1 \in Int
    BY LruAssumption
  <2> QED BY <2>1, FS_Interval
<1>4. f \in Surjection(D, D)
  <2> HIDE DEF f, D
  <2> QED BY <1>2, <1>3, FS_Injection
<1>5. \A i \in D : \E n \in D : f[n] = i
  <2> HIDE DEF f, D
  <2> QED BY <1>4 DEF Surjection
<1> QED
  BY <1>5 DEF Index

\* Walk goes round the ring.
LEMMA WalkIs ==
  ASSUME NEW w \in [0..Capacity -> Index], w[0] = tail,
         \A n \in 0..(Capacity - 1) : list[w[n]].next = w[n + 1]
  PROVE  \A n \in 0..Capacity : Walk[n] = w[n]
<1> DEFINE Step(g) == [n \in 0..Capacity |-> IF n = 0 THEN tail ELSE list[g[n - 1]].next]
<1>0. Capacity \in Nat
  BY LruAssumption
<1>1. w = Step(w)
  <2>1. ASSUME NEW n \in 0..Capacity, n # 0 PROVE w[n] = list[w[n - 1]].next
    <3>1. n - 1 \in 0..(Capacity - 1) /\ (n - 1) + 1 = n
      BY <1>0, <2>1
    <3> QED BY <3>1
  <2>2. \A n \in 0..Capacity : w[n] = IF n = 0 THEN tail ELSE list[w[n - 1]].next
    BY <2>1
  <2> QED BY <2>2
<1>2. Walk = CHOOSE g : g = Step(g)
  BY DEF Walk
<1>3. Walk = Step(Walk)
  <2> HIDE DEF Step
  <2> QED BY <1>1, <1>2
<1>4. \A n \in 0..Capacity : Walk[n] = IF n = 0 THEN tail ELSE list[Walk[n - 1]].next
  BY <1>3
<1> DEFINE T == {n \in 0..Capacity : Walk[n] # w[n]}
<1> HIDE DEF Walk
<1> SUFFICES ASSUME T # {} PROVE FALSE
  OBVIOUS
<1>5. PICK n \in T : \A m \in T : n <= m
  <2>1. T \subseteq Nat
    BY <1>0
  <2> HIDE DEF T
  <2> QED BY <2>1, NatMin
<1>6. CASE n = 0
  BY <1>4, <1>6
<1>7. CASE n # 0
  <2>1. n - 1 \in 0..(Capacity - 1) /\ n - 1 \in 0..Capacity /\ (n - 1) + 1 = n /\ ~ (n <= n - 1)
    BY <1>0, <1>7
  <2>2. Walk[n - 1] = w[n - 1]
    BY <1>5, <2>1
  <2>3. list[w[n - 1]].next = w[n]
    BY <2>1
  <2> QED BY <1>4, <1>7, <2>2, <2>3
<1> QED
  BY <1>6, <1>7

\* Using the node at place q of the order: read_adjust leaves a ring in the new order.
LEMMA RingMoved ==
  ASSUME NEW w, NEW l \in [Index -> ListNode], head \in Index, order \in Seq(Index),
         Ringed(w, l, head, tail, order), NEW q \in 1..Len(order),
         l[order[q]].next = list[order[q]].next
  PROVE  /\ SameEntries(l, Moved(l, order[q]))
         /\ \E u \in [0..Capacity -> Index] :
              Ringed(u, Moved(l, order[q]), head, TailAfterMove(order[q]),
                     Append(RemoveAt(order, q), order[q]))
<1> DEFINE i == order[q]
           p == q - 1
           m == Len(order)
           l2 == Moved(l, i)
           o2 == Append(RemoveAt(order, q), order[q])
           pp == IF p = 0 THEN Capacity - 1 ELSE p - 1
<1>0. Capacity \in Nat /\ Capacity >= 2 /\ m \in Nat
  BY LruAssumption
<1>1. /\ w \in [0..Capacity -> Index] /\ w[0] = tail /\ w[Capacity] = tail
      /\ \A a, b \in 0..(Capacity - 1) : w[a] = w[b] => a = b
      /\ \A a \in 0..(Capacity - 1) : l[w[a]].next = w[a + 1] /\ l[w[a + 1]].last = w[a]
      /\ m <= Capacity - 1
      /\ \A a \in 1..m : w[a - 1] = order[a]
      /\ w[m] = head
  BY DEF Ringed
<1>2. p \in 0..(Capacity - 1) /\ m \in 1..(Capacity - 1) /\ p < m /\ pp \in 0..(Capacity - 1) /\ p + 1 = q
  BY <1>0, <1>1
<1>3. i = w[p] /\ i \in Index
  BY <1>1
<1>4. /\ l[i].next = w[p + 1] /\ l[i].last = w[pp] /\ l[w[pp]].next = i /\ l[w[p + 1]].last = i
  <2>1. CASE p = 0
    <3>1. pp = Capacity - 1 /\ (Capacity - 1) + 1 = Capacity
      BY <1>0, <2>1
    <3> QED BY <1>1, <1>2, <1>3, <2>1, <3>1
  <2>2. CASE p # 0
    <3>1. pp = p - 1 /\ (p - 1) + 1 = p /\ p - 1 \in 0..(Capacity - 1)
      BY <1>0, <1>2, <2>2
    <3> QED BY <1>1, <1>2, <1>3, <3>1
  <2> QED BY <2>1, <2>2
<1>5. l[head].last = w[m - 1] /\ l[w[m - 1]].next = head
  <2>1. m - 1 \in 0..(Capacity - 1) /\ (m - 1) + 1 = m
    BY <1>0, <1>2
  <2> QED BY <1>1, <2>1
<1>6. i # head /\ w[p + 1] # i /\ w[pp] # i /\ w[m - 1] # head
  <2>1. p # m /\ pp # p /\ m - 1 # m /\ m - 1 \in 0..(Capacity - 1) /\ m \in 0..(Capacity - 1)
    BY <1>0, <1>2
  <2>2. w[p + 1] # w[p]
    <3>1. p + 1 \in 0..(Capacity - 1) /\ p + 1 # p
      <4> HIDE DEF p, m
      <4> QED BY <1>0, <1>2
    <3> QED BY <1>1, <1>2, <3>1
  <2> QED BY <1>1, <1>2, <1>3, <2>1, <2>2
<1>7. /\ SameEntries(l, l2)
      /\ w[p + 1] = head => \A k \in Index : l2[k].next = l[k].next /\ l2[k].last = l[k].last
      /\ w[p + 1] # head =>
           \A k \in Index : /\ l2[k].next = (IF k = i THEN head ELSE IF k = w[m - 1] THEN i
                                             ELSE IF k = w[pp] THEN w[p + 1] ELSE l[k].next)
                            /\ l2[k].last = (IF k = head THEN i ELSE IF k = i THEN w[m - 1]
                                             ELSE IF k = w[p + 1] THEN w[pp] ELSE l[k].last)
  <2>1. /\ i \in Index /\ i # head /\ l[i].last # i /\ l[i].next # i /\ l[head].last # head
        /\ l[l[i].next].last = i /\ l[l[i].last].next = i /\ l[l[head].last].next = head
    BY <1>3, <1>4, <1>5, <1>6
  <2> HIDE DEF i, p, pp, m
  <2>2. /\ SameEntries(l, l2)
        /\ l[i].next = head => \A k \in Index : l2[k].next = l[k].next /\ l2[k].last = l[k].last
        /\ l[i].next # head =>
             \A k \in Index :
               /\ l2[k].next = (IF k = i THEN head ELSE IF k = l[head].last THEN i
                                ELSE IF k = l[i].last THEN l[i].next ELSE l[k].next)
               /\ l2[k].last = (IF k = head THEN i ELSE IF k = i THEN l[head].last
                                ELSE IF k = l[i].next THEN l[i].last ELSE l[k].last)
    BY <2>1, MovedIs
  <2> HIDE DEF l2
  <2> QED BY <1>4, <1>5, <2>2
<1>8. /\ o2 \in Seq(Index) /\ Len(o2) = m
      /\ \A k \in 1..m : o2[k] = IF k = m THEN order[q]
                                 ELSE IF k < q THEN order[k] ELSE order[k + 1]
  BY UsedAgain
<1> HIDE DEF l2, o2
<1>9. CASE w[p + 1] = head
  <2>1. p + 1 = m
    BY <1>0, <1>1, <1>2, <1>9
  <2>2. TailAfterMove(i) = tail
    BY <1>4, <1>9 DEF TailAfterMove
  <2>3. \A a \in 0..(Capacity - 1) : l2[w[a]].next = w[a + 1] /\ l2[w[a + 1]].last = w[a]
    <3>1. \A a \in 0..(Capacity - 1) : w[a] \in Index /\ w[a + 1] \in Index
      <4>1. \A a \in 0..(Capacity - 1) : a \in 0..Capacity /\ a + 1 \in 0..Capacity
        BY <1>0
      <4> QED BY <1>1, <4>1
    <3> QED BY <1>1, <1>7, <1>9, <3>1
  <2>4. ASSUME NEW a \in 1..m PROVE w[a - 1] = o2[a]
    <3>1. a < q \/ (a = m /\ a = q)
      BY <1>0, <1>2, <2>1
    <3> QED BY <1>1, <1>2, <1>8, <2>1, <3>1
  <2>5. Ringed(w, l2, head, TailAfterMove(i), o2)
    BY <1>1, <1>8, <2>2, <2>3, <2>4 DEF Ringed
  <2> QED BY <1>1, <1>7, <2>5 DEF l2, o2
<1>10. CASE w[p + 1] # head
  <2>1. p + 2 <= m
    BY <1>0, <1>1, <1>2, <1>10
  <2> DEFINE s(n) == IF n < p THEN n ELSE IF n < m - 1 THEN n + 1 ELSE IF n = m - 1 THEN p ELSE n
             u == [n \in 0..Capacity |-> IF n = Capacity THEN w[s(0)] ELSE w[s(n)]]
  <2>2. \A n \in 0..(Capacity - 1) : s(n) \in 0..(Capacity - 1)
    BY <1>0, <1>2, <2>1
  <2>3. \A n \in 0..(Capacity - 1) : u[n] = w[s(n)] /\ w[s(n)] \in Index
    <3>1. \A n \in 0..(Capacity - 1) : n \in 0..Capacity /\ n # Capacity /\ s(n) \in 0..Capacity
      BY <1>0, <2>2
    <3> HIDE DEF s
    <3> QED BY <1>1, <3>1
  <2>4. u[Capacity] = w[s(0)] /\ 0 \in 0..(Capacity - 1)
    BY <1>0
  <2>5. u \in [0..Capacity -> Index]
    <3>1. \A n \in 0..Capacity : n = Capacity \/ n \in 0..(Capacity - 1)
      BY <1>0
    <3> HIDE DEF s
    <3> QED BY <2>3, <2>4, <3>1
  <2> HIDE DEF u
  <2>6. TailAfterMove(i) = w[s(0)]
    <3>1. CASE p = 0
      <4>1. s(0) = 1 /\ i = tail
        BY <1>1, <1>2, <1>3, <2>1, <3>1
      <4> QED BY <1>4, <1>10, <3>1, <4>1 DEF TailAfterMove
    <3>2. CASE p # 0
      <4>1. s(0) = 0 /\ 0 \in 0..(Capacity - 1)
        BY <1>0, <1>2, <3>2
      <4>2. i # tail
        BY <1>1, <1>2, <1>3, <3>2, <4>1
      <4> QED BY <1>1, <4>1, <4>2 DEF TailAfterMove
    <3> QED BY <3>1, <3>2
  <2>7. \A a, b \in 0..(Capacity - 1) : u[a] = u[b] => a = b
    <3>1. \A a, b \in 0..(Capacity - 1) : s(a) = s(b) => a = b
      BY <1>0, <1>2, <2>1
    <3> HIDE DEF s
    <3> SUFFICES ASSUME NEW a \in 0..(Capacity - 1), NEW b \in 0..(Capacity - 1), u[a] = u[b]
                 PROVE  a = b
      OBVIOUS
    <3>2. w[s(a)] = w[s(b)] /\ s(a) \in 0..(Capacity - 1) /\ s(b) \in 0..(Capacity - 1)
      BY <2>2, <2>3
    <3>3. s(a) = s(b)
      BY <1>1, <3>2
    <3> QED BY <3>1, <3>3
  <2>8. ASSUME NEW a \in 0..(Capacity - 1) PROVE l2[u[a]].next = u[a + 1] /\ l2[u[a + 1]].last = u[a]
    <3>0. /\ \A k \in Index : /\ l2[k].next = (IF k = i THEN head ELSE IF k = w[m - 1] THEN i
                                                ELSE IF k = w[pp] THEN w[p + 1] ELSE l[k].next)
                               /\ l2[k].last = (IF k = head THEN i ELSE IF k = i THEN w[m - 1]
                                                ELSE IF k = w[p + 1] THEN w[pp] ELSE l[k].last)
      BY <1>7, <1>10
    <3>1. ASSUME NEW b \in 0..(Capacity - 1)
          PROVE  /\ w[b] \in Index
                 /\ l2[w[b]].next = (IF b = p THEN w[m] ELSE IF b = m - 1 THEN w[p]
                                     ELSE IF b = pp THEN w[p + 1] ELSE w[b + 1])
      <4>1. w[b] \in Index /\ m - 1 \in 0..(Capacity - 1)
        BY <1>0, <1>1, <1>2
      <4> HIDE DEF p, m, pp, i
      <4> QED BY <1>1, <1>2, <1>3, <3>0, <4>1
    <3>2. ASSUME NEW b \in 0..(Capacity - 1)
          PROVE  l2[w[b]].last = (IF b = m THEN w[p] ELSE IF b = p THEN w[m - 1]
                                  ELSE IF b = p + 1 THEN w[pp]
                                  ELSE IF b = 0 THEN w[Capacity - 1] ELSE w[b - 1])
      <4>1. w[b] \in Index /\ m \in 0..(Capacity - 1) /\ p + 1 \in 0..(Capacity - 1)
        <5>1. w[b] \in Index
          BY <1>0, <1>1
        <5> HIDE DEF p, m
        <5> QED BY <1>0, <1>2, <2>1, <5>1
      <4>2. l[w[b]].last = IF b = 0 THEN w[Capacity - 1] ELSE w[b - 1]
        <5>1. CASE b = 0
          <6>1. Capacity - 1 \in 0..(Capacity - 1) /\ (Capacity - 1) + 1 = Capacity
            BY <1>0
          <6> QED BY <1>1, <5>1, <6>1
        <5>2. CASE b # 0
          <6>1. b - 1 \in 0..(Capacity - 1) /\ (b - 1) + 1 = b
            BY <1>0, <5>2
          <6> QED BY <1>1, <5>2, <6>1
        <5> QED BY <5>1, <5>2
      <4> HIDE DEF p, m, pp, i
      <4> QED BY <1>1, <1>2, <1>3, <3>0, <4>1, <4>2
    <3>3. u[a] = w[s(a)] /\ s(a) \in 0..(Capacity - 1)
      BY <2>2, <2>3
    <3>4. CASE a = Capacity - 1
      <4>1. u[a + 1] = w[s(0)] /\ s(0) \in 0..(Capacity - 1) /\ s(a) = Capacity - 1
        <5>1. a + 1 = Capacity /\ s(a) = Capacity - 1
          BY <1>0, <1>2, <2>1, <3>4
        <5> HIDE DEF s
        <5> QED BY <2>2, <2>4, <5>1
      <4>2. CASE p = 0
        <5>1. s(0) = 1 /\ p + 1 = 1 /\ pp = Capacity - 1 /\ Capacity - 1 # p /\ Capacity - 1 # m - 1 /\ m # 1
          <6> HIDE DEF p, m
          <6> QED BY <1>0, <1>2, <2>1, <4>2
        <5> HIDE DEF s, p, m, pp, i
        <5> QED BY <3>1, <3>2, <3>3, <4>1, <5>1
      <4>3. CASE p # 0
        <5>1. /\ s(0) = 0 /\ pp # Capacity - 1 /\ Capacity - 1 # p /\ Capacity - 1 # m - 1 /\ m # 0
              /\ p + 1 # 0 /\ (Capacity - 1) + 1 = Capacity
          BY <1>0, <1>2, <2>1, <4>3
        <5> HIDE DEF s, p, m, pp, i
        <5> QED BY <1>1, <3>1, <3>2, <3>3, <4>1, <4>3, <5>1
      <4> QED BY <4>2, <4>3
    <3>5. CASE a # Capacity - 1
      <4>1. u[a + 1] = w[s(a + 1)] /\ s(a + 1) \in 0..(Capacity - 1)
        <5>1. a + 1 \in 0..(Capacity - 1)
          BY <1>0, <3>5
        <5> HIDE DEF s
        <5> QED BY <2>2, <2>3, <5>1
      <4> DEFINE x == s(a)
                 y == s(a + 1)
      <4>2. /\ w[y] = (IF x = p THEN w[m] ELSE IF x = m - 1 THEN w[p]
                       ELSE IF x = pp THEN w[p + 1] ELSE w[x + 1])
            /\ w[x] = (IF y = m THEN w[p] ELSE IF y = p THEN w[m - 1]
                       ELSE IF y = p + 1 THEN w[pp]
                       ELSE IF y = 0 THEN w[Capacity - 1] ELSE w[y - 1])
        <5>1. CASE a = m - 1
          <6>1. x = p /\ y = m
            BY <1>0, <1>2, <2>1, <5>1
          <6> QED BY <6>1
        <5>2. CASE a = m - 2
          <6>1. x # p /\ x = m - 1 /\ y = p /\ y # m
            BY <1>0, <1>2, <2>1, <5>2
          <6> QED BY <6>1
        <5>3. CASE a + 1 = p
          <6>1. x # p /\ x # m - 1 /\ x = pp /\ y = p + 1 /\ y # m /\ y # p
            BY <1>0, <1>2, <2>1, <5>3
          <6> QED BY <6>1
        <5>4. CASE a # m - 1 /\ a # m - 2 /\ a + 1 # p
          <6>1. /\ x # p /\ x # m - 1 /\ x # pp /\ y = x + 1 /\ y # m /\ y # p /\ y # p + 1 /\ y # 0
                /\ y - 1 = x
            BY <1>0, <1>2, <2>1, <3>5, <5>4
          <6> QED BY <6>1
        <5> QED BY <5>1, <5>2, <5>3, <5>4
      <4>3. x \in 0..(Capacity - 1) /\ y \in 0..(Capacity - 1) /\ u[a] = w[x] /\ u[a + 1] = w[y]
        BY <3>3, <4>1
      <4> HIDE DEF x, y, s, p, m, pp, i
      <4> QED BY <3>1, <3>2, <4>2, <4>3
    <3> QED BY <3>4, <3>5
  <2>9. ASSUME NEW a \in 1..m PROVE u[a - 1] = o2[a]
    <3>1. a - 1 \in 0..(Capacity - 1)
      BY <1>0, <1>2
    <3>2. CASE a = m
      BY <1>1, <1>2, <1>3, <1>8, <2>1, <2>3, <3>1, <3>2
    <3>3. CASE a < q
      <4>1. s(a - 1) = a - 1 /\ a # m
        BY <1>2, <2>1, <3>3
      <4> QED BY <1>1, <1>8, <2>3, <3>1, <3>3, <4>1
    <3>4. CASE a # m /\ ~ (a < q)
      <4>1. s(a - 1) = a /\ a + 1 \in 1..m /\ (a + 1) - 1 = a
        BY <1>2, <2>1, <3>4
      <4> QED BY <1>1, <1>8, <2>3, <3>1, <3>4, <4>1
    <3> QED BY <3>2, <3>3, <3>4
  <2>10. u[m] = head
    <3>1. m \in 0..(Capacity - 1) /\ s(m) = m
      BY <1>0, <1>2
    <3> QED BY <1>1, <2>3, <3>1
  <2>11. Ringed(u, l2, head, TailAfterMove(i), o2)
    <3> HIDE DEF s
    <3> QED BY <1>1, <1>8, <2>3, <2>4, <2>5, <2>6, <2>7, <2>8, <2>9, <2>10 DEF Ringed
  <2> QED BY <1>7, <2>5, <2>11 DEF l2, o2
<1> QED
  BY <1>9, <1>10

\* Filling the node at head: write_adjust leaves a ring in the new order, and the cache
\* is full exactly when the node after head is the tail.
LEMMA RingWritten ==
  ASSUME NEW w, NEW l \in [Index -> ListNode], head \in Index, order \in Seq(Index),
         Ringed(w, l, head, tail, order)
  PROVE  /\ tail = l[head].next <=> Len(order) = Capacity - 1
         /\ head \notin Range(order)
         /\ tail = l[head].next =>
              /\ order # <<>> /\ order[1] = tail
              /\ \E u \in [0..Capacity -> Index] :
                   Ringed(u, l, tail, l[tail].next, Append(Tail(order), head))
         /\ tail # l[head].next =>
              Ringed(w, l, l[head].next, tail, Append(order, head))
<1> DEFINE m == Len(order)
<1>0. Capacity \in Nat /\ Capacity >= 2 /\ m \in Nat
  BY LruAssumption
<1>1. /\ w \in [0..Capacity -> Index] /\ w[0] = tail /\ w[Capacity] = tail
      /\ \A a, b \in 0..(Capacity - 1) : w[a] = w[b] => a = b
      /\ \A a \in 0..(Capacity - 1) : l[w[a]].next = w[a + 1] /\ l[w[a + 1]].last = w[a]
      /\ m <= Capacity - 1
      /\ \A a \in 1..m : w[a - 1] = order[a]
      /\ w[m] = head
  BY DEF Ringed
<1>2. m \in 0..(Capacity - 1) /\ l[head].next = w[m + 1]
  <2>1. m \in 0..(Capacity - 1)
    BY <1>0, <1>1
  <2> QED BY <1>1, <2>1
<1>3. tail = l[head].next <=> m = Capacity - 1
  <2>1. CASE m = Capacity - 1
    <3>1. m + 1 = Capacity
      BY <1>0, <2>1
    <3> QED BY <1>1, <1>2, <2>1, <3>1
  <2>2. CASE m # Capacity - 1
    <3>1. m + 1 \in 0..(Capacity - 1) /\ m + 1 # 0 /\ 0 \in 0..(Capacity - 1)
      <4> HIDE DEF m
      <4> QED BY <1>0, <1>2, <2>2
    <3> QED BY <1>1, <1>2, <2>2, <3>1
  <2> QED BY <2>1, <2>2
<1>4. head \notin Range(order)
  <2> SUFFICES ASSUME NEW a \in 1..m, order[a] = head PROVE FALSE
    BY DEF Range
  <2>1. a - 1 \in 0..(Capacity - 1) /\ a - 1 # m
    BY <1>0, <1>2
  <2> QED BY <1>1, <1>2, <2>1
<1>5. ASSUME tail = l[head].next
      PROVE  /\ order # <<>> /\ order[1] = tail
             /\ \E u \in [0..Capacity -> Index] :
                  Ringed(u, l, tail, l[tail].next, Append(Tail(order), head))
  <2>1. m = Capacity - 1 /\ m >= 1
    BY <1>0, <1>3, <1>5
  <2>2. order # <<>> /\ order[1] = tail
    <3>1. 1 \in 1..m /\ 1 - 1 = 0
      BY <1>0, <2>1
    <3> QED BY <1>1, <3>1
  <2> DEFINE o2 == Append(Tail(order), head)
             u == [n \in 0..Capacity |-> IF n = Capacity THEN w[1] ELSE w[n + 1]]
  <2>3. /\ o2 \in Seq(Index) /\ Len(o2) = m
        /\ \A k \in 1..m : o2[k] = IF k = m THEN head ELSE order[k + 1]
    BY <2>1
  <2>4. u \in [0..Capacity -> Index]
    <3>1. 1 \in 0..Capacity /\ \A n \in 0..Capacity : n # Capacity => n + 1 \in 0..Capacity
      BY <1>0
    <3> QED BY <1>1, <3>1
  <2>5. /\ \A n \in 0..(Capacity - 1) : u[n] = w[n + 1]
        /\ u[Capacity] = w[1] /\ u[0] = w[1]
    BY <1>0
  <2> HIDE DEF u, o2
  <2>6. l[tail].next = w[1]
    <3>1. 0 \in 0..(Capacity - 1) /\ 0 + 1 = 1
      BY <1>0
    <3> QED BY <1>1, <3>1
  <2>7. \A a, b \in 0..(Capacity - 1) : u[a] = u[b] => a = b
    <3> SUFFICES ASSUME NEW a \in 0..(Capacity - 1), NEW b \in 0..(Capacity - 1), u[a] = u[b]
                 PROVE  a = b
      OBVIOUS
    <3>1. w[a + 1] = w[b + 1]
      BY <2>5
    <3>2. \A n \in 0..(Capacity - 1) : n + 1 = Capacity \/ (n + 1 \in 0..(Capacity - 1) /\ n + 1 # 0)
      BY <1>0
    <3>3. w[Capacity] = w[0] /\ 0 \in 0..(Capacity - 1)
      BY <1>0, <1>1
    <3>4. a + 1 = b + 1
      BY <1>1, <3>1, <3>2, <3>3
    <3> QED BY <3>4
  <2>8. ASSUME NEW a \in 0..(Capacity - 1) PROVE l[u[a]].next = u[a + 1] /\ l[u[a + 1]].last = u[a]
    <3>1. CASE a + 1 = Capacity
      <4>1. u[a] = w[0] /\ u[a + 1] = w[1] /\ 0 \in 0..(Capacity - 1) /\ 0 + 1 = 1
        BY <1>0, <1>1, <2>5, <3>1
      <4> QED BY <1>1, <4>1
    <3>2. CASE a + 1 # Capacity
      <4>1. a + 1 \in 0..(Capacity - 1)
        BY <1>0, <3>2
      <4> QED BY <1>1, <2>5, <4>1
    <3> QED BY <3>1, <3>2
  <2>9. ASSUME NEW a \in 1..m PROVE u[a - 1] = o2[a]
    <3>1. a - 1 \in 0..(Capacity - 1) /\ (a - 1) + 1 = a
      BY <1>0, <1>2
    <3>2. u[a - 1] = w[a]
      BY <2>5, <3>1
    <3>3. CASE a = m
      BY <1>1, <2>3, <3>2, <3>3
    <3>4. CASE a # m
      <4>1. a + 1 \in 1..m /\ (a + 1) - 1 = a
        BY <1>0, <3>4
      <4> QED BY <1>1, <2>3, <3>2, <3>4, <4>1
    <3> QED BY <3>3, <3>4
  <2>10. u[m] = tail
    <3>1. m + 1 = Capacity
      BY <1>0, <2>1
    <3> QED BY <1>1, <1>2, <2>5, <3>1
  <2>11. Ringed(u, l, tail, l[tail].next, o2)
    BY <1>1, <2>3, <2>4, <2>5, <2>6, <2>7, <2>8, <2>9, <2>10 DEF Ringed
  <2> QED BY <2>2, <2>4, <2>11 DEF o2
<1>6. ASSUME tail # l[head].next PROVE Ringed(w, l, l[head].next, tail, Append(order, head))
  <2> DEFINE o2 == Append(order, head)
  <2>1. /\ Len(o2) = m + 1
        /\ \A k \in 1..m : o2[k] = order[k]
        /\ o2[m + 1] = head
    BY <1>0
  <2> HIDE DEF o2
  <2>2. m + 1 <= Capacity - 1
    BY <1>0, <1>1, <1>3, <1>6
  <2>3. ASSUME NEW a \in 1..(m + 1) PROVE w[a - 1] = o2[a]
    <3>1. a \in 1..m \/ a = m + 1
      BY <1>0
    <3>2. (m + 1) - 1 = m
      BY <1>0
    <3> QED BY <1>1, <2>1, <3>1, <3>2
  <2>4. Ringed(w, l, l[head].next, tail, o2)
    BY <1>1, <1>2, <2>1, <2>2, <2>3 DEF Ringed
  <2> QED BY <2>4 DEF o2
<1> QED
  BY <1>3, <1>4, <1>5, <1>6

\* Only the links make a ring.
LEMMA RingSame ==
  ASSUME NEW w, NEW l, NEW k, NEW h, NEW t, NEW o, Ringed(w, l, h, t, o),
         \A i \in Index : k[i].next = l[i].next /\ k[i].last = l[i].last
  PROVE  Ringed(w, k, h, t, o)
<1>1. \A n \in 0..(Capacity - 1) : n \in 0..Capacity /\ n + 1 \in 0..Capacity
  BY LruAssumption
<1>2. \A n \in 0..(Capacity - 1) : w[n] \in Index /\ w[n + 1] \in Index
  BY <1>1 DEF Ringed
<1> QED
  BY <1>2 DEF Ringed

-----------------------------------------------------------------------------
(* The order of use.                                                       *)

\* No node is in the order twice.
LEMMA OrderDistinct ==
  ASSUME RingInv, order \in Seq(Index)
  PROVE  \A a, b \in 1..Len(order) : order[a] = order[b] => a = b
<1>1. PICK w \in [0..Capacity -> Index] : Ringed(w, list, head, tail, order)
  BY DEF RingInv
<1> SUFFICES ASSUME NEW a \in 1..Len(order), NEW b \in 1..Len(order), order[a] = order[b]
             PROVE  a = b
  OBVIOUS
<1>2. w[a - 1] = w[b - 1] /\ Len(order) <= Capacity - 1
  BY <1>1 DEF Ringed
<1>3. a - 1 \in 0..(Capacity - 1) /\ b - 1 \in 0..(Capacity - 1)
  BY <1>2, LruAssumption
<1>4. a - 1 = b - 1
  BY <1>1, <1>2, <1>3 DEF Ringed
<1> QED
  BY <1>4

\* Used moves a node in use to the end.
LEMMA UsedIs ==
  ASSUME RingInv, order \in Seq(Index), NEW q \in 1..Len(order)
  PROVE  Used(order[q]) = Append(RemoveAt(order, q), order[q])
<1> DEFINE p == CHOOSE n \in 1..Len(order) : order[n] = order[q]
<1>1. p \in 1..Len(order) /\ order[p] = order[q]
  OBVIOUS
<1>2. p = q
  <2> HIDE DEF p
  <2> QED BY <1>1, OrderDistinct
<1>3. order[q] \in Range(order)
  BY DEF Range
<1> QED
  BY <1>2, <1>3 DEF Used

LEMMA RangeIs ==
  ASSUME NEW s \in Seq(Index)
  PROVE  /\ \A k \in 1..Len(s) : s[k] \in Range(s)
         /\ \A e \in Range(s) : \E k \in 1..Len(s) : s[k] = e
         /\ Range(s) \subseteq Index
  BY DEF Range

\* Using an entry again keeps the set of entries in use and the order of the others.
LEMMA AgainKeeps ==
  ASSUME NEW s \in Seq(Index), NEW q \in 1..Len(s)
  PROVE  LET u == Append(RemoveAt(s, q), s[q])
         IN  /\ Range(u) = Range(s)
             /\ \A i, j : i # s[q] /\ UsedBefore(s, i, j) => UsedBefore(u, i, j)
             /\ \A i \in Range(s) \ {s[q]} : UsedBefore(u, i, s[q])
<1> DEFINE u == Append(RemoveAt(s, q), s[q])
           pos(k) == IF k = q THEN Len(s) ELSE IF k < q THEN k ELSE k - 1
<1>1. /\ u \in Seq(Index) /\ Len(u) = Len(s)
      /\ \A k \in 1..Len(s) : u[k] = IF k = Len(s) THEN s[q] ELSE IF k < q THEN s[k] ELSE s[k + 1]
  BY UsedAgain
<1> HIDE DEF u
<1>2. ASSUME NEW k \in 1..Len(s) PROVE pos(k) \in 1..Len(s) /\ u[pos(k)] = s[k]
  <2>1. CASE k = q
    BY <1>1, <2>1
  <2>2. CASE k < q
    <3>1. pos(k) = k /\ k # Len(s)
      BY <2>2
    <3> QED BY <1>1, <2>2, <3>1
  <2>3. CASE q < k
    <3>1. pos(k) = k - 1 /\ k - 1 \in 1..Len(s) /\ k - 1 # Len(s) /\ ~ (k - 1 < q) /\ (k - 1) + 1 = k
      BY <2>3
    <3> QED BY <1>1, <3>1
  <2> QED BY <2>1, <2>2, <2>3
<1>3. ASSUME NEW k \in 1..Len(u) PROVE u[k] \in Range(s)
  <2>1. k = Len(s) \/ k < q \/ (k # Len(s) /\ ~ (k < q) /\ k + 1 \in 1..Len(s))
    BY <1>1
  <2>2. \A a \in 1..Len(s) : s[a] \in Range(s)
    BY RangeIs
  <2> QED BY <1>1, <2>1, <2>2
<1>4. Range(u) = Range(s)
  <2> HIDE DEF pos
  <2>1. ASSUME NEW k \in 1..Len(s) PROVE s[k] \in Range(u)
    <3>1. pos(k) \in 1..Len(u) /\ u[pos(k)] = s[k]
      BY <1>1, <1>2
    <3> QED BY <1>1, <3>1, RangeIs
  <2>2. \A e \in Range(s) : e \in Range(u)
    BY <2>1, RangeIs
  <2>3. \A e \in Range(u) : e \in Range(s)
    BY <1>1, <1>3, RangeIs
  <2> QED BY <2>2, <2>3
<1>5. ASSUME NEW i, NEW j, i # s[q], UsedBefore(s, i, j) PROVE UsedBefore(u, i, j)
  <2>1. PICK m \in 1..Len(s) : \E n \in 1..Len(s) : m < n /\ s[m] = i /\ s[n] = j
    BY <1>5 DEF UsedBefore
  <2>2. PICK n \in 1..Len(s) : m < n /\ s[m] = i /\ s[n] = j
    BY <2>1
  <2>3. pos(m) < pos(n)
    <3>1. m # q
      BY <1>5, <2>2
    <3> QED BY <2>2, <3>1
  <2> HIDE DEF pos
  <2> QED BY <1>1, <1>2, <2>2, <2>3 DEF UsedBefore
<1>6. ASSUME NEW i \in Range(s) \ {s[q]} PROVE UsedBefore(u, i, s[q])
  <2>1. PICK m \in 1..Len(s) : s[m] = i /\ m # q
    BY <1>6 DEF Range
  <2>2. pos(m) < pos(q)
    BY <2>1
  <2> HIDE DEF pos
  <2> QED BY <1>1, <1>2, <2>1, <2>2 DEF UsedBefore
<1> QED
  BY <1>4, <1>5, <1>6 DEF u

\* A new node becomes the last, and a full order loses its first.
LEMMA NewKeeps ==
  ASSUME NEW s \in Seq(Index), NEW i \in Index
  PROVE  LET u == Append(s, i)
         IN  /\ u \in Seq(Index) /\ Range(u) = Range(s) \cup {i}
             /\ \A a, b : UsedBefore(s, a, b) => UsedBefore(u, a, b)
             /\ \A a \in Range(s) : UsedBefore(u, a, i)
<1> DEFINE u == Append(s, i)
<1>1. /\ u \in Seq(Index) /\ Len(u) = Len(s) + 1
      /\ \A k \in 1..Len(s) : u[k] = s[k]
      /\ u[Len(s) + 1] = i
  OBVIOUS
<1> HIDE DEF u
<1>2. \A k \in 1..(Len(s) + 1) : k \in 1..Len(s) \/ k = Len(s) + 1
  OBVIOUS
<1>3. \A k \in 1..Len(s) : k \in 1..(Len(s) + 1) /\ k < Len(s) + 1 /\ Len(s) + 1 \in 1..(Len(s) + 1)
  OBVIOUS
<1>4. Range(u) = Range(s) \cup {i}
  <2>1. \A k \in 1..Len(u) : u[k] \in Range(s) \cup {i}
    BY <1>1, <1>2 DEF Range
  <2>2. \A k \in 1..Len(s) : s[k] \in Range(u)
    BY <1>1, <1>3 DEF Range
  <2>3. i \in Range(u)
    <3>1. Len(s) + 1 \in 1..(Len(s) + 1)
      OBVIOUS
    <3> QED BY <1>1, <3>1 DEF Range
  <2> QED BY <2>1, <2>2, <2>3, <1>1 DEF Range
<1>5. ASSUME NEW a, NEW b, UsedBefore(s, a, b) PROVE UsedBefore(u, a, b)
  BY <1>1, <1>3, <1>5 DEF UsedBefore
<1>6. ASSUME NEW a \in Range(s) PROVE UsedBefore(u, a, i)
  <2>1. PICK k \in 1..Len(s) : s[k] = a
    BY DEF Range
  <2> QED BY <1>1, <1>3, <2>1 DEF UsedBefore
<1> QED
  BY <1>1, <1>4, <1>5, <1>6 DEF u

LEMMA TailKeeps ==
  ASSUME NEW s \in Seq(Index), s # <<>>, \A a, b \in 1..Len(s) : s[a] = s[b] => a = b
  PROVE  /\ Tail(s) \in Seq(Index) /\ Range(Tail(s)) = Range(s) \ {s[1]}
         /\ \A i, j : i # s[1] /\ UsedBefore(s, i, j) => UsedBefore(Tail(s), i, j)
<1> DEFINE u == Tail(s)
<1>1. u \in Seq(Index) /\ Len(u) = Len(s) - 1 /\ \A k \in 1..(Len(s) - 1) : u[k] = s[k + 1]
  OBVIOUS
<1> HIDE DEF u
<1>2. Len(s) \in Nat /\ Len(s) >= 1
  OBVIOUS
<1>3. ASSUME NEW k \in 1..Len(s), s[k] # s[1] PROVE k - 1 \in 1..(Len(s) - 1) /\ u[k - 1] = s[k]
  <2>1. k # 1
    BY <1>3
  <2>2. k - 1 \in 1..(Len(s) - 1) /\ (k - 1) + 1 = k
    BY <1>2, <2>1
  <2> QED BY <1>1, <2>2
<1>4. ASSUME NEW k \in 1..(Len(s) - 1) PROVE u[k] \in Range(s) \ {s[1]}
  <2>1. k + 1 \in 1..Len(s) /\ 1 \in 1..Len(s) /\ k + 1 # 1
    BY <1>2
  <2>2. s[k + 1] # s[1] /\ s[k + 1] \in Range(s)
    BY <2>1 DEF Range
  <2> QED BY <1>1, <2>2
<1>5. Range(u) = Range(s) \ {s[1]}
  <2>1. \A k \in 1..Len(s) : s[k] # s[1] => s[k] \in Range(u)
    BY <1>1, <1>3 DEF Range
  <2> QED BY <1>1, <1>4, <2>1 DEF Range
<1>6. ASSUME NEW i, NEW j, i # s[1], UsedBefore(s, i, j) PROVE UsedBefore(u, i, j)
  <2>1. PICK m \in 1..Len(s) : \E n \in 1..Len(s) : m < n /\ s[m] = i /\ s[n] = j
    BY <1>6 DEF UsedBefore
  <2>2. PICK n \in 1..Len(s) : m < n /\ s[m] = i /\ s[n] = j
    BY <2>1
  <2>3. s[n] # s[1]
    <3>1. n # 1 /\ 1 \in 1..Len(s)
      BY <1>2, <2>2
    <3> QED BY <3>1
  <2>4. m - 1 < n - 1
    BY <2>2
  <2> QED BY <1>1, <1>3, <1>6, <2>2, <2>3, <2>4 DEF UsedBefore
<1> QED
  BY <1>1, <1>5, <1>6 DEF u

-----------------------------------------------------------------------------
(* What a call finds.                                                      *)

\* A bucket that holds an item leads to a node in use and back.
LEMMA HeldBucket ==
  ASSUME LruInv, NEW x \in Items, NEW b \in Buckets, Holds(b, x)
  PROVE  /\ \E q \in 1..Len(order) : order[q] = hash[b].index
         /\ hash[b].index \in Range(order) /\ hash[b].index \in Index
         /\ list[hash[b].index].bucket = b /\ list[hash[b].index].key = x[1]
         /\ ItemIn(hash, b) = x /\ hash[b].key # 0
         /\ OnPath(x[1], b) /\ list[hash[b].index].v \in Values[x]
<1>1. hash[b].key # 0 /\ ItemIn(hash, b) = x
  BY LruAssumption DEF Holds, ItemIn
<1>2. hash[b].index \in Range(order) /\ list[hash[b].index].bucket = b
  BY <1>1 DEF LruInv, Coupled
<1>3. order \in Seq(Index)
  BY DEF LruInv, LruTypeOK
<1>4. (\E q \in 1..Len(order) : order[q] = hash[b].index) /\ hash[b].index \in Index
  BY <1>2, <1>3, RangeIs
<1>5. list[hash[b].index].key = x[1]
  BY <1>2 DEF LruInv, Coupled, Holds
<1>6. hash[b] # NoHash
  BY <1>1, NoHashIs
<1>7. OnPath(hash[b].key, b) /\ list[hash[b].index].v \in Values[ItemIn(hash, b)]
  BY <1>6 DEF LruInv, BucketInv
<1> QED
  BY <1>1, <1>2, <1>4, <1>5, <1>7 DEF Holds

\* A node in use leads to a bucket with an item and back.
LEMMA UsedNode ==
  ASSUME LruInv, NEW i \in Range(order)
  PROVE  /\ i \in Index /\ list[i].bucket \in Buckets /\ hash[list[i].bucket].index = i
         /\ hash[list[i].bucket].key = list[i].key
         /\ ItemIn(hash, list[i].bucket) \in Items
         /\ Holds(list[i].bucket, ItemIn(hash, list[i].bucket))
<1> DEFINE b == list[i].bucket
<1>1. b \in Buckets /\ hash[b].index = i /\ hash[b].key = list[i].key
  BY DEF LruInv, Coupled
<1>2. i \in Index
  BY RangeIs DEF LruInv, LruTypeOK
<1>3. hash[b] # NoHash
  BY <1>1, <1>2, InvalidIndex, NoHashIs
<1>4. ItemIn(hash, b) \in Items
  BY <1>1, <1>3 DEF LruInv, BucketInv
<1> QED
  BY <1>1, <1>2, <1>4 DEF Holds, ItemIn

\* get: the bucket found holds the item.
LEMMA GetFound ==
  ASSUME LruInv, NEW x \in Items, get_probing_bucket(x) # INVALID_INDEX
  PROVE  /\ get_probing_bucket(x) \in Buckets /\ Holds(get_probing_bucket(x), x)
         /\ \E n \in Probes : /\ quadratic_probing(x[1], n) = get_probing_bucket(x)
                              /\ \A m \in Probes : \A c \in Buckets :
                                   quadratic_probing(x[1], m) = c /\ Holds(c, x) => n <= m
<1> DEFINE bs == {b \in Buckets : Holds(b, x)}
<1>1. FirstProbed(x[1], bs) # INVALID_INDEX /\ get_probing_bucket(x) = FirstProbed(x[1], bs)
  BY DEF get_probing_bucket
<1>2. /\ FirstProbed(x[1], bs) \in bs
      /\ \E n \in Probes : /\ quadratic_probing(x[1], n) = FirstProbed(x[1], bs)
                           /\ \A m \in Probes : quadratic_probing(x[1], m) \in bs => n <= m
  <2> HIDE DEF bs
  <2> QED BY <1>1, FirstProbedFound
<1> QED
  BY <1>1, <1>2

\* get: an item that is not found is in no node in use.
LEMMA GetNotFound ==
  ASSUME LruInv, NEW x \in Items, get_probing_bucket(x) = INVALID_INDEX
  PROVE  \A b \in Buckets : ~ Holds(b, x)
<1> DEFINE bs == {b \in Buckets : Holds(b, x)}
<1>1. FirstProbed(x[1], bs) = INVALID_INDEX /\ INVALID_INDEX \notin bs
  BY InvalidIndex DEF get_probing_bucket
<1>2. \A n \in Probes : quadratic_probing(x[1], n) \notin bs
  <2> HIDE DEF bs
  <2> QED BY <1>1, FirstProbedNone
<1> SUFFICES ASSUME NEW b \in Buckets, Holds(b, x) PROVE FALSE
  OBVIOUS
<1>3. OnPath(x[1], b)
  BY HeldBucket
<1> QED
  BY <1>2, <1>3 DEF OnPath

\* The invariant keeps get from finding an overwritten entry.
LEMMA FindsFresh ==
  ASSUME LruInv PROVE Fresh
<1> SUFFICES ASSUME NEW x \in Items, get_probing_bucket(x) # INVALID_INDEX,
                    hash[get_probing_bucket(x)].index \in stale
             PROVE  FALSE
  BY DEF Fresh
<1> DEFINE b == get_probing_bucket(x)
           i == hash[b].index
<1>1. /\ b \in Buckets /\ Holds(b, x)
      /\ \E n \in Probes : /\ quadratic_probing(x[1], n) = b
                           /\ \A m \in Probes : \A c \in Buckets :
                                quadratic_probing(x[1], m) = c /\ Holds(c, x) => n <= m
  BY GetFound
<1> HIDE DEF b
<1>2. list[i].bucket = b /\ ItemIn(hash, b) = x
  BY <1>1, HeldBucket
<1>3. PICK j \in Range(order) \ stale :
        /\ UsedBefore(order, i, j)
        /\ ItemIn(hash, list[j].bucket) = ItemIn(hash, list[i].bucket)
        /\ Sooner(hash[list[i].bucket].key, list[j].bucket, list[i].bucket)
  BY DEF LruInv, StaleInv, b
<1>4. list[j].bucket \in Buckets /\ Holds(list[j].bucket, x)
  BY <1>2, <1>3, UsedNode
<1>5. Sooner(x[1], list[j].bucket, b)
  BY <1>1, <1>2, <1>3 DEF Holds
<1>6. PICK n \in Probes : /\ quadratic_probing(x[1], n) = b
                          /\ \A m \in Probes : \A c \in Buckets :
                               quadratic_probing(x[1], m) = c /\ Holds(c, x) => n <= m
  BY <1>1
<1>7. PICK m \in Probes : /\ quadratic_probing(x[1], m) = list[j].bucket
                          /\ \A k \in Probes : quadratic_probing(x[1], k) = b => m < k
  BY <1>5 DEF Sooner
<1>8. n <= m /\ m < n /\ n \in Nat /\ m \in Nat
  BY <1>4, <1>6, <1>7, LruAssumption DEF Probes
<1> QED
  BY <1>8

\* put: the bucket found is empty, or holds the item, which is overwritten.
LEMMA PutFound ==
  ASSUME LruInv, NEW x \in Items, NEW overwrite \in Overwrites, NEW b,
         b = put_probing_bucket(x, overwrite), b # INVALID_INDEX
  PROVE  /\ b \in Buckets /\ OnPath(x[1], b)
         /\ \/ hash[b] = NoHash /\ PutIndex(b, x) = head
            \/ overwrite /\ Holds(b, x) /\ PutIndex(b, x) = hash[b].index
         /\ overwrite => \A c \in Buckets : Holds(c, x) /\ c # b => Sooner(x[1], b, c)
<1> DEFINE bs == {c \in Buckets : hash[c].key = 0 \/ (Holds(c, x) /\ overwrite)}
<1>1. FirstProbed(x[1], bs) # INVALID_INDEX /\ b = FirstProbed(x[1], bs)
  BY DEF put_probing_bucket
<1>2. /\ b \in bs
      /\ \E n \in Probes : /\ quadratic_probing(x[1], n) = b
                           /\ \A m \in Probes : quadratic_probing(x[1], m) \in bs => n <= m
  <2> HIDE DEF bs
  <2> QED BY <1>1, FirstProbedFound
<1>3. b \in Buckets /\ (hash[b].key = 0 \/ (Holds(b, x) /\ overwrite)) /\ OnPath(x[1], b)
  BY <1>2 DEF OnPath
<1> DEFINE Found == \/ hash[b] = NoHash /\ PutIndex(b, x) = head
                    \/ overwrite /\ Holds(b, x) /\ PutIndex(b, x) = hash[b].index
<1>4. ASSUME hash[b].key = 0 PROVE Found
  <2>1. hash[b] = NoHash
    <3>1. ItemIn(hash, b) \notin Items
      BY <1>4, LruAssumption DEF ItemIn
    <3> QED BY <1>3, <3>1 DEF LruInv, BucketInv
  <2>2. PutIndex(b, x) = head
    BY <2>1, NoHashIs DEF PutIndex
  <2> QED BY <2>1, <2>2
<1>5. ASSUME Holds(b, x) /\ overwrite PROVE Found
  <2>1. hash[b].index \in Index /\ list[hash[b].index].key = x[1]
    BY <1>3, <1>5, HeldBucket
  <2>2. PutIndex(b, x) = hash[b].index
    BY <2>1, InvalidIndex DEF PutIndex
  <2> QED BY <1>5, <2>2
<1>6. ASSUME overwrite, NEW c \in Buckets, Holds(c, x), c # b PROVE Sooner(x[1], b, c)
  <2>1. PICK n \in Probes : /\ quadratic_probing(x[1], n) = b
                            /\ \A m \in Probes : quadratic_probing(x[1], m) \in bs => n <= m
    BY <1>2
  <2>2. ASSUME NEW m \in Probes, quadratic_probing(x[1], m) = c PROVE n < m
    <3>1. n <= m
      BY <1>6, <2>1, <2>2
    <3>2. n # m
      BY <1>6, <2>1, <2>2
    <3>3. n \in Nat /\ m \in Nat
      BY LruAssumption DEF Probes
    <3> QED BY <3>1, <3>2, <3>3
  <2> QED BY <2>1, <2>2 DEF Sooner
<1> QED
  BY <1>3, <1>4, <1>5, <1>6

-----------------------------------------------------------------------------
(* The two kinds of step: a node in use is used again, and a new one.      *)

\* A node in use is used again: get, and put on a bucket that holds the item.
LEMMA UseStep ==
  ASSUME LruInv, NEW q \in 1..Len(order), NEW l \in [Index -> ListNode],
         \A k \in Index : /\ l[k].next = list[k].next /\ l[k].last = list[k].last
                          /\ l[k].key = list[k].key /\ l[k].bucket = list[k].bucket,
         hash' = hash, ReadAdjust(l, order[q]), order' = Used(order[q])
  PROVE  /\ order' = Append(RemoveAt(order, q), order[q])
         /\ order' \in Seq(Index) /\ Len(order') = Len(order) /\ Range(order') = Range(order)
         /\ SameEntries(l, list') /\ head' = head /\ tail' \in Index
         /\ RingInv' /\ Coupled'
         /\ \A i, j : i # order[q] /\ UsedBefore(order, i, j) => UsedBefore(order', i, j)
         /\ \A i \in Range(order) \ {order[q]} : UsedBefore(order', i, order[q])
<1>1. /\ LruTypeOK /\ RingInv /\ Coupled
      /\ order \in Seq(Index) /\ list \in [Index -> ListNode] /\ head \in Index
  BY DEF LruInv, LruTypeOK
<1>2. order' = Append(RemoveAt(order, q), order[q])
  BY <1>1, UsedIs
<1>3. order' \in Seq(Index) /\ Len(order') = Len(order)
  BY <1>1, <1>2, UsedAgain
<1>4. /\ Range(order') = Range(order)
      /\ \A i, j : i # order[q] /\ UsedBefore(order, i, j) => UsedBefore(order', i, j)
      /\ \A i \in Range(order) \ {order[q]} : UsedBefore(order', i, order[q])
  BY <1>1, <1>2, AgainKeeps
<1>5. PICK w \in [0..Capacity -> Index] : Ringed(w, list, head, tail, order)
  BY <1>1 DEF RingInv
<1>6. Ringed(w, l, head, tail, order)
  BY <1>5, RingSame
<1>7. order[q] \in Index
  BY <1>1
<1>8. /\ SameEntries(l, Moved(l, order[q]))
      /\ \E u \in [0..Capacity -> Index] :
           Ringed(u, Moved(l, order[q]), head, TailAfterMove(order[q]),
                  Append(RemoveAt(order, q), order[q]))
  BY <1>1, <1>6, <1>7, RingMoved
<1>9. list' = Moved(l, order[q]) /\ tail' = TailAfterMove(order[q]) /\ head' = head
  BY DEF ReadAdjust
<1>10. PICK u \in [0..Capacity -> Index] : Ringed(u, list', head', tail', order')
  BY <1>2, <1>8, <1>9
<1>11. RingInv' /\ tail' \in Index
  <2>1. 0 \in 0..Capacity
    BY LruAssumption
  <2>2. tail' \in Index
    BY <1>10, <2>1 DEF Ringed
  <2>3. RingInv'
    BY <1>10 DEF RingInv
  <2> QED BY <2>2, <2>3
<1>12. SameEntries(l, list')
  BY <1>8, <1>9
<1>13. Coupled'
  <2>1. \A k \in Index : list'[k].key = list[k].key /\ list'[k].bucket = list[k].bucket
    BY <1>12 DEF SameEntries
  <2>2. ASSUME NEW i \in Range(order')
        PROVE  /\ list'[i].bucket \in Buckets /\ hash'[list'[i].bucket].index = i
               /\ hash'[list'[i].bucket].key = list'[i].key
    BY <1>4, <2>1, UsedNode
  <2>3. ASSUME NEW b \in Buckets, hash'[b].key # 0
        PROVE  hash'[b].index \in Range(order') /\ list'[hash'[b].index].bucket = b
    <3>1. hash[b].index \in Range(order) /\ list[hash[b].index].bucket = b
      BY <1>1, <2>3 DEF Coupled
    <3> QED BY <1>1, <1>4, <2>1, <3>1, RangeIs
  <2> QED BY <2>2, <2>3 DEF Coupled
<1> QED
  BY <1>2, <1>3, <1>4, <1>9, <1>11, <1>12, <1>13

\* A node once write_adjust has freed it.
LEMMA FreedNode ==
  ASSUME NEW r \in ListNode, NEW m, m = [r EXCEPT !.key = 0, !.v = NULL]
  PROVE  m \in ListNode /\ m.next = r.next /\ m.last = r.last
<1>1. NULL \in AllValues
  BY DEF AllValues
<1> QED
  BY <1>1 DEF ListNode

\* The node that write_adjust frees, if the cache is full.
Gone == IF tail = list[head].next THEN {tail} ELSE {}

\* What put writes to an empty bucket b and to the node at head.
NewBucket(x) == [key |-> x[1], raw |-> x[2], index |-> head]
FilledHash(x, b) == [hash EXCEPT ![b] = NewBucket(x)]
FilledList(x, v, b) ==
  [list EXCEPT ![head] = [list[head] EXCEPT !.key = x[1], !.v = v, !.bucket = b]]

\* A new node is used: put on an empty bucket b.
LEMMA NewStep ==
  ASSUME LruInv, NEW x \in Items, NEW v \in AllValues, NEW b \in Buckets, hash[b] = NoHash,
         WriteAdjust(FilledHash(x, b), FilledList(x, v, b)), order' = Used(head)
  PROVE  /\ order' = Append(IF Len(order) = Capacity - 1 THEN Tail(order) ELSE order, head)
         /\ order' \in Seq(Index) /\ Range(order') = (Range(order) \ Gone) \cup {head}
         /\ head \notin Range(order) /\ Gone \subseteq Range(order) /\ Gone \subseteq {head'}
         /\ hash' \in [Buckets -> HashNode] /\ list' \in [Index -> ListNode]
         /\ head' \in Index /\ tail' \in Index
         /\ RingInv'
         /\ list'[head].key = x[1] /\ list'[head].v = v /\ list'[head].bucket = b
         /\ \A k \in Index \ (Gone \cup {head}) :
              list'[k].key = list[k].key /\ list'[k].v = list[k].v /\ list'[k].bucket = list[k].bucket
         /\ hash'[b] = NewBucket(x)
         /\ \A c \in Buckets \ {b} : hash'[c] = IF hash[c].index \in Gone THEN NoHash ELSE hash[c]
         /\ \A i, j : i \notin Gone /\ UsedBefore(order, i, j) => UsedBefore(order', i, j)
         /\ \A i \in Range(order) \ Gone : UsedBefore(order', i, head)
<1> DEFINE n == NewBucket(x)
           h == FilledHash(x, b)
           l == FilledList(x, v, b)
<1>0. /\ h = [hash EXCEPT ![b] = n]
      /\ l = [list EXCEPT ![head] = [list[head] EXCEPT !.key = x[1], !.v = v, !.bucket = b]]
      /\ n = [key |-> x[1], raw |-> x[2], index |-> head]
  BY DEF NewBucket, FilledHash, FilledList
<1>W. WriteAdjust(h, l) /\ n = NewBucket(x)
  OBVIOUS
<1> HIDE DEF n, h, l
<1>1. /\ LruTypeOK /\ RingInv /\ Coupled
      /\ order \in Seq(Index) /\ list \in [Index -> ListNode] /\ head \in Index /\ tail \in Index
      /\ hash \in [Buckets -> HashNode]
  BY DEF LruInv, LruTypeOK
<1>2. x[1] \in Nat /\ x[2] \in Raws /\ n \in HashNode
  BY <1>0, <1>1, LruAssumption DEF HashNode, Raws
<1>3. /\ h \in [Buckets -> HashNode] /\ h[b] = n
      /\ \A c \in Buckets \ {b} : h[c] = hash[c]
  BY <1>0, <1>1, <1>2
<1>4. /\ l \in [Index -> ListNode]
      /\ l[head].key = x[1] /\ l[head].v = v /\ l[head].bucket = b
      /\ \A k \in Index \ {head} : l[k] = list[k]
      /\ \A k \in Index : l[k].next = list[k].next /\ l[k].last = list[k].last
  <2> DEFINE m == [list[head] EXCEPT !.key = x[1], !.v = v, !.bucket = b]
  <2>1. /\ m \in ListNode /\ m.key = x[1] /\ m.v = v /\ m.bucket = b
        /\ m.next = list[head].next /\ m.last = list[head].last
    <3>1. list[head] \in ListNode
      BY <1>1
    <3>2. m = [list[head] EXCEPT !.key = x[1], !.v = v, !.bucket = b]
      OBVIOUS
    <3>3. x[1] \in Nat
      BY <1>2
    <3> HIDE DEF m
    <3> DEFINE r == list[head]
               k == x[1]
    <3>4. m = [r EXCEPT !.key = k, !.v = v, !.bucket = b] /\ r \in ListNode /\ k \in Nat
      BY <3>1, <3>2, <3>3
    <3> HIDE DEF m, r, k
    <3>5. /\ m \in ListNode /\ m.key = k /\ m.v = v /\ m.bucket = b
          /\ m.next = r.next /\ m.last = r.last
      BY <3>4 DEF ListNode
    <3> QED BY <3>5 DEF r, k
  <2>2. l = [list EXCEPT ![head] = m]
    BY <1>0
  <2> HIDE DEF m
  <2> QED BY <1>1, <2>1, <2>2
<1>5. PICK w \in [0..Capacity -> Index] : Ringed(w, list, head, tail, order)
  BY <1>1 DEF RingInv
<1>6. Ringed(w, l, head, tail, order)
  BY <1>4, <1>5, RingSame
<1>7. /\ tail = l[head].next <=> Len(order) = Capacity - 1
      /\ head \notin Range(order)
      /\ tail = l[head].next =>
           /\ order # <<>> /\ order[1] = tail
           /\ \E u \in [0..Capacity -> Index] :
                Ringed(u, l, tail, l[tail].next, Append(Tail(order), head))
      /\ tail # l[head].next => Ringed(w, l, l[head].next, tail, Append(order, head))
  BY <1>1, <1>4, <1>6, RingWritten
<1>8. order' = Append(IF Len(order) = Capacity - 1 THEN Tail(order) ELSE order, head)
  BY <1>7 DEF Used
<1>9. l[head].next = list[head].next /\ l[head].next \in Index /\ l[tail].next \in Index
  BY <1>1, <1>4 DEF ListNode
<1>10. CASE tail = list[head].next
  <2>1. Gone = {tail}
    BY <1>10 DEF Gone
  <2>2. /\ list' = [l EXCEPT ![tail] = [l[tail] EXCEPT !.key = 0, !.v = NULL]]
        /\ hash' = FreedBucket(h, l[tail].bucket)
        /\ head' = tail /\ tail' = l[tail].next
    BY <1>W, <1>9, <1>10 DEF WriteAdjust
  <2>3. order' = Append(Tail(order), head) /\ order # <<>> /\ order[1] = tail
    BY <1>7, <1>8, <1>9, <1>10
  <2>4. tail \in Range(order) /\ tail # head
    <3>1. 1 \in 1..Len(order)
      BY <1>1, <2>3
    <3>2. tail \in Range(order)
      BY <1>1, <2>3, <3>1, RangeIs
    <3> QED BY <1>7, <3>2
  <2>5. /\ list' \in [Index -> ListNode]
        /\ \A k \in Index : list'[k].next = l[k].next /\ list'[k].last = l[k].last
        /\ \A k \in Index \ {tail} : list'[k] = l[k]
    <3> DEFINE m == [l[tail] EXCEPT !.key = 0, !.v = NULL]
    <3>1. m \in ListNode /\ m.next = l[tail].next /\ m.last = l[tail].last
      BY <1>1, <1>4, FreedNode
    <3>2. list' = [l EXCEPT ![tail] = m]
      BY <2>2
    <3> HIDE DEF m
    <3> QED BY <1>1, <1>4, <3>1, <3>2
  <2>6. PICK u \in [0..Capacity -> Index] : Ringed(u, l, tail, l[tail].next, Append(Tail(order), head))
    BY <1>7, <1>9, <1>10
  <2>7. Ringed(u, list', tail, l[tail].next, Append(Tail(order), head))
    <3>1. \A k \in Index : list'[k].next = l[k].next /\ list'[k].last = l[k].last
      BY <2>5
    <3> QED BY <2>6, <3>1, RingSame
  <2>8. RingInv'
    BY <2>2, <2>3, <2>7 DEF RingInv
  <2>9. l[tail].bucket = list[tail].bucket /\ list[tail].bucket \in Buckets /\ hash[list[tail].bucket].index = tail
    BY <1>1, <1>4, <2>4, UsedNode
  <2>10. list[tail].bucket # b
    BY <1>1, <2>9, InvalidIndex, NoHashIs
  <2>11. /\ hash' \in [Buckets -> HashNode] /\ hash'[list[tail].bucket] = NoHash
         /\ \A c \in Buckets \ {list[tail].bucket} : hash'[c] = h[c]
    BY <1>3, <2>2, <2>9, NoHashIs DEF FreedBucket
  <2>12. ASSUME NEW c \in Buckets \ {b}
         PROVE  hash'[c] = IF hash[c].index \in Gone THEN NoHash ELSE hash[c]
    <3>1. CASE c = list[tail].bucket
      BY <2>1, <2>9, <2>11, <3>1
    <3>2. CASE c # list[tail].bucket
      <4>1. hash[c].index # tail
        <5> SUFFICES ASSUME hash[c].index = tail PROVE FALSE
          OBVIOUS
        <5>1. hash[c].key = 0
          BY <1>1, <3>2 DEF Coupled
        <5>2. ItemIn(hash, c) \notin Items
          BY <5>1, LruAssumption DEF ItemIn
        <5>3. hash[c] = NoHash
          BY <5>2 DEF LruInv, BucketInv
        <5> QED BY <1>1, <5>3, NoHashIs, InvalidIndex
      <4> QED BY <1>3, <2>1, <2>11, <3>2, <4>1
    <3> QED BY <3>1, <3>2
  <2>13. \A a, c \in 1..Len(order) : order[a] = order[c] => a = c
    BY <1>1, OrderDistinct
  <2> DEFINE t == Tail(order)
  <2>14. /\ t \in Seq(Index) /\ Range(t) = Range(order) \ {tail}
         /\ \A i, j : i # tail /\ UsedBefore(order, i, j) => UsedBefore(t, i, j)
    BY <1>1, <2>3, <2>13, TailKeeps
  <2>15. order' = Append(t, head)
    BY <2>3
  <2> HIDE DEF t
  <2>16. /\ order' \in Seq(Index) /\ Range(order') = Range(t) \cup {head}
         /\ \A i, j : UsedBefore(t, i, j) => UsedBefore(order', i, j)
         /\ \A i \in Range(t) : UsedBefore(order', i, head)
    BY <1>1, <2>14, <2>15, NewKeeps
  <2>17. /\ list'[head].key = x[1] /\ list'[head].v = v /\ list'[head].bucket = b
         /\ \A k \in Index \ (Gone \cup {head}) :
              list'[k].key = list[k].key /\ list'[k].v = list[k].v /\ list'[k].bucket = list[k].bucket
    <3>1. list'[head] = l[head]
      BY <1>1, <2>4, <2>5
    <3>2. \A k \in Index \ (Gone \cup {head}) : list'[k] = list[k]
      BY <1>4, <2>1, <2>5
    <3> QED BY <1>4, <3>1, <3>2
  <2>18. hash'[b] = NewBucket(x)
    BY <1>3, <1>W, <2>10, <2>11
  <2>19. /\ \A i, j : i \notin Gone /\ UsedBefore(order, i, j) => UsedBefore(order', i, j)
         /\ \A i \in Range(order) \ Gone : UsedBefore(order', i, head)
         /\ Range(order') = (Range(order) \ Gone) \cup {head}
    BY <2>1, <2>14, <2>16
  <2>20. Gone \subseteq Range(order) /\ Gone \subseteq {head'} /\ head' \in Index /\ tail' \in Index
    BY <1>1, <1>9, <2>1, <2>2, <2>4
  <2> HIDE DEF Gone
  <2> QED BY <1>7, <1>8, <2>5, <2>8, <2>11, <2>12, <2>16, <2>17, <2>18, <2>19, <2>20
<1>11. CASE tail # list[head].next
  <2>1. Gone = {}
    BY <1>11 DEF Gone
  <2>2. list' = l /\ hash' = h /\ head' = l[head].next /\ tail' = tail
    BY <1>W, <1>9, <1>11 DEF WriteAdjust
  <2>3. order' = Append(order, head)
    BY <1>7, <1>8, <1>9, <1>11
  <2>4. /\ order' \in Seq(Index) /\ Range(order') = Range(order) \cup {head}
        /\ \A i, j : UsedBefore(order, i, j) => UsedBefore(order', i, j)
        /\ \A i \in Range(order) : UsedBefore(order', i, head)
    BY <1>1, <2>3, NewKeeps
  <2>5. RingInv'
    BY <1>7, <1>9, <1>11, <2>2, <2>3 DEF RingInv
  <2> QED BY <1>1, <1>3, <1>4, <1>7, <1>8, <1>9, <1>W, <2>1, <2>2, <2>4, <2>5
<1> QED
  BY <1>10, <1>11

-----------------------------------------------------------------------------
(* The invariant.                                                          *)

LEMMA LinksAtInit ==
  ASSUME NEW i \in Index
  PROVE  /\ (i + 1) % Capacity = IF i = Capacity - 1 THEN 0 ELSE i + 1
         /\ (i - 1) % Capacity = IF i = 0 THEN Capacity - 1 ELSE i - 1
<1>0. Capacity \in Nat /\ Capacity >= 2 /\ i \in Nat /\ i < Capacity
  BY LruAssumption DEF Index
<1>1. (i + 1) % Capacity = IF i = Capacity - 1 THEN 0 ELSE i + 1
  BY <1>0
<1>2. (i - 1) % Capacity = IF i = 0 THEN Capacity - 1 ELSE i - 1
  BY <1>0
<1> QED
  BY <1>1, <1>2

LEMMA InitInv ==
  ASSUME Init PROVE LruInv
<1>0. Capacity \in Nat /\ Capacity >= 2 /\ 0 \in Index
  BY LruAssumption DEF Index
<1>1. LruTypeOK
  <2>1. hash \in [Buckets -> HashNode]
    BY NoHashIs DEF Init
  <2>2. ASSUME NEW i \in Index PROVE list[i] \in ListNode
    <3>1. (i + 1) % Capacity \in Index /\ (i - 1) % Capacity \in Index
      BY <1>0, LinksAtInit DEF Index
    <3>2. NULL \in AllValues
      BY DEF AllValues
    <3>3. list[i] = [key |-> 0, next |-> (i + 1) % Capacity, last |-> (i - 1) % Capacity,
                     bucket |-> INVALID_INDEX, v |-> NULL]
      BY DEF Init
    <3> QED BY <3>1, <3>2, <3>3 DEF ListNode
  <2>3. list \in [Index -> ListNode]
    <3>1. list = [i \in Index |-> list[i]]
      BY DEF Init
    <3> QED BY <2>2, <3>1
  <2> QED BY <1>0, <2>1, <2>3 DEF LruTypeOK, Init
<1>2. RingInv
  <2> DEFINE w == [n \in 0..Capacity |-> IF n = Capacity THEN 0 ELSE n]
  <2>1. w \in [0..Capacity -> Index]
    BY <1>0 DEF Index
  <2>2. w[0] = 0 /\ w[Capacity] = 0 /\ \A n \in 0..(Capacity - 1) : w[n] = n /\ n \in Index
    BY <1>0 DEF Index
  <2>3. \A n \in 0..(Capacity - 1) : w[n + 1] = IF n = Capacity - 1 THEN 0 ELSE n + 1
    BY <1>0
  <2> HIDE DEF w
  <2>4. ASSUME NEW n \in 0..(Capacity - 1) PROVE list[w[n]].next = w[n + 1]
    <3>1. list[n].next = (n + 1) % Capacity
      BY <2>2 DEF Init
    <3> QED BY <2>2, <2>3, <3>1, LinksAtInit
  <2>5. ASSUME NEW n \in 0..(Capacity - 1) PROVE list[w[n + 1]].last = w[n]
    <3>1. w[n + 1] \in Index /\ (w[n + 1] = 0 => n = Capacity - 1) /\ (w[n + 1] # 0 => w[n + 1] - 1 = n)
      BY <1>0, <2>3 DEF Index
    <3>2. list[w[n + 1]].last = (w[n + 1] - 1) % Capacity
      BY <3>1 DEF Init
    <3> QED BY <2>2, <3>1, <3>2, LinksAtInit
  <2>6. order = <<>> /\ Len(order) = 0 /\ head = 0 /\ tail = 0
    BY DEF Init
  <2>7. Len(order) <= Capacity - 1
    BY <1>0, <2>6
  <2>8. \A n \in 1..Len(order) : w[n - 1] = order[n]
    BY <2>6
  <2>9. Ringed(w, list, head, tail, order)
    BY <2>1, <2>2, <2>4, <2>5, <2>6, <2>7, <2>8 DEF Ringed
  <2> QED BY <2>1, <2>9 DEF RingInv
<1>3. Range(order) = {} /\ \A b \in Buckets : hash[b] = NoHash
  BY DEF Init, Range
<1>4. Coupled
  BY <1>3, NoHashIs DEF Coupled
<1>5. BucketInv /\ StaleInv
  BY <1>3 DEF BucketInv, StaleInv, Init
<1> QED
  BY <1>1, <1>2, <1>4, <1>5 DEF LruInv

\* The nodes that hold an item are in use.
LEMMA NodesOfIs ==
  ASSUME LruInv, NEW x \in Items
  PROVE  /\ NodesOf(x) \subseteq Range(order) /\ NodesOf(x) \subseteq Index
         /\ \A i \in NodesOf(x) : Holds(list[i].bucket, x)
         /\ \A i \in Range(order) : ItemIn(hash, list[i].bucket) = x => i \in NodesOf(x)
<1>1. ASSUME NEW i \in NodesOf(x) PROVE i \in Range(order) /\ i \in Index /\ Holds(list[i].bucket, x)
  <2>1. PICK b \in Buckets : Holds(b, x) /\ hash[b].index = i
    BY DEF NodesOf
  <2> QED BY <2>1, HeldBucket
<1>2. ASSUME NEW i \in Range(order), ItemIn(hash, list[i].bucket) = x PROVE i \in NodesOf(x)
  BY <1>2, UsedNode DEF NodesOf
<1> QED
  BY <1>1, <1>2

\* get keeps the invariant: it uses a node that is not stale.
LEMMA GetStep ==
  ASSUME LruInv, NEW x \in Items, get(x) PROVE LruInv'
<1> DEFINE b == get_probing_bucket(x)
           i == hash[b].index
<1>1. b \in Buckets /\ Holds(b, x)
  BY GetFound DEF get
<1>2. i \notin stale
  BY FindsFresh DEF Fresh, get
<1> HIDE DEF b
<1>3. PICK q \in 1..Len(order) : order[q] = i
  BY <1>1, HeldBucket
<1>4. ReadAdjust(list, order[q]) /\ order' = Used(order[q]) /\ hash' = hash /\ stale' = stale
  BY <1>3 DEF get, b
<1>5. list \in [Index -> ListNode] /\ LruTypeOK
  BY DEF LruInv, LruTypeOK
<1>6. /\ order' \in Seq(Index) /\ Range(order') = Range(order)
      /\ SameEntries(list, list') /\ head' = head /\ tail' \in Index
      /\ RingInv' /\ Coupled'
      /\ \A k, j : k # order[q] /\ UsedBefore(order, k, j) => UsedBefore(order', k, j)
  BY <1>4, <1>5, UseStep
<1>7. /\ list' \in [Index -> ListNode]
      /\ \A k \in Index : list'[k].v = list[k].v /\ list'[k].bucket = list[k].bucket
  BY <1>6 DEF SameEntries
<1>8. LruTypeOK'
  BY <1>4, <1>5, <1>6, <1>7 DEF LruTypeOK
<1>9. BucketInv'
  <2> SUFFICES ASSUME NEW c \in Buckets, hash[c] # NoHash
               PROVE  /\ ItemIn(hash, c) \in Items /\ OnPath(hash[c].key, c)
                      /\ list'[hash[c].index].v \in Values[ItemIn(hash, c)]
    BY <1>4 DEF BucketInv
  <2>1. /\ ItemIn(hash, c) \in Items /\ OnPath(hash[c].key, c)
        /\ list[hash[c].index].v \in Values[ItemIn(hash, c)]
    BY DEF LruInv, BucketInv
  <2>2. hash[c].index \in Index
    <3>1. Holds(c, ItemIn(hash, c))
      BY DEF Holds, ItemIn
    <3> QED BY <2>1, <3>1, HeldBucket
  <2> QED BY <1>7, <2>1, <2>2
<1>10. StaleInv'
  <2> SUFFICES ASSUME NEW k \in stale
               PROVE  \E j \in Range(order') \ stale' :
                        /\ UsedBefore(order', k, j)
                        /\ ItemIn(hash', list'[j].bucket) = ItemIn(hash', list'[k].bucket)
                        /\ Sooner(hash'[list'[k].bucket].key, list'[j].bucket, list'[k].bucket)
    BY <1>4 DEF StaleInv
  <2>1. PICK j \in Range(order) \ stale :
          /\ UsedBefore(order, k, j)
          /\ ItemIn(hash, list[j].bucket) = ItemIn(hash, list[k].bucket)
          /\ Sooner(hash[list[k].bucket].key, list[j].bucket, list[k].bucket)
    BY DEF LruInv, StaleInv
  <2>2. UsedBefore(order', k, j)
    BY <1>2, <1>3, <1>6, <2>1
  <2>3. k \in Index /\ j \in Index
    BY <1>5, <2>1, UsedNode DEF LruTypeOK
  <2>4. list'[j].bucket = list[j].bucket /\ list'[k].bucket = list[k].bucket
    BY <1>7, <2>3
  <2> QED BY <1>4, <1>6, <2>1, <2>2, <2>4
<1> QED
  BY <1>6, <1>8, <1>9, <1>10 DEF LruInv

\* The newer node of a stale one that does not hold x does not hold x either.
LEMMA StaleApart ==
  ASSUME LruInv, NEW x \in Items, NEW i \in stale, i \notin NodesOf(x)
  PROVE  \E j \in Range(order) \ (stale \cup NodesOf(x)) :
           /\ UsedBefore(order, i, j)
           /\ ItemIn(hash, list[j].bucket) = ItemIn(hash, list[i].bucket)
           /\ Sooner(hash[list[i].bucket].key, list[j].bucket, list[i].bucket)
<1>1. PICK j \in Range(order) \ stale :
        /\ UsedBefore(order, i, j)
        /\ ItemIn(hash, list[j].bucket) = ItemIn(hash, list[i].bucket)
        /\ Sooner(hash[list[i].bucket].key, list[j].bucket, list[i].bucket)
  BY DEF LruInv, StaleInv
<1>2. i \in Range(order)
  BY <1>1, RangeIs DEF UsedBefore, LruInv, LruTypeOK
<1>3. ItemIn(hash, list[i].bucket) # x
  BY <1>2, NodesOfIs
<1>4. j \notin NodesOf(x)
  <2> SUFFICES ASSUME j \in NodesOf(x) PROVE FALSE
    OBVIOUS
  <2>1. Holds(list[j].bucket, x)
    BY NodesOfIs
  <2>2. ItemIn(hash, list[j].bucket) = x
    BY <2>1, LruAssumption DEF Holds, ItemIn
  <2> QED BY <1>1, <1>3, <2>2
<1> QED
  BY <1>1, <1>4

\* The list l is that of the cache but for the value v in node i.
WithValue(l, i, v) ==
  \A k \in Index : /\ l[k].next = list[k].next /\ l[k].last = list[k].last
                   /\ l[k].key = list[k].key /\ l[k].bucket = list[k].bucket
                   /\ l[k].v = IF k = i THEN v ELSE list[k].v

\* put over an entry in use: the entry is used again, with the new value.
LEMMA PutOverIs ==
  ASSUME LruInv, NEW x \in Items, NEW v \in Values[x], NEW overwrite \in Overwrites,
         put(x, v, overwrite), NEW b, b = put_probing_bucket(x, overwrite), b \in Buckets,
         Holds(b, x), PutIndex(b, x) = hash[b].index
  PROVE  \E q \in 1..Len(order), l \in [Index -> ListNode] :
           /\ order[q] = hash[b].index /\ hash' = hash
           /\ ReadAdjust(l, order[q]) /\ order' = Used(order[q])
           /\ WithValue(l, order[q], v)
<1> DEFINE i == hash[b].index
           l == [list EXCEPT ![i] = [list[i] EXCEPT !.key = x[1], !.v = v, !.bucket = b]]
<1>1. /\ i \in Range(order) /\ i \in Index /\ list[i].bucket = b /\ list[i].key = x[1]
      /\ ItemIn(hash, b) = x /\ \E q \in 1..Len(order) : order[q] = i
  BY HeldBucket
<1>2. PICK q \in 1..Len(order) : order[q] = i
  BY <1>1
<1>3. /\ LruTypeOK /\ list \in [Index -> ListNode] /\ hash \in [Buckets -> HashNode]
      /\ order \in Seq(Index) /\ RingInv /\ head \in Index
  BY DEF LruInv, LruTypeOK
<1>4. i # head
  <2>1. PICK w \in [0..Capacity -> Index] : Ringed(w, list, head, tail, order)
    BY <1>3 DEF RingInv
  <2>2. head \notin Range(order)
    BY <1>3, <2>1, RingWritten
  <2> QED BY <1>1, <2>2
<1>5. [hash EXCEPT ![b] = [key |-> x[1], raw |-> x[2], index |-> i]] = hash
  <2>1. hash[b] = [key |-> x[1], raw |-> x[2], index |-> i]
    BY <1>3 DEF Holds, HashNode
  <2> QED BY <1>3, <2>1
<1>6. hash' = hash /\ ReadAdjust(l, i) /\ order' = Used(i)
  BY <1>4, <1>5 DEF put
<1>7. /\ l \in [Index -> ListNode]
      /\ \A k \in Index : /\ l[k].next = list[k].next /\ l[k].last = list[k].last
                          /\ l[k].key = list[k].key /\ l[k].bucket = list[k].bucket
                          /\ l[k].v = IF k = i THEN v ELSE list[k].v
  <2> DEFINE r == list[i]
             key == x[1]
             m == [r EXCEPT !.key = key, !.v = v, !.bucket = b]
  <2>1. r \in ListNode /\ key \in Nat /\ v \in AllValues
    BY <1>1, <1>3, LruAssumption DEF AllValues
  <2>2. r.key = key /\ r.bucket = b /\ l = [list EXCEPT ![i] = m]
    BY <1>1
  <2> HIDE DEF r, key, l
  <2>3. m \in ListNode /\ m.key = key /\ m.v = v /\ m.bucket = b /\ m.next = r.next /\ m.last = r.last
    BY <2>1 DEF ListNode
  <2> HIDE DEF m
  <2>4. /\ m \in ListNode /\ m.key = list[i].key /\ m.v = v /\ m.bucket = list[i].bucket
        /\ m.next = list[i].next /\ m.last = list[i].last
    BY <2>2, <2>3 DEF r, key
  <2> QED BY <1>1, <1>3, <2>2, <2>4
<1>8. WithValue(l, i, v)
  BY <1>7 DEF WithValue
<1> HIDE DEF l
<1> QED
  BY <1>2, <1>6, <1>7, <1>8

\* put over an entry in use keeps the invariant: every other entry of the item is found
\* later than the one written, and has been used before it.
LEMMA PutOverStep ==
  ASSUME LruInv, NEW x \in Items, NEW v \in Values[x], NEW overwrite \in Overwrites,
         put(x, v, overwrite), NEW b, b = put_probing_bucket(x, overwrite), b \in Buckets,
         Holds(b, x), PutIndex(b, x) = hash[b].index,
         stale' = (stale \cup NodesOf(x)) \ {hash[b].index, head'},
         \A c \in Buckets : Holds(c, x) /\ c # b => Sooner(x[1], b, c)
  PROVE  LruInv'
<1> DEFINE i == hash[b].index
<1>1. /\ i \in Range(order) /\ i \in Index /\ list[i].bucket = b /\ ItemIn(hash, b) = x
  BY HeldBucket
<1>2. PICK q \in 1..Len(order), l \in [Index -> ListNode] :
        /\ order[q] = hash[b].index /\ hash' = hash
        /\ ReadAdjust(l, order[q]) /\ order' = Used(order[q])
        /\ WithValue(l, order[q], v)
  BY PutOverIs
<1>3. LruTypeOK
  BY DEF LruInv
<1>6. /\ hash' = hash /\ order[q] = i
      /\ stale' = (stale \cup NodesOf(x)) \ {i, head'}
  BY <1>2
<1>7. \A k \in Index : /\ l[k].next = list[k].next /\ l[k].last = list[k].last
                       /\ l[k].key = list[k].key /\ l[k].bucket = list[k].bucket
                       /\ l[k].v = IF k = i THEN v ELSE list[k].v
  BY <1>2 DEF WithValue
<1>8. /\ order' \in Seq(Index) /\ Range(order') = Range(order)
      /\ SameEntries(l, list') /\ head' = head /\ tail' \in Index
      /\ RingInv' /\ Coupled'
      /\ \A k, j : k # i /\ UsedBefore(order, k, j) => UsedBefore(order', k, j)
      /\ \A k \in Range(order) \ {i} : UsedBefore(order', k, i)
  <2>1. ReadAdjust(l, order[q]) /\ order' = Used(order[q])
    BY <1>2
  <2>2. \A k \in Index : /\ l[k].next = list[k].next /\ l[k].last = list[k].last
                         /\ l[k].key = list[k].key /\ l[k].bucket = list[k].bucket
    BY <1>7
  <2>3. /\ order' \in Seq(Index) /\ Range(order') = Range(order)
        /\ SameEntries(l, list') /\ head' = head /\ tail' \in Index
        /\ RingInv' /\ Coupled'
        /\ \A k, j : k # order[q] /\ UsedBefore(order, k, j) => UsedBefore(order', k, j)
        /\ \A k \in Range(order) \ {order[q]} : UsedBefore(order', k, order[q])
    <3> HIDE DEF i
    <3> QED BY <1>6, <1>7, <2>1, <2>2, UseStep
  <2> QED BY <1>6, <2>3
<1>9. /\ list' \in [Index -> ListNode]
      /\ \A k \in Index : /\ list'[k].v = IF k = i THEN v ELSE list[k].v
                          /\ list'[k].bucket = list[k].bucket
  <2>1. /\ list' \in [Index -> ListNode]
        /\ \A k \in Index : list'[k].v = l[k].v /\ list'[k].bucket = l[k].bucket
    BY <1>8 DEF SameEntries
  <2> HIDE DEF i
  <2> QED BY <1>7, <2>1
<1>10. LruTypeOK'
  <2>1. stale' \subseteq Index
    BY <1>3, <1>6, NodesOfIs DEF LruTypeOK
  <2> QED BY <1>3, <1>6, <1>8, <1>9, <2>1 DEF LruTypeOK
<1>11. BucketInv'
  <2> SUFFICES ASSUME NEW c \in Buckets, hash[c] # NoHash
               PROVE  /\ ItemIn(hash, c) \in Items /\ OnPath(hash[c].key, c)
                      /\ list'[hash[c].index].v \in Values[ItemIn(hash, c)]
    BY <1>6 DEF BucketInv
  <2>1. /\ ItemIn(hash, c) \in Items /\ OnPath(hash[c].key, c)
        /\ list[hash[c].index].v \in Values[ItemIn(hash, c)]
    BY DEF LruInv, BucketInv
  <2>2. hash[c].index \in Index /\ list[hash[c].index].bucket = c
    <3>1. Holds(c, ItemIn(hash, c))
      BY DEF Holds, ItemIn
    <3> QED BY <2>1, <3>1, HeldBucket
  <2>3. CASE c = b
    BY <1>1, <1>9, <2>1, <2>3
  <2>4. CASE c # b
    BY <1>1, <1>9, <2>1, <2>2, <2>4
  <2> QED BY <2>3, <2>4
<1>12. StaleInv'
  <2> SUFFICES ASSUME NEW k \in stale'
               PROVE  \E j \in Range(order') \ stale' :
                        /\ UsedBefore(order', k, j)
                        /\ ItemIn(hash', list'[j].bucket) = ItemIn(hash', list'[k].bucket)
                        /\ Sooner(hash'[list'[k].bucket].key, list'[j].bucket, list'[k].bucket)
    BY DEF StaleInv
  <2>0. k # i /\ i \notin stale' /\ (k \in stale \/ k \in NodesOf(x))
    BY <1>6
  <2>1. CASE k \in NodesOf(x)
    <3>1. k \in Range(order) /\ k \in Index /\ Holds(list[k].bucket, x)
      BY <2>1, NodesOfIs
    <3>2. list[k].bucket \in Buckets /\ hash[list[k].bucket].index = k
      BY <3>1, UsedNode
    <3>3. list[k].bucket # b
      BY <2>0, <3>2
    <3>4. Sooner(x[1], b, list[k].bucket) /\ hash[list[k].bucket].key = x[1]
      BY <3>1, <3>2, <3>3 DEF Holds
    <3>5. ItemIn(hash, list[k].bucket) = x
      BY <3>1, LruAssumption DEF Holds, ItemIn
    <3>6. list'[i].bucket = b /\ list'[k].bucket = list[k].bucket
      BY <1>1, <1>9, <3>1
    <3>7. UsedBefore(order', k, i) /\ i \in Range(order')
      BY <1>1, <1>8, <2>0, <3>1
    <3> QED BY <1>1, <1>6, <2>0, <3>4, <3>5, <3>6, <3>7
  <2>2. CASE k \notin NodesOf(x)
    <3>1. k \in stale
      BY <2>0, <2>2
    <3>2. PICK j \in Range(order) \ (stale \cup NodesOf(x)) :
            /\ UsedBefore(order, k, j)
            /\ ItemIn(hash, list[j].bucket) = ItemIn(hash, list[k].bucket)
            /\ Sooner(hash[list[k].bucket].key, list[j].bucket, list[k].bucket)
      BY <2>2, <3>1, StaleApart
    <3>3. UsedBefore(order', k, j) /\ j \in Range(order') \ stale'
      BY <1>6, <1>8, <2>0, <3>2
    <3>4. k \in Index /\ j \in Index
      BY <1>3, <3>1, <3>2, UsedNode DEF LruTypeOK
    <3>5. list'[j].bucket = list[j].bucket /\ list'[k].bucket = list[k].bucket
      BY <1>9, <3>4
    <3> QED BY <1>6, <3>2, <3>3, <3>5
  <2> QED BY <2>1, <2>2
<1> QED
  BY <1>8, <1>10, <1>11, <1>12 DEF LruInv

\* put on an empty bucket keeps the invariant: a node freed was the first of the order,
\* so no stale entry outlives its newer one.
LEMMA PutNewStep ==
  ASSUME LruInv, NEW x \in Items, NEW v \in Values[x], NEW overwrite \in Overwrites,
         put(x, v, overwrite), NEW b, b = put_probing_bucket(x, overwrite), b \in Buckets,
         hash[b] = NoHash, PutIndex(b, x) = head, OnPath(x[1], b),
         overwrite => \A c \in Buckets : Holds(c, x) /\ c # b => Sooner(x[1], b, c)
  PROVE  LruInv'
<1> DEFINE n == NewBucket(x)
           N == IF overwrite THEN NodesOf(x) ELSE {}
<1>1. /\ WriteAdjust(FilledHash(x, b), FilledList(x, v, b)) /\ order' = Used(head)
      /\ stale' = (stale \cup N) \ {head, head'}
  BY DEF put, FilledHash, FilledList, NewBucket
<1>2. v \in AllValues
  BY DEF AllValues
<1>3. n.key = x[1] /\ n.raw = x[2] /\ n.index = head
  BY DEF NewBucket
<1>4. /\ order' \in Seq(Index) /\ Range(order') = (Range(order) \ Gone) \cup {head}
      /\ head \notin Range(order) /\ Gone \subseteq Range(order) /\ Gone \subseteq {head'}
      /\ hash' \in [Buckets -> HashNode] /\ list' \in [Index -> ListNode]
      /\ head' \in Index /\ tail' \in Index
      /\ RingInv'
      /\ list'[head].key = x[1] /\ list'[head].v = v /\ list'[head].bucket = b
      /\ \A k \in Index \ (Gone \cup {head}) :
           list'[k].key = list[k].key /\ list'[k].v = list[k].v /\ list'[k].bucket = list[k].bucket
      /\ hash'[b] = n
      /\ \A c \in Buckets \ {b} : hash'[c] = IF hash[c].index \in Gone THEN NoHash ELSE hash[c]
      /\ \A i, j : i \notin Gone /\ UsedBefore(order, i, j) => UsedBefore(order', i, j)
      /\ \A i \in Range(order) \ Gone : UsedBefore(order', i, head)
  BY <1>1, <1>2, NewStep
<1>5. LruTypeOK /\ order \in Seq(Index) /\ head \in Index /\ Range(order) \subseteq Index
  BY RangeIs DEF LruInv, LruTypeOK
<1> HIDE DEF n
\* the nodes still in use and their buckets
<1>6. ASSUME NEW i \in Range(order), i \notin Gone
      PROVE  /\ i \in Index /\ i # head /\ list[i].bucket \in Buckets
             /\ hash[list[i].bucket].index = i /\ hash[list[i].bucket].key = list[i].key
             /\ list'[i].bucket = list[i].bucket /\ list'[i].key = list[i].key /\ list'[i].v = list[i].v
             /\ hash'[list[i].bucket] = hash[list[i].bucket]
  <2>1. /\ i \in Index /\ list[i].bucket \in Buckets
        /\ hash[list[i].bucket].index = i /\ hash[list[i].bucket].key = list[i].key
    BY UsedNode
  <2>2. list[i].bucket # b
    BY <2>1, NoHashIs, InvalidIndex
  <2>3. i # head
    BY <1>4
  <2> QED BY <1>4, <1>6, <2>1, <2>2, <2>3
<1>7. ItemIn(hash', b) = x
  BY <1>3, <1>4, LruAssumption DEF ItemIn
<1>8. LruTypeOK'
  <2>1. stale' \subseteq Index
    <3>1. N \subseteq Index /\ stale \subseteq Index
      BY <1>5, NodesOfIs DEF LruTypeOK
    <3> QED BY <1>1, <3>1
  <2> QED BY <1>4, <2>1 DEF LruTypeOK
\* the buckets other than b that are in use
<1>9. ASSUME NEW c \in Buckets, c # b, hash'[c] # NoHash
      PROVE  /\ hash'[c] = hash[c] /\ hash[c].index \in Range(order) \ Gone
             /\ list[hash[c].index].bucket = c
             /\ ItemIn(hash, c) \in Items /\ OnPath(hash[c].key, c)
             /\ list[hash[c].index].v \in Values[ItemIn(hash, c)]
  <2>1. hash'[c] = hash[c] /\ hash[c].index \notin Gone /\ hash[c] # NoHash
    BY <1>4, <1>9
  <2>2. /\ ItemIn(hash, c) \in Items /\ OnPath(hash[c].key, c)
        /\ list[hash[c].index].v \in Values[ItemIn(hash, c)]
    BY <2>1 DEF LruInv, BucketInv
  <2>3. hash[c].index \in Range(order) /\ list[hash[c].index].bucket = c
    <3>1. Holds(c, ItemIn(hash, c))
      BY DEF Holds, ItemIn
    <3> QED BY <2>2, <3>1, HeldBucket
  <2> QED BY <2>1, <2>2, <2>3
<1>10. Coupled'
  <2>1. ASSUME NEW i \in Range(order')
        PROVE  /\ list'[i].bucket \in Buckets /\ hash'[list'[i].bucket].index = i
               /\ hash'[list'[i].bucket].key = list'[i].key
    <3>1. CASE i = head
      BY <1>3, <1>4, <3>1
    <3>2. CASE i # head
      <4>1. i \in Range(order) /\ i \notin Gone
        BY <1>4, <3>2
      <4> QED BY <1>6, <4>1
    <3> QED BY <3>1, <3>2
  <2>2. ASSUME NEW c \in Buckets, hash'[c].key # 0
        PROVE  hash'[c].index \in Range(order') /\ list'[hash'[c].index].bucket = c
    <3>1. CASE c = b
      BY <1>3, <1>4, <3>1
    <3>2. CASE c # b
      <4>1. hash'[c] # NoHash
        BY <2>2, NoHashIs
      <4>2. /\ hash'[c] = hash[c] /\ hash[c].index \in Range(order) \ Gone
            /\ list[hash[c].index].bucket = c
        BY <1>9, <3>2, <4>1
      <4> QED BY <1>4, <1>6, <4>2
    <3> QED BY <3>1, <3>2
  <2> QED BY <2>1, <2>2 DEF Coupled
<1>11. BucketInv'
  <2> SUFFICES ASSUME NEW c \in Buckets, hash'[c] # NoHash
               PROVE  /\ ItemIn(hash', c) \in Items /\ OnPath(hash'[c].key, c)
                      /\ list'[hash'[c].index].v \in Values[ItemIn(hash', c)]
    BY DEF BucketInv
  <2>1. CASE c = b
    BY <1>3, <1>4, <1>7, <2>1
  <2>2. CASE c # b
    <3>1. ItemIn(hash', c) = ItemIn(hash, c)
      BY <1>9, <2>2 DEF ItemIn
    <3> QED BY <1>6, <1>9, <2>2, <3>1
  <2> QED BY <2>1, <2>2
<1>12. StaleInv'
  <2> SUFFICES ASSUME NEW k \in stale'
               PROVE  \E j \in Range(order') \ stale' :
                        /\ UsedBefore(order', k, j)
                        /\ ItemIn(hash', list'[j].bucket) = ItemIn(hash', list'[k].bucket)
                        /\ Sooner(hash'[list'[k].bucket].key, list'[j].bucket, list'[k].bucket)
    BY DEF StaleInv
  <2>0. k # head /\ k \notin Gone /\ head \notin stale' /\ (k \in stale \/ k \in N)
    BY <1>1, <1>4
  <2>1. CASE k \in N
    <3>1. overwrite /\ k \in NodesOf(x)
      BY <2>1
    <3>2. k \in Range(order) /\ Holds(list[k].bucket, x)
      BY <3>1, NodesOfIs
    <3>3. /\ list[k].bucket \in Buckets /\ list'[k].bucket = list[k].bucket
          /\ hash'[list[k].bucket] = hash[list[k].bucket]
      BY <1>6, <2>0, <3>2
    <3>4. list[k].bucket # b
      BY <3>2, NoHashIs, LruAssumption DEF Holds
    <3>5. Sooner(x[1], b, list[k].bucket) /\ hash[list[k].bucket].key = x[1]
      BY <3>1, <3>2, <3>3, <3>4 DEF Holds
    <3>6. ItemIn(hash', list[k].bucket) = x
      BY <3>2, <3>3, LruAssumption DEF Holds, ItemIn
    <3>7. UsedBefore(order', k, head) /\ head \in Range(order')
      BY <1>4, <2>0, <3>2
    <3> QED BY <1>4, <1>7, <2>0, <3>3, <3>5, <3>6, <3>7
  <2>2. CASE k \notin N
    <3>1. k \in stale
      BY <2>0, <2>2
    <3>2. PICK j \in Range(order) \ (stale \cup N) :
            /\ UsedBefore(order, k, j)
            /\ ItemIn(hash, list[j].bucket) = ItemIn(hash, list[k].bucket)
            /\ Sooner(hash[list[k].bucket].key, list[j].bucket, list[k].bucket)
      <4>1. CASE overwrite
        BY <2>2, <3>1, <4>1, StaleApart
      <4>2. CASE ~ overwrite
        BY <3>1, <4>2 DEF LruInv, StaleInv
      <4> QED BY <4>1, <4>2
    <3>3. UsedBefore(order', k, j)
      BY <1>4, <2>0, <3>2
    <3>4. k \in Range(order)
      BY <1>5, <3>2, RangeIs DEF UsedBefore
    <3>5. j \notin Gone
      <4>1. j \in Range(order')
        BY <1>4, <3>3, RangeIs DEF UsedBefore
      <4> QED BY <1>4, <3>2, <4>1
    <3>6. j \in Range(order') \ stale'
      BY <1>1, <1>4, <3>2, <3>5
    <3>7. /\ list'[k].bucket = list[k].bucket /\ hash'[list[k].bucket] = hash[list[k].bucket]
          /\ list'[j].bucket = list[j].bucket /\ hash'[list[j].bucket] = hash[list[j].bucket]
      BY <1>6, <2>0, <3>2, <3>4, <3>5
    <3>8. ItemIn(hash', list'[j].bucket) = ItemIn(hash', list'[k].bucket)
      BY <3>2, <3>7 DEF ItemIn
    <3> QED BY <3>2, <3>3, <3>6, <3>7, <3>8
  <2> QED BY <2>1, <2>2
<1> QED
  BY <1>4, <1>8, <1>10, <1>11, <1>12 DEF LruInv

\* Every step keeps the invariant.
LEMMA NextInv ==
  ASSUME LruInv, [Next]_vars PROVE LruInv'
<1>1. CASE UNCHANGED <<hash, list, head, tail, order, stale>>
  BY <1>1 DEF LruInv, LruTypeOK, RingInv, Coupled, BucketInv, StaleInv
<1>2. ASSUME NEW x \in Items, get(x) PROVE LruInv'
  BY <1>2, GetStep
<1>3. ASSUME NEW x \in Items, NEW overwrite \in Overwrites, NEW v \in Values[x],
             put(x, v, overwrite)
      PROVE  LruInv'
  <2> DEFINE b == put_probing_bucket(x, overwrite)
  <2>1. b # INVALID_INDEX
    BY <1>3 DEF put
  <2>2. /\ b \in Buckets /\ OnPath(x[1], b)
        /\ \/ hash[b] = NoHash /\ PutIndex(b, x) = head
           \/ overwrite /\ Holds(b, x) /\ PutIndex(b, x) = hash[b].index
        /\ overwrite => \A c \in Buckets : Holds(c, x) /\ c # b => Sooner(x[1], b, c)
    BY <2>1, PutFound
  <2>3. b = put_probing_bucket(x, overwrite)
    OBVIOUS
  <2> HIDE DEF b
  <2>4. CASE hash[b] = NoHash /\ PutIndex(b, x) = head
    BY <1>3, <2>2, <2>3, <2>4, PutNewStep
  <2>5. CASE overwrite /\ Holds(b, x) /\ PutIndex(b, x) = hash[b].index
    <3>1. stale' = (stale \cup NodesOf(x)) \ {hash[b].index, head'}
      BY <1>3, <2>3, <2>5 DEF put
    <3>2. \A c \in Buckets : Holds(c, x) /\ c # b => Sooner(x[1], b, c)
      BY <2>2, <2>5
    <3>3. Holds(b, x) /\ PutIndex(b, x) = hash[b].index /\ b \in Buckets
      BY <2>2, <2>5
    <3> QED BY <1>3, <2>3, <3>1, <3>2, <3>3, PutOverStep
  <2> QED BY <2>2, <2>4, <2>5
<1>4. ASSUME NEW x \in Items, GetMiss(x) PROVE UNCHANGED <<hash, list, head, tail, order, stale>>
  BY <1>4 DEF GetMiss
<1>5. ASSUME NEW x \in Items, NEW overwrite \in Overwrites, PutFails(x, overwrite)
      PROVE  UNCHANGED <<hash, list, head, tail, order, stale>>
  BY <1>5 DEF PutFails
<1>6. ASSUME UNCHANGED vars PROVE UNCHANGED <<hash, list, head, tail, order, stale>>
  BY <1>6 DEF vars
<1> QED
  BY <1>1, <1>2, <1>3, <1>4, <1>5, <1>6 DEF Next

\* For every capacity, probing bound and set of items, the invariant always holds.
THEOREM LruInvariant == Spec => []LruInv
<1>1. Init => LruInv
  BY InitInv
<1>2. LruInv /\ [Next]_vars => LruInv'
  BY NextInv
<1> QED
  BY <1>1, <1>2, PTL DEF Spec

\* read_adjust and write_adjust keep the list one ring in the order of last use.
THEOREM LruRing == Spec => []Ring
<1>1. LruInv => Ring
  <2> SUFFICES ASSUME LruInv PROVE Ring
    OBVIOUS
  <2>0. Capacity \in Nat /\ Capacity >= 2
    BY LruAssumption
  <2>1. PICK w \in [0..Capacity -> Index] : Ringed(w, list, head, tail, order)
    BY DEF LruInv, RingInv
  <2>2. /\ w[0] = tail /\ Len(order) <= Capacity - 1 /\ order \in Seq(Index)
        /\ \A m, n \in 0..(Capacity - 1) : w[m] = w[n] => m = n
        /\ \A n \in 0..(Capacity - 1) : list[w[n]].next = w[n + 1] /\ list[w[n + 1]].last = w[n]
        /\ \A n \in 1..Len(order) : w[n - 1] = order[n]
        /\ w[Len(order)] = head
    BY <2>1 DEF Ringed, LruInv, LruTypeOK
  <2>3. \A n \in 0..Capacity : Walk[n] = w[n]
    BY <2>2, WalkIs
  <2>4. \A i \in Index : \E n \in 0..(Capacity - 1) : w[n] = i
    BY <2>2, RingReaches
  <2>5. \A n \in 0..(Capacity - 1) : Walk[n] = w[n] /\ w[n] \in Index
    BY <2>0, <2>3
  <2> HIDE DEF Walk
  <2>6. {Walk[n] : n \in 0..(Capacity - 1)} = Index
    BY <2>4, <2>5
  <2>7. \A i \in Index : list[list[i].next].last = i
    BY <2>2, <2>4
  <2>8. \A n \in 1..Len(order) : Walk[n - 1] = order[n]
    <3>1. \A n \in 1..Len(order) : n - 1 \in 0..(Capacity - 1)
      BY <2>0, <2>2
    <3> QED BY <2>2, <2>5, <3>1
  <2>9. Walk[Len(order)] = head
    <3>1. Len(order) \in 0..(Capacity - 1)
      BY <2>0, <2>2
    <3> QED BY <2>2, <2>5, <3>1
  <2> QED BY <2>6, <2>7, <2>8, <2>9 DEF Ring
<1> QED
  BY <1>1, LruInvariant, PTL

\* hash and list agree: freeing a node frees its own bucket and no other.
THEOREM LruCoupled == Spec => []Coupled
<1>1. LruInv => Coupled
  BY DEF LruInv
<1> QED
  BY <1>1, LruInvariant, PTL

\* get never returns a value that a later put has overwritten, although old entries of
\* the same item may stay in the cache.
THEOREM LruFresh == Spec => []Fresh
<1>1. LruInv => Fresh
  BY FindsFresh
<1> QED
  BY <1>1, LruInvariant, PTL

-----------------------------------------------------------------------------
(* The cache implements LruList.                                           *)

\* The entry in node i of the list l with hash h, and the entries in the order o.
EntryIn(h, l, i) == [item |-> ItemIn(h, l[i].bucket), v |-> l[i].v]
EntriesOf(h, l, o) == [n \in 1..Len(o) |-> EntryIn(h, l, o[n])]
AllEntries == [item : Items, v : AllValues]

\* That they can be entries, that h2 and l2 have the same in the nodes R, and that o has
\* no node twice.
Proper(h, l, o) == \A i \in Range(o) : EntryIn(h, l, i) \in AllEntries
SameIn(R, h, l, h2, l2) == \A i \in R : EntryIn(h2, l2, i) = EntryIn(h, l, i)
Distinct(o) == \A a, b \in 1..Len(o) : o[a] = o[b] => a = b

\* The refinement mapping's entries in these terms.
LEMMA EntriesIs ==
  Entries = EntriesOf(hash, list, order) /\ Entries' = EntriesOf(hash', list', order')
  BY DEF Entries, EntriesOf, EntryIn, EntryOf, ItemIn

LEMMA EntriesAre ==
  ASSUME NEW o \in Seq(Index), NEW h, NEW l, Proper(h, l, o)
  PROVE  /\ EntriesOf(h, l, o) \in Seq(AllEntries) /\ Len(EntriesOf(h, l, o)) = Len(o)
         /\ \A n \in 1..Len(o) : EntriesOf(h, l, o)[n] = EntryIn(h, l, o[n])
<1>1. \A n \in 1..Len(o) : EntryIn(h, l, o[n]) \in AllEntries
  BY RangeIs DEF Proper
<1> QED
  BY <1>1 DEF EntriesOf

\* An entry used again, with the value e from now on, moves to the end.
LEMMA EntriesAgain ==
  ASSUME NEW o \in Seq(Index), NEW q \in 1..Len(o),
         Distinct(o), NEW h, NEW l, NEW h2, NEW l2, Proper(h, l, o),
         SameIn(Range(o) \ {o[q]}, h, l, h2, l2),
         EntryIn(h2, l2, o[q]) \in AllEntries
  PROVE  EntriesOf(h2, l2, Append(RemoveAt(o, q), o[q]))
           = Append(RemoveAt(EntriesOf(h, l, o), q), EntryIn(h2, l2, o[q]))
<1> DEFINE e == EntryIn(h2, l2, o[q])
           o2 == Append(RemoveAt(o, q), o[q])
           E == EntriesOf(h, l, o)
           r == RemoveAt(E, q)
           E2 == EntriesOf(h2, l2, o2)
<1>1. /\ o2 \in Seq(Index) /\ Len(o2) = Len(o) /\ Range(o2) = Range(o)
      /\ \A k \in 1..Len(o) : o2[k] = IF k = Len(o) THEN o[q] ELSE IF k < q THEN o[k] ELSE o[k + 1]
  BY UsedAgain, AgainKeeps
<1> HIDE DEF o2
<1>2. E \in Seq(AllEntries) /\ Len(E) = Len(o) /\ \A n \in 1..Len(o) : E[n] = EntryIn(h, l, o[n])
  BY EntriesAre
<1> HIDE DEF E
<1>3. /\ r \in Seq(AllEntries) /\ Len(r) = Len(o) - 1
      /\ \A k \in 1..(Len(o) - 1) : r[k] = IF k < q THEN E[k] ELSE E[k + 1]
  BY <1>2, RemoveAtIs
<1>4. /\ E2 \in Seq(AllEntries) /\ Len(E2) = Len(o) /\ \A n \in 1..Len(o) : E2[n] = EntryIn(h2, l2, o2[n])
  <2>1. Proper(h2, l2, o2)
    BY <1>1 DEF Proper, SameIn
  <2> QED BY <1>1, <2>1, EntriesAre
<1> HIDE DEF r, E2
<1>5. ASSUME NEW k \in 1..Len(o), k # Len(o) PROVE E2[k] = r[k]
  <2> DEFINE p == IF k < q THEN k ELSE k + 1
  <2>1. p \in 1..Len(o) /\ p # q /\ k \in 1..(Len(o) - 1)
    BY <1>5
  <2>2. o2[k] = o[p] /\ r[k] = E[p]
    BY <1>1, <1>3, <1>5, <2>1
  <2> HIDE DEF p
  <2>3. o[p] \in Range(o) \ {o[q]}
    BY <2>1, RangeIs DEF Distinct
  <2> QED BY <1>2, <1>4, <2>1, <2>2, <2>3 DEF SameIn
<1>6. E2[Len(o)] = e
  <2>1. Len(o) \in 1..Len(o)
    OBVIOUS
  <2> QED BY <1>1, <1>4, <2>1
<1> DEFINE f == Append(r, e)
<1>7. /\ f \in Seq(AllEntries) /\ Len(f) = Len(o) /\ f[Len(o)] = e
      /\ \A k \in 1..(Len(o) - 1) : f[k] = r[k]
  BY <1>3
<1> HIDE DEF f
<1>8. ASSUME NEW k \in 1..Len(o) PROVE E2[k] = f[k]
  <2>1. k = Len(o) \/ k \in 1..(Len(o) - 1)
    OBVIOUS
  <2> QED BY <1>5, <1>6, <1>7, <2>1
<1>9. E2 = f
  BY <1>4, <1>7, <1>8, SeqEqual
<1> QED
  BY <1>9 DEF E2, f, r, E, o2

\* A new entry comes last.
LEMMA EntriesNew ==
  ASSUME NEW o \in Seq(Index), NEW i \in Index, NEW h, NEW l, NEW h2, NEW l2,
         EntryIn(h2, l2, i) \in AllEntries, Proper(h, l, o), SameIn(Range(o), h, l, h2, l2)
  PROVE  EntriesOf(h2, l2, Append(o, i)) = Append(EntriesOf(h, l, o), EntryIn(h2, l2, i))
<1> DEFINE e == EntryIn(h2, l2, i)
           o2 == Append(o, i)
           E == EntriesOf(h, l, o)
           E2 == EntriesOf(h2, l2, o2)
<1>1. /\ o2 \in Seq(Index) /\ Len(o2) = Len(o) + 1 /\ o2[Len(o) + 1] = i
      /\ \A k \in 1..Len(o) : o2[k] = o[k]
  OBVIOUS
<1>2. Range(o2) = Range(o) \cup {i}
  BY NewKeeps
<1>3. E \in Seq(AllEntries) /\ Len(E) = Len(o) /\ \A n \in 1..Len(o) : E[n] = EntryIn(h, l, o[n])
  BY EntriesAre
<1> HIDE DEF o2, E
<1>4. E2 \in Seq(AllEntries) /\ Len(E2) = Len(o) + 1 /\ \A n \in 1..(Len(o) + 1) : E2[n] = EntryIn(h2, l2, o2[n])
  <2>1. Proper(h2, l2, o2)
    BY <1>2 DEF Proper, SameIn
  <2>2. E2 \in Seq(AllEntries) /\ Len(E2) = Len(o2) /\ \A n \in 1..Len(o2) : E2[n] = EntryIn(h2, l2, o2[n])
    <3>1. o2 \in Seq(Index)
      BY <1>1
    <3> QED BY <2>1, <3>1, EntriesAre
  <2> HIDE DEF E2
  <2> QED BY <1>1, <2>2
<1> DEFINE f == Append(E, e)
<1>5. /\ f \in Seq(AllEntries) /\ Len(f) = Len(o) + 1 /\ f[Len(o) + 1] = e
      /\ \A k \in 1..Len(o) : f[k] = E[k]
  BY <1>3
<1> HIDE DEF f, E2
<1>6. ASSUME NEW k \in 1..(Len(o) + 1) PROVE E2[k] = f[k]
  <2>1. CASE k = Len(o) + 1
    BY <1>1, <1>4, <1>5, <2>1
  <2>2. CASE k # Len(o) + 1
    <3>1. k \in 1..Len(o)
      BY <2>2
    <3>2. o[k] \in Range(o)
      BY <3>1, RangeIs
    <3>3. EntryIn(h2, l2, o[k]) = EntryIn(h, l, o[k]) /\ k \in 1..(Len(o) + 1)
      BY <3>2 DEF SameIn
    <3> QED BY <1>1, <1>3, <1>4, <1>5, <3>1, <3>3
  <2> QED BY <2>1, <2>2
<1>7. E2 = f
  BY <1>4, <1>5, <1>6, SeqEqual
<1> QED
  BY <1>7 DEF E2, f, E, o2

\* Without the first node of the order, the first entry is gone.
LEMMA EntriesTail ==
  ASSUME NEW o \in Seq(Index), o # <<>>, NEW h, NEW l, Proper(h, l, o)
  PROVE  EntriesOf(h, l, Tail(o)) = Tail(EntriesOf(h, l, o))
<1> DEFINE t == Tail(o)
           E == EntriesOf(h, l, o)
           E2 == EntriesOf(h, l, t)
<1>1. t \in Seq(Index) /\ Len(t) = Len(o) - 1 /\ \A k \in 1..(Len(o) - 1) : t[k] = o[k + 1]
  OBVIOUS
<1>2. E \in Seq(AllEntries) /\ Len(E) = Len(o) /\ \A n \in 1..Len(o) : E[n] = EntryIn(h, l, o[n])
  BY EntriesAre
<1>3. Len(o) \in Nat /\ Len(o) >= 1
  OBVIOUS
<1> HIDE DEF t, E
<1>4. \A j \in Range(t) : j \in Range(o)
  <2> SUFFICES ASSUME NEW j \in Range(t) PROVE j \in Range(o)
    OBVIOUS
  <2>1. PICK k \in 1..Len(t) : t[k] = j
    BY <1>1, RangeIs
  <2>2. k \in 1..(Len(o) - 1) /\ k + 1 \in 1..Len(o)
    BY <1>1, <1>3
  <2> QED BY <1>1, <2>1, <2>2, RangeIs
<1>5. E2 \in Seq(AllEntries) /\ Len(E2) = Len(o) - 1 /\ \A n \in 1..(Len(o) - 1) : E2[n] = EntryIn(h, l, t[n])
  <2>1. E2 \in Seq(AllEntries) /\ Len(E2) = Len(t) /\ \A n \in 1..Len(t) : E2[n] = EntryIn(h, l, t[n])
    <3>1. t \in Seq(Index) /\ Proper(h, l, t)
      BY <1>1, <1>4 DEF Proper
    <3> QED BY <3>1, EntriesAre
  <2> HIDE DEF E2
  <2> QED BY <1>1, <2>1
<1> DEFINE f == Tail(E)
<1>6. f \in Seq(AllEntries) /\ Len(f) = Len(o) - 1 /\ \A k \in 1..(Len(o) - 1) : f[k] = E[k + 1]
  <2>1. E # <<>>
    BY <1>2, <1>3
  <2> QED BY <1>2, <2>1
<1> HIDE DEF f, E2
<1>7. ASSUME NEW k \in 1..(Len(o) - 1) PROVE E2[k] = f[k]
  <2>1. k + 1 \in 1..Len(o)
    BY <1>3
  <2> QED BY <1>1, <1>2, <1>5, <1>6, <2>1
<1>8. E2 = f
  BY <1>5, <1>6, <1>7, SeqEqual
<1> QED
  BY <1>8 DEF E2, f, E, t

\* The entries of the nodes in use.
LEMMA UsedEntries ==
  ASSUME LruInv
  PROVE  /\ Proper(hash, list, order)
         /\ Len(Entries) = Len(order)
         /\ \A n \in 1..Len(order) : Entries[n] = EntryIn(hash, list, order[n])
         /\ Distinct(order) /\ order \in Seq(Index) /\ Range(order) \subseteq Index
<1>1. order \in Seq(Index) /\ RingInv /\ list \in [Index -> ListNode]
  BY DEF LruInv, LruTypeOK
<1>2. ASSUME NEW i \in Range(order) PROVE EntryIn(hash, list, i) \in AllEntries
  <2>1. ItemIn(hash, list[i].bucket) \in Items /\ i \in Index
    BY UsedNode
  <2>2. list[i].v \in AllValues
    BY <1>1, <2>1 DEF ListNode
  <2> QED BY <2>1, <2>2 DEF EntryIn, AllEntries
<1>3. Len(Entries) = Len(order) /\ \A n \in 1..Len(order) : Entries[n] = EntryIn(hash, list, order[n])
  <2>1. Proper(hash, list, order)
    BY <1>2 DEF Proper
  <2> QED BY <1>1, <2>1, EntriesAre, EntriesIs
<1> QED
  BY <1>1, <1>2, <1>3, OrderDistinct, RangeIs DEF Proper, Distinct

\* get returns the value of an entry of the item, and makes it the last used.
LEMMA GetEntries ==
  ASSUME LruInv, NEW x \in Items, get(x)
  PROVE  \E r \in Values[x] :
           /\ call' = [op |-> "get", item |-> x, ret |-> r]
           /\ \E n \in 1..Len(Entries) :
                /\ Entries[n] = [item |-> x, v |-> r]
                /\ Entries' = Append(RemoveAt(Entries, n), Entries[n])
<1> DEFINE b == get_probing_bucket(x)
           i == hash[b].index
<1>1. b \in Buckets /\ Holds(b, x)
  BY GetFound DEF get
<1> HIDE DEF b
<1>2. /\ list[i].bucket = b /\ ItemIn(hash, b) = x /\ list[i].v \in Values[x] /\ i \in Range(order)
      /\ \E q \in 1..Len(order) : order[q] = i
  BY <1>1, HeldBucket
<1>3. PICK q \in 1..Len(order) : order[q] = i
  BY <1>2
<1>4. /\ ReadAdjust(list, order[q]) /\ order' = Used(order[q]) /\ hash' = hash
      /\ call' = [op |-> "get", item |-> x, ret |-> list[i].v]
  BY <1>3 DEF get, Called, b
<1>5. list \in [Index -> ListNode]
  BY DEF LruInv, LruTypeOK
<1>6. order' = Append(RemoveAt(order, q), order[q]) /\ SameEntries(list, list')
  BY <1>4, <1>5, UseStep
<1>7. /\ Proper(hash, list, order) /\ Distinct(order)
      /\ Len(Entries) = Len(order) /\ Entries[q] = EntryIn(hash, list, order[q])
      /\ order \in Seq(Index) /\ Range(order) \subseteq Index
  BY UsedEntries
<1>8. \A k \in Range(order) : EntryIn(hash', list', k) = EntryIn(hash, list, k)
  BY <1>4, <1>6, <1>7 DEF EntryIn, SameEntries
<1>9. Entries' = Append(RemoveAt(Entries, q), Entries[q])
  <2>1. /\ EntryIn(hash', list', order[q]) \in AllEntries
        /\ EntryIn(hash', list', order[q]) = EntryIn(hash, list, order[q])
    BY <1>2, <1>3, <1>7, <1>8 DEF Proper
  <2>2. SameIn(Range(order) \ {order[q]}, hash, list, hash', list')
    BY <1>8 DEF SameIn
  <2>3. EntriesOf(hash', list', Append(RemoveAt(order, q), order[q]))
          = Append(RemoveAt(EntriesOf(hash, list, order), q), EntryIn(hash', list', order[q]))
    <3> HIDE DEF i
    <3> QED BY <1>7, <2>1, <2>2, EntriesAgain
  <2> QED BY <1>6, <1>7, <2>1, <2>3, EntriesIs
<1>10. Entries[q] = [item |-> x, v |-> list[i].v]
  BY <1>2, <1>3, <1>7 DEF EntryIn
<1> QED
  BY <1>2, <1>4, <1>7, <1>9, <1>10

\* put over an entry in use makes it the last used.
LEMMA PutOverEntries ==
  ASSUME LruInv, NEW x \in Items, NEW v \in Values[x], NEW overwrite \in Overwrites,
         put(x, v, overwrite), NEW b, b = put_probing_bucket(x, overwrite), b \in Buckets,
         Holds(b, x), PutIndex(b, x) = hash[b].index
  PROVE  \E n \in 1..Len(Entries) :
           /\ Entries[n].item = x
           /\ Entries' = Append(RemoveAt(Entries, n), [item |-> x, v |-> v])
<1> DEFINE i == hash[b].index
<1>0. PICK q \in 1..Len(order), l \in [Index -> ListNode] :
        /\ order[q] = hash[b].index /\ hash' = hash
        /\ ReadAdjust(l, order[q]) /\ order' = Used(order[q])
        /\ WithValue(l, order[q], v)
  BY PutOverIs
<1>1. /\ order[q] = i /\ hash' = hash
      /\ \A k \in Index : /\ l[k].next = list[k].next /\ l[k].last = list[k].last
                          /\ l[k].key = list[k].key /\ l[k].bucket = list[k].bucket
                          /\ l[k].v = IF k = i THEN v ELSE list[k].v
  BY <1>0 DEF WithValue
<1>2. i \in Index /\ i \in Range(order) /\ list[i].bucket = b /\ ItemIn(hash, b) = x
  BY HeldBucket
<1>3. order' = Append(RemoveAt(order, q), order[q]) /\ SameEntries(l, list')
  <2>1. ReadAdjust(l, order[q]) /\ order' = Used(order[q])
    BY <1>0
  <2>2. \A k \in Index : /\ l[k].next = list[k].next /\ l[k].last = list[k].last
                         /\ l[k].key = list[k].key /\ l[k].bucket = list[k].bucket
    BY <1>1
  <2> HIDE DEF i
  <2> QED BY <1>1, <2>1, <2>2, UseStep
<1>4. /\ Proper(hash, list, order) /\ Distinct(order)
      /\ Len(Entries) = Len(order) /\ Entries[q] = EntryIn(hash, list, order[q])
      /\ order \in Seq(Index) /\ Range(order) \subseteq Index
  BY UsedEntries
<1>5. \A k \in Index : list'[k].v = l[k].v /\ list'[k].bucket = l[k].bucket
  BY <1>3 DEF SameEntries
<1>6. /\ EntryIn(hash', list', order[q]) = [item |-> x, v |-> v]
      /\ Entries[q].item = x
  <2>1. list'[i].bucket = b /\ list'[i].v = v
    BY <1>1, <1>2, <1>5
  <2> QED BY <1>1, <1>2, <1>4, <2>1 DEF EntryIn
<1>7. EntryIn(hash', list', order[q]) \in AllEntries
  <2>1. v \in AllValues
    BY DEF AllValues
  <2> QED BY <1>6, <2>1 DEF AllEntries
<1>8. SameIn(Range(order) \ {order[q]}, hash, list, hash', list')
  <2>1. \A k \in Range(order) \ {order[q]} : k \in Index /\ k # i
    BY <1>1, <1>4
  <2>2. \A k \in Range(order) \ {order[q]} : list'[k].v = list[k].v /\ list'[k].bucket = list[k].bucket
    BY <1>1, <1>5, <2>1
  <2> QED BY <1>1, <2>2 DEF SameIn, EntryIn
<1>9. EntriesOf(hash', list', Append(RemoveAt(order, q), order[q]))
        = Append(RemoveAt(EntriesOf(hash, list, order), q), EntryIn(hash', list', order[q]))
  <2>1. /\ order \in Seq(Index) /\ q \in 1..Len(order) /\ Distinct(order) /\ Proper(hash, list, order)
        /\ SameIn(Range(order) \ {order[q]}, hash, list, hash', list')
        /\ EntryIn(hash', list', order[q]) \in AllEntries
    BY <1>4, <1>7, <1>8
  <2> QED BY ONLY <2>1, EntriesAgain
<1> QED
  BY <1>3, <1>4, <1>6, <1>9, EntriesIs

\* put on an empty bucket adds an entry; a full cache gives up its least recently used.
LEMMA PutNewEntries ==
  ASSUME LruInv, NEW x \in Items, NEW v \in Values[x], NEW overwrite \in Overwrites,
         put(x, v, overwrite), NEW b, b = put_probing_bucket(x, overwrite), b \in Buckets,
         hash[b] = NoHash, PutIndex(b, x) = head
  PROVE  Entries' = Append(IF Len(Entries) = Capacity - 1 THEN Tail(Entries) ELSE Entries,
                           [item |-> x, v |-> v])
<1>1. WriteAdjust(FilledHash(x, b), FilledList(x, v, b)) /\ order' = Used(head)
  BY DEF put, FilledHash, FilledList, NewBucket
<1>2. v \in AllValues
  BY DEF AllValues
<1>3. /\ order' = Append(IF Len(order) = Capacity - 1 THEN Tail(order) ELSE order, head)
      /\ head \notin Range(order)
      /\ list'[head].v = v /\ list'[head].bucket = b
      /\ \A k \in Index \ (Gone \cup {head}) : list'[k].v = list[k].v /\ list'[k].bucket = list[k].bucket
      /\ hash'[b] = NewBucket(x)
      /\ \A c \in Buckets \ {b} : hash'[c] = IF hash[c].index \in Gone THEN NoHash ELSE hash[c]
  BY <1>1, <1>2, NewStep
<1>4. /\ Proper(hash, list, order) /\ Distinct(order)
      /\ Len(Entries) = Len(order) /\ order \in Seq(Index) /\ Range(order) \subseteq Index
      /\ head \in Index /\ RingInv /\ list \in [Index -> ListNode]
  BY UsedEntries DEF LruInv, LruTypeOK
<1>5. EntryIn(hash', list', head) = [item |-> x, v |-> v] /\ EntryIn(hash', list', head) \in AllEntries
  <2>1. NewBucket(x).key = x[1] /\ NewBucket(x).raw = x[2]
    BY DEF NewBucket
  <2>2. ItemIn(hash', b) = x
    BY <1>3, <2>1, LruAssumption DEF ItemIn
  <2>3. EntryIn(hash', list', head) = [item |-> x, v |-> v]
    BY <1>3, <2>2 DEF EntryIn
  <2> QED BY <1>2, <2>3 DEF AllEntries
<1>6. SameIn(Range(order) \ Gone, hash, list, hash', list')
  <2> SUFFICES ASSUME NEW k \in Range(order), k \notin Gone
               PROVE  EntryIn(hash', list', k) = EntryIn(hash, list, k)
    BY DEF SameIn
  <2>1. list'[k].v = list[k].v /\ list'[k].bucket = list[k].bucket
    BY <1>3, <1>4
  <2>2. list[k].bucket \in Buckets /\ hash[list[k].bucket].index = k /\ k \in Index
    BY UsedNode
  <2>3. list[k].bucket # b
    BY <2>2, NoHashIs, InvalidIndex
  <2>4. hash'[list[k].bucket] = hash[list[k].bucket]
    BY <1>3, <2>2, <2>3
  <2> QED BY <2>1, <2>4 DEF EntryIn, ItemIn
<1>7. PICK w \in [0..Capacity -> Index] : Ringed(w, list, head, tail, order)
  BY <1>4 DEF RingInv
<1>8. /\ tail = list[head].next <=> Len(order) = Capacity - 1
      /\ tail = list[head].next => order # <<>> /\ order[1] = tail
  BY <1>4, <1>7, RingWritten
<1>9. CASE Len(order) = Capacity - 1
  <2> DEFINE t == Tail(order)
  <2>1. order # <<>> /\ order[1] = tail /\ Gone = {tail}
    BY <1>8, <1>9 DEF Gone
  <2>2. t \in Seq(Index) /\ Range(t) = Range(order) \ Gone
    BY <1>4, <2>1, TailKeeps DEF Distinct
  <2>3. EntriesOf(hash, list, t) = Tail(EntriesOf(hash, list, order))
    BY <1>4, <2>1, EntriesTail
  <2>4. order' = Append(t, head)
    BY <1>3, <1>9
  <2> HIDE DEF t
  <2>5. Proper(hash, list, t)
    BY <1>4, <2>2 DEF Proper
  <2>6. SameIn(Range(t), hash, list, hash', list')
    BY <1>6, <2>2
  <2>7. EntriesOf(hash', list', Append(t, head))
          = Append(EntriesOf(hash, list, t), EntryIn(hash', list', head))
    <3>1. /\ t \in Seq(Index) /\ head \in Index /\ Proper(hash, list, t)
          /\ SameIn(Range(t), hash, list, hash', list')
          /\ EntryIn(hash', list', head) \in AllEntries
      BY <1>4, <1>5, <2>2, <2>5, <2>6
    <3> QED BY ONLY <3>1, EntriesNew
  <2> QED BY <1>4, <1>5, <1>9, <2>3, <2>4, <2>7, EntriesIs
<1>10. CASE Len(order) # Capacity - 1
  <2>1. Gone = {}
    BY <1>8, <1>10 DEF Gone
  <2>2. order' = Append(order, head)
    BY <1>3, <1>10
  <2>3. SameIn(Range(order), hash, list, hash', list')
    <3>1. Range(order) \ Gone = Range(order)
      BY <2>1
    <3> QED BY <1>6, <3>1
  <2>4. EntriesOf(hash', list', Append(order, head))
          = Append(EntriesOf(hash, list, order), EntryIn(hash', list', head))
    BY <1>4, <1>5, <2>3, EntriesNew
  <2> QED BY <1>4, <1>5, <1>10, <2>2, <2>4, EntriesIs
<1> QED
  BY <1>9, <1>10

\* For every capacity, probing bound and set of items, the cache is a bounded list of
\* entries in the order of last use.
THEOREM LruImplementsLruList == Spec => ImplementsLruList
<1>1. Init => Lru!Init
  <2> SUFFICES ASSUME Init PROVE Lru!Init
    OBVIOUS
  <2>1. order = <<>> /\ call = [op |-> "init", item |-> NULL, ret |-> "0"]
    BY DEF Init
  <2>2. Entries = <<>>
    BY <2>1 DEF Entries
  <2> QED BY <2>1, <2>2 DEF Lru!Init
<1>2. ASSUME LruInv, LruInv', [Next]_vars PROVE [Lru!Next]_(Lru!vars)
  <2>1. ASSUME NEW x \in Items, get(x) PROVE Lru!GetHit(x)
    <3>1. PICK r \in Values[x] :
            /\ call' = [op |-> "get", item |-> x, ret |-> r]
            /\ \E n \in 1..Len(Entries) :
                 /\ Entries[n] = [item |-> x, v |-> r]
                 /\ Entries' = Append(RemoveAt(Entries, n), Entries[n])
      BY <1>2, <2>1, GetEntries
    <3> QED BY <3>1 DEF Lru!GetHit, Lru!Called, Lru!RemoveAt, RemoveAt
  <2>2. ASSUME NEW x \in Items, GetMiss(x) PROVE Lru!GetMiss(x)
    <3>1. \A b \in Buckets : ~ Holds(b, x)
      BY <1>2, <2>2, GetNotFound DEF GetMiss
    <3>2. ASSUME NEW n \in 1..Len(Entries) PROVE Entries[n].item # x
      <4>1. order[n] \in Range(order) /\ Entries[n] = EntryIn(hash, list, order[n])
        BY <1>2, UsedEntries, RangeIs
      <4>2. /\ list[order[n]].bucket \in Buckets
            /\ Holds(list[order[n]].bucket, ItemIn(hash, list[order[n]].bucket))
        BY <1>2, <4>1, UsedNode
      <4>3. Entries[n].item = ItemIn(hash, list[order[n]].bucket)
        BY <4>1 DEF EntryIn
      <4> QED BY <3>1, <4>2, <4>3
    <3>3. Entries' = Entries /\ call' = [op |-> "get", item |-> x, ret |-> NULL]
      BY <2>2 DEF GetMiss, Called, Entries, EntryOf
    <3> QED BY <3>2, <3>3 DEF Lru!GetMiss, Lru!Called
  <2>3. ASSUME NEW x \in Items, NEW overwrite \in Overwrites, PutFails(x, overwrite)
        PROVE  Lru!PutFails(x)
    BY <2>3 DEF PutFails, Lru!PutFails, Lru!Called, Called, Entries, EntryOf
  <2>4. ASSUME NEW x \in Items, NEW overwrite \in Overwrites, NEW v \in Values[x],
               put(x, v, overwrite)
        PROVE  Lru!Put(x)
    <3> DEFINE b == put_probing_bucket(x, overwrite)
    <3>1. b # INVALID_INDEX /\ call' = [op |-> "put", item |-> x, ret |-> "0"]
      BY <2>4 DEF put, Called
    <3>2. /\ b \in Buckets
          /\ \/ hash[b] = NoHash /\ PutIndex(b, x) = head
             \/ Holds(b, x) /\ PutIndex(b, x) = hash[b].index
      BY <1>2, <3>1, PutFound
    <3>3. b = put_probing_bucket(x, overwrite)
      OBVIOUS
    <3> HIDE DEF b
    <3>4. CASE hash[b] = NoHash /\ PutIndex(b, x) = head
      <4>1. Entries' = Append(IF Len(Entries) = Capacity - 1 THEN Tail(Entries) ELSE Entries,
                              [item |-> x, v |-> v])
        BY <1>2, <2>4, <3>2, <3>3, <3>4, PutNewEntries
      <4> QED BY <3>1, <4>1 DEF Lru!Put, Lru!Called, Lru!MakeRoom
    <3>5. CASE Holds(b, x) /\ PutIndex(b, x) = hash[b].index
      <4>1. \E n \in 1..Len(Entries) :
              /\ Entries[n].item = x
              /\ Entries' = Append(RemoveAt(Entries, n), [item |-> x, v |-> v])
        BY <1>2, <2>4, <3>2, <3>3, <3>5, PutOverEntries
      <4> QED BY <3>1, <4>1 DEF Lru!Put, Lru!Called, Lru!RemoveAt, RemoveAt
    <3> QED BY <3>2, <3>4, <3>5
  <2>5. ASSUME UNCHANGED vars PROVE UNCHANGED Lru!vars
    BY <2>5 DEF vars, Lru!vars, Entries, EntryOf
  <2> QED BY <1>2, <2>1, <2>2, <2>3, <2>4, <2>5 DEF Next, Lru!Next
<1> QED
  BY <1>1, <1>2, LruInvariant, PTL DEF Spec, ImplementsLruList, Lru!Spec
=============================================================================
