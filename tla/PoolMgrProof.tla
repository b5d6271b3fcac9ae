---------------------------- MODULE PoolMgrProof ----------------------------
(***************************************************************************)
(* Proofs about the thread pool and its two resource stacks, for any       *)
(* number of clients and workers and any pool size.                        *)
(*                                                                         *)
(* What the workers can lose is a matter of counting: produce makes a      *)
(* holder with every element, so the producer stack has as many holders as *)
(* elements were produced, and when it refuses an element every one of     *)
(* those holders is taken, by elements that are still there.               *)
(***************************************************************************)
EXTENDS PoolMgr, FiniteSetTheorems, SequenceTheorems, TLAPS

ClientPlaces == {"idle", "pop", "pop_put", "check", "force", "force_put", "produce", "load",
                 "store", "got", "push", "push_put"}
WorkerPlaces == {"new", "created", "loop", "exited", "take", "take_put", "recycle", "recycle_put",
                 "refused"}

PoolTypeOK ==
  /\ aviable \in [Stacks -> Seq(Holders)] /\ empty \in [Stacks -> Seq(Holders)]
  /\ slot \in [Holders -> Elements \cup {NULL}]
  /\ made \subseteq Holders /\ produced \subseteq Resources /\ leaked \subseteq produced
  /\ lost \subseteq (produced \ leaked) \cup Own
  /\ freed \subseteq Holders \cup Elements
  /\ pc \in [Threads -> ClientPlaces \cup WorkerPlaces]
  /\ \A c \in Clients : pc[c] \in ClientPlaces
  /\ \A w \in Workers : pc[w] \in WorkerPlaces
  /\ hoder \in [Threads -> Holders \cup {NULL}]
  /\ elem \in [Threads -> Elements \cup {NULL}]
  /\ mine \in [Clients -> SUBSET Elements]
  /\ main \in {"init", "started", "stopped", "joined", "deleted"}

\* The workers run from start to wait, and a deleted pool is not used.
MainInv ==
  /\ main = "init" => \A w \in Workers : pc[w] = "new"
  /\ main = "joined" => \A w \in Workers : pc[w] = "exited"
  /\ main = "deleted" => /\ \A c \in Clients : pc[c] = "idle"
                         /\ \A w \in Workers : pc[w] \in {"new", "exited"}
  /\ main # "deleted" => freed = {}

\* Where a thread has a holder, a holder with an element in it, and an element.
Holding == {"pop_put", "force_put", "push_put", "take_put", "recycle_put"}
Filling == {"push_put", "recycle_put"}
Carrying == {"pop_put", "force_put", "push", "take_put", "recycle", "refused"}
HandsInv ==
  \A t \in Threads : /\ hoder[t] # NULL <=> pc[t] \in Holding
                     /\ pc[t] \in Carrying => elem[t] # NULL
                     /\ pc[t] \notin Carrying \cup {"load", "store", "got"} => elem[t] = NULL

\* Holder h is in one of the Lifos f[s], and no holder is in f twice.
On(f, h) == \E s \in Stacks : \E i \in 1..Len(f[s]) : f[s][i] = h
Distinct(f) == \A s, u \in Stacks : \A i \in 1..Len(f[s]), j \in 1..Len(f[u]) :
                 f[s][i] = f[u][j] => s = u /\ i = j

\* A holder is aviable, empty, in one thread's hands or, in the end, deleted.
HolderInv ==
  /\ Distinct(aviable) /\ Distinct(empty)
  /\ \A h \in Holders : ~ (On(aviable, h) /\ On(empty, h))
  /\ \A t \in Threads : hoder[t] # NULL => ~ On(aviable, hoder[t]) /\ ~ On(empty, hoder[t])
  /\ \A t, u \in Threads : hoder[t] = hoder[u] /\ hoder[t] # NULL => t = u
  /\ \A h \in Holders : On(aviable, h) \/ On(empty, h) \/ h \in freed => h \in made
  /\ \A t \in Threads : hoder[t] \in made \cup {NULL}
  /\ \A h \in made : \/ On(aviable, h) \/ On(empty, h) \/ h \in freed
                     \/ \E t \in Threads : hoder[t] = h
  /\ main = "deleted" => \A h \in Holders : ~ On(aviable, h) /\ ~ On(empty, h)

\* What a holder carries: the pointer of one that carries nothing may be anything.
content == [h \in Holders |-> IF \/ On(aviable, h)
                                 \/ \E t \in Threads : pc[t] \in Filling /\ hoder[t] = h
                              THEN slot[h] ELSE NULL]

\* The holders that carry an element.
SlotInv ==
  \A h \in Holders : \/ On(aviable, h)
                     \/ \E t \in Threads : pc[t] \in Filling /\ hoder[t] = h
                     => slot[h] # NULL

\* An element is with a client, in one thread's hands, in a holder or deleted.
ElemInv ==
  /\ \A c \in Clients : mine[c] \subseteq Live
  /\ \A t \in Threads : elem[t] \in Live \cup {NULL}
  /\ \A h \in Holders : content[h] \in Live \cup {NULL}
  /\ freed \cap Elements \subseteq Live
  /\ \A c, d \in Clients : c # d => mine[c] \cap mine[d] = {}
  /\ \A t, u \in Threads : elem[t] = elem[u] /\ elem[t] # NULL => t = u
  /\ \A h, k \in Holders : content[h] = content[k] /\ content[h] # NULL => h = k
  /\ \A c \in Clients, t \in Threads : elem[t] \notin mine[c]
  /\ \A c \in Clients, h \in Holders : content[h] \notin mine[c]
  /\ \A t \in Threads, h \in Holders : elem[t] = content[h] => elem[t] = NULL
  /\ \A c \in Clients : mine[c] \cap freed = {}
  /\ \A e \in Live : \/ \E c \in Clients : e \in mine[c]
                     \/ \E t \in Threads : elem[t] = e
                     \/ \E h \in Holders : content[h] = e
                     \/ e \in freed

\* How many holders of each stack are empty, aviable and in a thread's hands; how many
\* elements threads have in such a holder and without one; how many clients have, and
\* how many there are.
At(places) == {t \in Threads : pc[t] \in places}
Carriers  == {t \in Threads : elem[t] # NULL}
Mine      == UNION {mine[c] : c \in Clients}

PEmpty == Len(empty["producer"])
PAviable == Len(aviable["producer"])
PHeld == Cardinality(At({"pop_put", "force_put", "recycle_put"}))
CEmpty == Len(empty["consumer"])
CAviable == Len(aviable["consumer"])
CHeld == Cardinality(At({"push_put", "take_put"}))
Filled == Cardinality(At(Filling))
Carried == Cardinality(Carriers)
Kept == Cardinality(Mine)
All == Cardinality(Live)
Given == Cardinality(produced \ leaked)
Dropping == Cardinality(At({"refused"}))

\* The producer stack has a holder for every element, the consumer stack as many
\* as init gave it, and every element is somewhere.
CountInv ==
  main # "deleted" => /\ PEmpty + PAviable + PHeld = Given
                      /\ CEmpty + CAviable + CHeld = PoolSize
                      /\ All = Kept + Carried + Filled + PAviable + CAviable

\* What the workers have lost, and what they have been refused and are about to lose,
\* is outweighed by what the clients have made themselves.
LossInv == Given + Dropping <= All

PoolInv == /\ PoolTypeOK /\ MainInv /\ HandsInv /\ HolderInv /\ SlotInv /\ ElemInv
           /\ CountInv /\ LossInv

\* The kinds of memory are apart.
LEMMA Apart ==
  /\ NULL \notin Elements /\ NULL \notin Holders /\ Holders \cap Elements = {}
  /\ Resources \subseteq Elements /\ Own \subseteq Elements /\ Resources \cap Own = {}
  /\ IsFiniteSet(Elements)
  <1>1. IsFiniteSet(Resources) /\ IsFiniteSet(Own)
    BY PoolAssumption
  <1>2. IsFiniteSet(Resources \cup Own)
    BY <1>1, FS_Union
  <1> QED
    BY <1>2, StackAssumption, PoolAssumption DEF Elements

LEMMA LiveElements ==
  ASSUME PoolTypeOK
  PROVE  Live \subseteq Elements /\ NULL \notin Live
  BY Apart DEF PoolTypeOK, Live

-----------------------------------------------------------------------------
(* The Lifos.                                                              *)

LEMMA PushEffect ==
  ASSUME NEW f \in [Stacks -> Seq(Holders)], Distinct(f), NEW s \in Stacks, NEW h \in Holders,
         ~ On(f, h)
  PROVE  /\ LifoPush(f, s, h) \in [Stacks -> Seq(Holders)]
         /\ Distinct(LifoPush(f, s, h))
         /\ \A x : On(LifoPush(f, s, h), x) <=> On(f, x) \/ x = h
         /\ Len(LifoPush(f, s, h)[s]) = Len(f[s]) + 1
         /\ \A u \in Stacks : u # s => LifoPush(f, s, h)[u] = f[u]
  <1> DEFINE g == LifoPush(f, s, h)
             n == Len(f[s])
  <1>1. /\ g \in [Stacks -> Seq(Holders)] /\ g[s] = Append(f[s], h)
        /\ \A u \in Stacks : u # s => g[u] = f[u]
    BY DEF LifoPush
  <1>2. f[s] \in Seq(Holders) /\ n \in Nat
    OBVIOUS
  <1>3. Len(g[s]) = n + 1 /\ g[s][n + 1] = h /\ \A i \in 1..n : g[s][i] = f[s][i]
    BY <1>1, <1>2
  <1>4. \A i \in 1..(n + 1) : i \in 1..n \/ i = n + 1
    BY <1>2
  <1>5. ASSUME NEW u \in Stacks, NEW i \in 1..Len(g[u])
        PROVE  \/ i \in 1..Len(f[u]) /\ g[u][i] = f[u][i]
               \/ u = s /\ i = n + 1 /\ g[u][i] = h
    BY <1>1, <1>3, <1>4
  <1>6. ASSUME NEW u \in Stacks, NEW i \in 1..Len(f[u])
        PROVE  i \in 1..Len(g[u]) /\ g[u][i] = f[u][i] /\ f[u][i] # h
    <2>1. f[u][i] # h
      BY DEF On
    <2>2. CASE u = s
      BY <1>2, <1>3, <2>1, <2>2
    <2>3. CASE u # s
      BY <1>1, <2>1, <2>3
    <2> QED
      BY <2>2, <2>3
  <1> HIDE DEF g, n
  <1>7. Distinct(g)
    <2> SUFFICES ASSUME NEW u \in Stacks, NEW v \in Stacks, NEW i \in 1..Len(g[u]),
                        NEW j \in 1..Len(g[v]), g[u][i] = g[v][j]
                 PROVE  u = v /\ i = j
      BY DEF Distinct
    <2>1. \/ i \in 1..Len(f[u]) /\ g[u][i] = f[u][i] /\ f[u][i] # h
          \/ u = s /\ i = n + 1 /\ g[u][i] = h
      BY <1>5, <1>6
    <2>2. \/ j \in 1..Len(f[v]) /\ g[v][j] = f[v][j] /\ f[v][j] # h
          \/ v = s /\ j = n + 1 /\ g[v][j] = h
      BY <1>5, <1>6
    <2>3. CASE i \in 1..Len(f[u]) /\ j \in 1..Len(f[v]) /\ f[u][i] = f[v][j]
      BY <2>3 DEF Distinct
    <2> QED
      BY <2>1, <2>2, <2>3
  <1>8. \A x : On(g, x) <=> On(f, x) \/ x = h
    <2> TAKE x
    <2>1. ASSUME On(g, x) PROVE On(f, x) \/ x = h
      BY <1>5, <2>1 DEF On
    <2>2. ASSUME On(f, x) PROVE On(g, x)
      BY <1>6, <2>2 DEF On
    <2>3. On(g, h)
      <3>1. n + 1 \in 1..Len(g[s])
        BY <1>2, <1>3
      <3> QED
        BY <1>3, <3>1 DEF On
    <2> QED
      BY <2>1, <2>2, <2>3
  <1> QED
    BY <1>1, <1>3, <1>7, <1>8 DEF g, n

LEMMA PopEffect ==
  ASSUME NEW f \in [Stacks -> Seq(Holders)], Distinct(f), NEW s \in Stacks, f[s] # <<>>
  PROVE  /\ LifoPop(f, s) \in [Stacks -> Seq(Holders)]
         /\ Distinct(LifoPop(f, s))
         /\ LifoTop(f, s) \in Holders /\ On(f, LifoTop(f, s))
         /\ \A x : On(LifoPop(f, s), x) <=> On(f, x) /\ x # LifoTop(f, s)
         /\ Len(LifoPop(f, s)[s]) = Len(f[s]) - 1 /\ Len(f[s]) \in Nat \ {0}
         /\ \A u \in Stacks : u # s => LifoPop(f, s)[u] = f[u]
  <1> DEFINE g == LifoPop(f, s)
             n == Len(f[s])
             h == LifoTop(f, s)
  <1>1. f[s] \in Seq(Holders) /\ n \in Nat \ {0} /\ n - 1 \in Nat
    OBVIOUS
  <1>2. SubSeq(f[s], 1, n - 1) \in Seq(Holders) /\ Len(SubSeq(f[s], 1, n - 1)) = n - 1
    <2>1. 1 \in Int /\ n - 1 \in Int /\ \A i \in 1..(n - 1) : f[s][i] \in Holders
      BY <1>1
    <2>2. /\ SubSeq(f[s], 1, n - 1) \in Seq(Holders)
          /\ Len(SubSeq(f[s], 1, n - 1)) = IF 1 <= n - 1 THEN (n - 1) - 1 + 1 ELSE 0
      BY <2>1, SubSeqProperties
    <2> HIDE DEF n
    <2>3. (IF 1 <= n - 1 THEN (n - 1) - 1 + 1 ELSE 0) = n - 1
      BY <1>1
    <2> QED
      BY <2>2, <2>3
  <1>3. /\ g \in [Stacks -> Seq(Holders)] /\ g[s] = SubSeq(f[s], 1, n - 1)
        /\ \A u \in Stacks : u # s => g[u] = f[u]
    BY <1>2 DEF LifoPop
  <1>4. \A i \in 1..(n - 1) : g[s][i] = f[s][i] /\ i \in 1..n
    BY <1>1, <1>3
  <1>5. h = f[s][n] /\ n \in 1..n /\ h \in Holders
    BY <1>1 DEF LifoTop
  <1>6. ASSUME NEW u \in Stacks, NEW i \in 1..Len(g[u])
        PROVE  i \in 1..Len(f[u]) /\ g[u][i] = f[u][i] /\ (u = s => i # n)
    BY <1>1, <1>2, <1>3, <1>4
  <1>7. ASSUME NEW u \in Stacks, NEW i \in 1..Len(f[u])
        PROVE  \/ u = s /\ i = n
               \/ i \in 1..Len(g[u]) /\ g[u][i] = f[u][i]
    BY <1>1, <1>2, <1>3, <1>4
  <1> HIDE DEF g, h
  <1>8. Distinct(g)
    BY <1>6 DEF Distinct
  <1>9. \A x : On(g, x) <=> On(f, x) /\ x # h
    <2> TAKE x
    <2>1. ASSUME On(g, x) PROVE On(f, x) /\ x # h
      <3>0. PICK u \in Stacks : \E i \in 1..Len(g[u]) : g[u][i] = x
        BY <2>1 DEF On
      <3>1. PICK i \in 1..Len(g[u]) : g[u][i] = x
        BY <3>0
      <3>2. i \in 1..Len(f[u]) /\ f[u][i] = x /\ (u = s => i # n)
        BY <1>6, <3>1
      <3>3. x # h
        BY <1>5, <3>2 DEF Distinct
      <3> QED
        BY <3>2, <3>3 DEF On
    <2>2. ASSUME On(f, x), x # h PROVE On(g, x)
      BY <1>5, <1>7, <2>2 DEF On
    <2> QED
      BY <2>1, <2>2
  <1>10. On(f, h)
    BY <1>5 DEF On
  <1> QED
    BY <1>1, <1>2, <1>3, <1>5, <1>8, <1>9, <1>10 DEF g, h

-----------------------------------------------------------------------------
(* Everything but the counts.                                              *)

StackInv == PoolTypeOK /\ MainInv /\ HandsInv /\ HolderInv /\ SlotInv /\ ElemInv

\* One thread goes from one place to another.
LEMMA Went ==
  ASSUME StackInv, NEW t \in Threads, NEW l, Goto(t, l)
  PROVE  \A u \in Threads : pc'[u] = IF u = t THEN l ELSE pc[u]
  BY DEF StackInv, PoolTypeOK, Goto

\* The places of clients and workers.
OwnPlace(t, l) == l \in ClientPlaces \cup WorkerPlaces /\ (t \in Clients => l \in ClientPlaces)
                  /\ (t \in Workers => l \in WorkerPlaces)

LEMMA WentType ==
  ASSUME StackInv, NEW t \in Threads, NEW l, Goto(t, l), OwnPlace(t, l)
  PROVE  /\ pc' \in [Threads -> ClientPlaces \cup WorkerPlaces]
         /\ \A c \in Clients : pc'[c] \in ClientPlaces
         /\ \A w \in Workers : pc'[w] \in WorkerPlaces
  <1>1. pc \in [Threads -> ClientPlaces \cup WorkerPlaces]
    BY DEF StackInv, PoolTypeOK
  <1>2. pc' \in [Threads -> ClientPlaces \cup WorkerPlaces]
    BY <1>1 DEF Goto, OwnPlace
  <1>3. \A u \in Threads : pc'[u] = IF u = t THEN l ELSE pc[u]
    BY Went
  <1> QED
    BY <1>2, <1>3, PoolAssumption DEF OwnPlace, StackInv, PoolTypeOK

\* A thread in a call keeps the pool from being deleted.
LEMMA WentMain ==
  ASSUME StackInv, NEW t \in Threads, NEW l, Goto(t, l), UNCHANGED <<main, freed>>,
         pc[t] \notin {"new", "exited"}, main # "deleted"
  PROVE  MainInv'
  <1>1. \A u \in Threads : pc'[u] = IF u = t THEN l ELSE pc[u]
    BY Went
  <1>2. main = "init" \/ main = "joined" => t \notin Workers
    BY DEF StackInv, MainInv
  <1> QED
    BY <1>1, <1>2, PoolAssumption DEF StackInv, MainInv

LEMMA InUse ==
  ASSUME StackInv, NEW t \in Threads, pc[t] \notin {"idle", "new", "exited"}
  PROVE  main # "deleted" /\ freed = {}
  BY PoolAssumption DEF StackInv, MainInv

\* A holder goes from a stack to the hands of thread t.
LEMMA TakenHolder ==
  ASSUME StackInv, NEW t \in Threads, NEW h \in Holders, hoder[t] = NULL, main # "deleted",
         UNCHANGED <<made, freed, main>>, hoder' = [hoder EXCEPT ![t] = h],
         Distinct(aviable'), Distinct(empty'), On(aviable, h) \/ On(empty, h),
         \A x : On(aviable', x) <=> On(aviable, x) /\ x # h,
         \A x : On(empty', x) <=> On(empty, x) /\ x # h
  PROVE  HolderInv'
  <1>1. HolderInv /\ made \subseteq Holders
    BY DEF StackInv, PoolTypeOK
  <1>2. \A u \in Threads : hoder'[u] = IF u = t THEN h ELSE hoder[u]
    BY DEF StackInv, PoolTypeOK
  <1>3. \A u \in Threads : hoder[u] # h
    BY <1>1, Apart DEF HolderInv
  <1>4. \A k \in Holders : ~ (On(aviable', k) /\ On(empty', k))
    BY <1>1 DEF HolderInv
  <1>5. \A u \in Threads : hoder'[u] # NULL => ~ On(aviable', hoder'[u]) /\ ~ On(empty', hoder'[u])
    BY <1>1, <1>2 DEF HolderInv
  <1>6. \A u, v \in Threads : hoder'[u] = hoder'[v] /\ hoder'[u] # NULL => u = v
    BY <1>1, <1>2, <1>3 DEF HolderInv
  <1>7. \A k \in Holders : On(aviable', k) \/ On(empty', k) \/ k \in freed' => k \in made'
    BY <1>1 DEF HolderInv
  <1>8. \A u \in Threads : hoder'[u] \in made' \cup {NULL}
    BY <1>1, <1>2 DEF HolderInv
  <1>9. ASSUME NEW k \in made'
        PROVE  \/ On(aviable', k) \/ On(empty', k) \/ k \in freed'
               \/ \E u \in Threads : hoder'[u] = k
    <2>1. CASE k = h
      BY <1>2, <2>1
    <2>2. ASSUME NEW u \in Threads, hoder[u] = k PROVE hoder'[u] = k
      BY <1>1, <1>2, <2>2, Apart
    <2> QED
      BY <1>1, <2>1, <2>2 DEF HolderInv
  <1> QED
    BY <1>1, <1>4, <1>5, <1>6, <1>7, <1>8, <1>9 DEF HolderInv

\* A holder goes from the hands of thread t to one of the stacks.
LEMMA GivenHolder ==
  ASSUME StackInv, NEW t \in Threads, hoder[t] # NULL, main # "deleted",
         UNCHANGED <<made, freed, main>>, hoder' = [hoder EXCEPT ![t] = NULL],
         Distinct(aviable'), Distinct(empty'),
         \/ /\ \A x : On(aviable', x) <=> On(aviable, x) \/ x = hoder[t]
            /\ \A x : On(empty', x) <=> On(empty, x)
         \/ /\ \A x : On(aviable', x) <=> On(aviable, x)
            /\ \A x : On(empty', x) <=> On(empty, x) \/ x = hoder[t]
  PROVE  HolderInv'
  <1>1. HolderInv /\ made \subseteq Holders
    BY DEF StackInv, PoolTypeOK
  <1>2. \A u \in Threads : hoder'[u] = IF u = t THEN NULL ELSE hoder[u]
    BY DEF StackInv, PoolTypeOK
  <1>3. ~ On(aviable, hoder[t]) /\ ~ On(empty, hoder[t]) /\ hoder[t] \in made
    BY <1>1 DEF HolderInv
  <1>4. \A k \in Holders : ~ (On(aviable', k) /\ On(empty', k))
    BY <1>1, <1>3 DEF HolderInv
  <1>5. \A u \in Threads : hoder'[u] # NULL => ~ On(aviable', hoder'[u]) /\ ~ On(empty', hoder'[u])
    <2>1. \A u \in Threads : hoder'[u] # NULL => hoder'[u] = hoder[u] /\ hoder[u] # hoder[t]
      BY <1>1, <1>2 DEF HolderInv
    <2> QED
      BY <1>1, <2>1 DEF HolderInv
  <1>6. \A u, v \in Threads : hoder'[u] = hoder'[v] /\ hoder'[u] # NULL => u = v
    BY <1>1, <1>2 DEF HolderInv
  <1>7. \A k \in Holders : On(aviable', k) \/ On(empty', k) \/ k \in freed' => k \in made'
    BY <1>1, <1>3 DEF HolderInv
  <1>8. \A u \in Threads : hoder'[u] \in made' \cup {NULL}
    BY <1>1, <1>2 DEF HolderInv
  <1>9. ASSUME NEW k \in made'
        PROVE  \/ On(aviable', k) \/ On(empty', k) \/ k \in freed'
               \/ \E u \in Threads : hoder'[u] = k
    <2>1. CASE k = hoder[t]
      BY <2>1
    <2>2. ASSUME NEW u \in Threads, hoder[u] = k, k # hoder[t] PROVE hoder'[u] = k
      BY <1>2, <2>2
    <2> QED
      BY <1>1, <2>1, <2>2 DEF HolderInv
  <1> QED
    BY <1>1, <1>4, <1>5, <1>6, <1>7, <1>8, <1>9 DEF HolderInv

\* What the holders carry, by definition.
LEMMA Contents ==
  /\ \A k \in Holders : content[k] = IF \/ On(aviable, k)
                                       \/ \E t \in Threads : pc[t] \in Filling /\ hoder[t] = k
                                    THEN slot[k] ELSE NULL
  /\ \A k \in Holders : content'[k] = IF \/ On(aviable', k)
                                        \/ \E t \in Threads : pc'[t] \in Filling /\ hoder'[t] = k
                                     THEN slot'[k] ELSE NULL
  BY DEF content

\* The holders that carry something stay the same, and carry the same.
LEMMA ContentSame ==
  ASSUME SlotInv, UNCHANGED <<aviable, hoder>>,
         \A u \in Threads : pc'[u] \in Filling <=> pc[u] \in Filling,
         \A k \in Holders : \/ On(aviable, k)
                            \/ \E t \in Threads : pc[t] \in Filling /\ hoder[t] = k
                            => slot'[k] = slot[k]
  PROVE  SlotInv' /\ content' = content
  <1>1. \A k : On(aviable', k) <=> On(aviable, k)
    OBVIOUS
  <1>2. \A k : (\E t \in Threads : pc'[t] \in Filling /\ hoder'[t] = k)
               <=> \E t \in Threads : pc[t] \in Filling /\ hoder[t] = k
    OBVIOUS
  <1>3. SlotInv'
    BY <1>1, <1>2 DEF SlotInv
  <1>4. content' = content
    BY <1>1, <1>2 DEF content
  <1> QED
    BY <1>3, <1>4

\* pop takes a holder, and its element out of it.
LEMMA PopTakeInv ==
  ASSUME StackInv, NEW t \in Threads, NEW s \in Stacks,
         NEW l \in {"pop", "force", "take"}, NEW then \in {"pop_put", "force_put", "take_put"},
         NEW nothing, PopTake(t, s, l, then, nothing), aviable[s] # <<>>, OwnPlace(t, then),
         UNCHANGED poolVars
  PROVE  StackInv'
  <1> DEFINE h == LifoTop(aviable, s)
  <1>1. /\ pc[t] = l /\ Goto(t, then) /\ hoder' = [hoder EXCEPT ![t] = h]
        /\ elem' = [elem EXCEPT ![t] = slot[h]] /\ slot' = [slot EXCEPT ![h] = NULL]
        /\ aviable' = LifoPop(aviable, s)
        /\ UNCHANGED <<empty, made, produced, leaked, freed, mine, lost, main>>
    BY DEF PopTake, poolVars, Emptied
  <1>2. /\ aviable' \in [Stacks -> Seq(Holders)] /\ Distinct(aviable') /\ h \in Holders
        /\ On(aviable, h) /\ \A x : On(aviable', x) <=> On(aviable, x) /\ x # h
    <2>1. aviable \in [Stacks -> Seq(Holders)] /\ Distinct(aviable)
      BY DEF StackInv, PoolTypeOK, HolderInv
    <2> QED
      BY <1>1, <2>1, PopEffect
  <1>3. \A u \in Threads : pc'[u] = IF u = t THEN then ELSE pc[u]
    BY <1>1, Went
  <1>4. elem[t] = NULL /\ hoder[t] = NULL /\ slot[h] # NULL /\ slot[h] \in Elements
        /\ h \in made /\ ~ On(empty, h)
    <2>1. elem[t] = NULL /\ hoder[t] = NULL
      BY <1>1 DEF StackInv, HandsInv, Holding, Carrying
    <2>2. slot[h] # NULL /\ slot[h] \in Elements
      BY <1>2 DEF StackInv, PoolTypeOK, SlotInv
    <2>3. h \in made /\ ~ On(empty, h)
      BY <1>2 DEF StackInv, HolderInv
    <2> QED
      BY <2>1, <2>2, <2>3
  <1>5. main # "deleted" /\ freed = {}
    BY <1>1, InUse
  <1>6. /\ \A u \in Threads : hoder'[u] = IF u = t THEN h ELSE hoder[u]
        /\ \A u \in Threads : elem'[u] = IF u = t THEN slot[h] ELSE elem[u]
        /\ \A k \in Holders : slot'[k] = IF k = h THEN NULL ELSE slot[k]
    BY <1>1, <1>2 DEF StackInv, PoolTypeOK
  <1> HIDE DEF h
  <1>7. PoolTypeOK'
    BY <1>1, <1>2, <1>4, WentType DEF StackInv, PoolTypeOK
  <1>8. MainInv'
    BY <1>1, <1>5, WentMain
  <1>9. HandsInv'
    BY <1>2, <1>3, <1>4, <1>6, Apart DEF StackInv, HandsInv, Holding, Carrying
  <1>10. HolderInv'
    <2>1. Distinct(empty) /\ \A x : On(empty', x) <=> On(empty, x) /\ x # h
      BY <1>1, <1>4 DEF StackInv, HolderInv
    <2> QED
      BY <1>1, <1>2, <1>4, <1>5, <2>1, TakenHolder
  <1>11. /\ SlotInv' /\ content[h] = slot[h]
         /\ \A k \in Holders : content'[k] = IF k = h THEN NULL ELSE content[k]
    <2>1. \A u \in Threads : hoder[u] # h
      BY <1>2, Apart DEF StackInv, HolderInv
    <2>2. \A u \in Threads : pc'[u] \in Filling <=> pc[u] \in Filling /\ u # t
      BY <1>1, <1>3 DEF Filling
    <2>3. pc[t] \notin Filling
      BY <1>1 DEF Filling
    <2>4. \A k : (\E u \in Threads : pc'[u] \in Filling /\ hoder'[u] = k)
                   <=> \E u \in Threads : pc[u] \in Filling /\ hoder[u] = k
      BY <1>6, <2>2, <2>3
    <2>5. SlotInv /\ ~ \E u \in Threads : pc'[u] \in Filling /\ hoder'[u] = h
      BY <2>1, <2>4 DEF StackInv
    <2>6. SlotInv'
      BY <1>2, <1>6, <2>4, <2>5 DEF SlotInv
    <2>7. content[h] = slot[h] /\ content'[h] = NULL
      BY <1>2, <2>5, Contents
    <2>8. ASSUME NEW k \in Holders, k # h PROVE content'[k] = content[k]
      BY <1>2, <1>6, <2>4, <2>8, Contents
    <2> QED
      BY <2>6, <2>7, <2>8
  <1>12. ElemInv'
    <2>1. Live' = Live /\ mine' = mine /\ freed' = {} /\ freed = {}
      BY <1>1, <1>5 DEF Live
    <2>2. content[h] # NULL /\ ElemInv
      BY <1>4, <1>11 DEF StackInv
    <2>3. /\ \A u \in Threads : elem'[u] = IF u = t THEN content[h] ELSE elem[u]
          /\ \A k \in Holders : content'[k] = IF k = h THEN NULL ELSE content[k]
      BY <1>6, <1>11
    <2>4. /\ \A u \in Threads : elem'[u] \in Live \cup {NULL}
          /\ \A k \in Holders : content'[k] \in Live \cup {NULL}
      BY <1>2, <2>2, <2>3 DEF ElemInv
    <2>5. \A u, v \in Threads : elem'[u] = elem'[v] /\ elem'[u] # NULL => u = v
      BY <1>2, <2>2, <2>3 DEF ElemInv
    <2>6. \A k, m \in Holders : content'[k] = content'[m] /\ content'[k] # NULL => k = m
      BY <2>2, <2>3 DEF ElemInv
    <2>7. /\ \A c \in Clients, u \in Threads : elem'[u] \notin mine[c]
          /\ \A c \in Clients, k \in Holders : content'[k] \notin mine[c]
      <3>1. \A c \in Clients : NULL \notin mine[c]
        BY <1>4 DEF StackInv, ElemInv
      <3> QED
        BY <1>2, <2>2, <2>3, <3>1 DEF ElemInv
    <2>8. \A u \in Threads, k \in Holders : elem'[u] = content'[k] => elem'[u] = NULL
      BY <1>2, <2>2, <2>3 DEF ElemInv
    <2>9. \A e \in Live : \/ \E c \in Clients : e \in mine[c]
                          \/ \E u \in Threads : elem'[u] = e
                          \/ \E k \in Holders : content'[k] = e
      <3> SUFFICES ASSUME NEW e \in Live
                   PROVE  \/ \E c \in Clients : e \in mine[c]
                          \/ \E u \in Threads : elem'[u] = e
                          \/ \E k \in Holders : content'[k] = e
        OBVIOUS
      <3>1. e # NULL
        BY LiveElements DEF StackInv
      <3>2. \/ \E c \in Clients : e \in mine[c]
            \/ \E u \in Threads : elem[u] = e
            \/ \E k \in Holders : content[k] = e
        BY <2>1, <2>2 DEF ElemInv
      <3> QED
        BY <1>4, <2>3, <3>1, <3>2
    <2> QED
      BY <2>1, <2>2, <2>4, <2>5, <2>6, <2>7, <2>8, <2>9 DEF ElemInv
  <1> QED
    BY <1>7, <1>8, <1>9, <1>10, <1>11, <1>12 DEF StackInv

\* pop gives the emptied holder back.
LEMMA PopPutInv ==
  ASSUME StackInv, NEW t \in Threads, NEW s \in Stacks,
         NEW l \in {"pop_put", "force_put", "take_put"}, NEW then \in {"got", "load", "recycle"},
         PopPut(t, s, l, then), OwnPlace(t, then), UNCHANGED poolVars
  PROVE  StackInv'
  <1> DEFINE h == hoder[t]
  <1>1. /\ pc[t] = l /\ Goto(t, then) /\ hoder' = [hoder EXCEPT ![t] = NULL]
        /\ empty' = LifoPush(empty, s, h)
        /\ UNCHANGED <<aviable, slot, elem, made, produced, leaked, freed, mine, lost, main>>
    BY DEF PopPut, GivenBack, poolVars
  <1>2. h \in Holders /\ h # NULL /\ elem[t] # NULL /\ ~ On(empty, h)
    <2>1. h # NULL /\ elem[t] # NULL
      BY <1>1 DEF StackInv, HandsInv, Holding, Carrying
    <2> QED
      BY <2>1 DEF StackInv, PoolTypeOK, HolderInv
  <1>3. /\ empty' \in [Stacks -> Seq(Holders)] /\ Distinct(empty')
        /\ \A x : On(empty', x) <=> On(empty, x) \/ x = h
    <2>1. empty \in [Stacks -> Seq(Holders)] /\ Distinct(empty)
      BY DEF StackInv, PoolTypeOK, HolderInv
    <2> QED
      BY <1>1, <1>2, <2>1, PushEffect
  <1>4. \A u \in Threads : pc'[u] = IF u = t THEN then ELSE pc[u]
    BY <1>1, Went
  <1>5. main # "deleted"
    BY <1>1, InUse
  <1>6. \A u \in Threads : hoder'[u] = IF u = t THEN NULL ELSE hoder[u]
    BY <1>1 DEF StackInv, PoolTypeOK
  <1>7. PoolTypeOK'
    BY <1>1, <1>3, WentType DEF StackInv, PoolTypeOK
  <1>8. MainInv'
    BY <1>1, <1>5, WentMain
  <1>9. HandsInv'
    BY <1>1, <1>2, <1>4, <1>6 DEF StackInv, HandsInv, Holding, Carrying
  <1>10. HolderInv'
    <2>1. Distinct(aviable') /\ \A x : On(aviable', x) <=> On(aviable, x)
      BY <1>1 DEF StackInv, HolderInv
    <2> QED
      BY <1>1, <1>2, <1>3, <1>5, <2>1, GivenHolder
  <1>11. SlotInv' /\ content' = content
    <2>1. \A u \in Threads : pc'[u] \in Filling <=> pc[u] \in Filling /\ u # t
      BY <1>1, <1>4 DEF Filling
    <2>2. pc[t] \notin Filling
      BY <1>1 DEF Filling
    <2>3. \A k : (\E u \in Threads : pc'[u] \in Filling /\ hoder'[u] = k)
                   <=> \E u \in Threads : pc[u] \in Filling /\ hoder[u] = k
      BY <1>6, <2>1, <2>2
    <2>4. slot' = slot /\ \A k : On(aviable', k) <=> On(aviable, k)
      BY <1>1
    <2> QED
      BY <2>3, <2>4 DEF StackInv, SlotInv, content
  <1>12. ElemInv'
    BY <1>1, <1>11 DEF StackInv, ElemInv, Live
  <1> QED
    BY <1>7, <1>8, <1>9, <1>10, <1>11, <1>12 DEF StackInv

\* push takes an empty holder and puts its element in.
LEMMA PushTakeInv ==
  ASSUME StackInv, NEW t \in Threads, NEW s \in Stacks,
         NEW l \in {"push", "recycle"}, NEW then \in {"push_put", "recycle_put"},
         NEW refused, PushTake(t, s, l, then, refused), empty[s] # <<>>, OwnPlace(t, then),
         UNCHANGED poolVars
  PROVE  StackInv'
  <1> DEFINE h == LifoTop(empty, s)
  <1>1. /\ pc[t] = l /\ Goto(t, then) /\ hoder' = [hoder EXCEPT ![t] = h]
        /\ elem' = [elem EXCEPT ![t] = NULL] /\ slot' = [slot EXCEPT ![h] = elem[t]]
        /\ empty' = LifoPop(empty, s)
        /\ UNCHANGED <<aviable, made, produced, leaked, freed, mine, lost, main>>
    BY DEF PushTake, poolVars
  <1>2. /\ empty' \in [Stacks -> Seq(Holders)] /\ Distinct(empty') /\ h \in Holders
        /\ On(empty, h) /\ \A x : On(empty', x) <=> On(empty, x) /\ x # h
    <2>1. empty \in [Stacks -> Seq(Holders)] /\ Distinct(empty)
      BY DEF StackInv, PoolTypeOK, HolderInv
    <2> QED
      BY <1>1, <2>1, PopEffect
  <1>3. \A u \in Threads : pc'[u] = IF u = t THEN then ELSE pc[u]
    BY <1>1, Went
  <1>4. elem[t] # NULL /\ hoder[t] = NULL /\ elem[t] \in Elements /\ ~ On(aviable, h)
    <2>1. elem[t] # NULL /\ hoder[t] = NULL
      BY <1>1 DEF StackInv, HandsInv, Holding, Carrying
    <2>2. ~ On(aviable, h)
      BY <1>2 DEF StackInv, HolderInv
    <2> QED
      BY <2>1, <2>2 DEF StackInv, PoolTypeOK
  <1>5. main # "deleted" /\ freed = {}
    BY <1>1, InUse
  <1>6. /\ \A u \in Threads : hoder'[u] = IF u = t THEN h ELSE hoder[u]
        /\ \A u \in Threads : elem'[u] = IF u = t THEN NULL ELSE elem[u]
        /\ \A k \in Holders : slot'[k] = IF k = h THEN elem[t] ELSE slot[k]
    BY <1>1, <1>2 DEF StackInv, PoolTypeOK
  <1>7. \A u \in Threads : hoder[u] # h
    BY <1>2, Apart DEF StackInv, HolderInv
  <1>8. content[h] = NULL
    BY <1>2, <1>4, <1>7, Contents
  <1> HIDE DEF h
  <1>9. PoolTypeOK'
    BY <1>1, <1>2, <1>4, WentType DEF StackInv, PoolTypeOK
  <1>10. MainInv'
    BY <1>1, <1>5, WentMain
  <1>11. HandsInv'
    BY <1>2, <1>3, <1>4, <1>6, Apart DEF StackInv, HandsInv, Holding, Carrying
  <1>12. HolderInv'
    <2>1. Distinct(aviable') /\ \A x : On(aviable', x) <=> On(aviable, x) /\ x # h
      BY <1>1, <1>4 DEF StackInv, HolderInv
    <2> QED
      BY <1>1, <1>2, <1>4, <1>5, <2>1, TakenHolder
  <1>13. /\ SlotInv'
         /\ \A k \in Holders : content'[k] = IF k = h THEN elem[t] ELSE content[k]
    <2>1. \A u \in Threads : pc'[u] \in Filling <=> pc[u] \in Filling \/ u = t
      BY <1>1, <1>3 DEF Filling
    <2>2. pc[t] \notin Filling
      BY <1>1 DEF Filling
    <2>3. \A k : k # h => ((\E u \in Threads : pc'[u] \in Filling /\ hoder'[u] = k)
                             <=> \E u \in Threads : pc[u] \in Filling /\ hoder[u] = k)
      BY <1>6, <2>1, <2>2
    <2>4. SlotInv /\ \E u \in Threads : pc'[u] \in Filling /\ hoder'[u] = h
      BY <1>6, <2>1 DEF StackInv
    <2>5. \A k : On(aviable', k) <=> On(aviable, k)
      BY <1>1
    <2>6. SlotInv'
      BY <1>4, <1>6, <2>3, <2>4, <2>5 DEF SlotInv
    <2>7. content'[h] = elem[t]
      BY <1>2, <1>6, <2>4, Contents
    <2>8. ASSUME NEW k \in Holders, k # h PROVE content'[k] = content[k]
      BY <1>6, <2>3, <2>5, <2>8, Contents
    <2> QED
      BY <2>6, <2>7, <2>8
  <1>14. ElemInv'
    BY <1>1, <1>2, <1>4, <1>5, <1>6, <1>8, <1>13 DEF StackInv, ElemInv, Live
  <1> QED
    BY <1>9, <1>10, <1>11, <1>12, <1>13, <1>14 DEF StackInv

\* push makes the filled holder aviable.
LEMMA PushPutInv ==
  ASSUME StackInv, NEW t \in Threads, NEW s \in Stacks,
         NEW l \in {"push_put", "recycle_put"}, NEW then \in {"idle", "loop"},
         PushPut(t, s, l, then), OwnPlace(t, then), UNCHANGED poolVars
  PROVE  StackInv'
  <1> DEFINE h == hoder[t]
  <1>1. /\ pc[t] = l /\ Goto(t, then) /\ hoder' = [hoder EXCEPT ![t] = NULL]
        /\ aviable' = LifoPush(aviable, s, h)
        /\ UNCHANGED <<empty, slot, elem, made, produced, leaked, freed, mine, lost, main>>
    BY DEF PushPut, poolVars
  <1>2. h \in Holders /\ h # NULL /\ elem[t] = NULL /\ ~ On(aviable, h)
    <2>1. h # NULL /\ elem[t] = NULL
      BY <1>1 DEF StackInv, HandsInv, Holding, Carrying
    <2> QED
      BY <2>1 DEF StackInv, PoolTypeOK, HolderInv
  <1>3. /\ aviable' \in [Stacks -> Seq(Holders)] /\ Distinct(aviable')
        /\ \A x : On(aviable', x) <=> On(aviable, x) \/ x = h
    <2>1. aviable \in [Stacks -> Seq(Holders)] /\ Distinct(aviable)
      BY DEF StackInv, PoolTypeOK, HolderInv
    <2> QED
      BY <1>1, <1>2, <2>1, PushEffect
  <1>4. \A u \in Threads : pc'[u] = IF u = t THEN then ELSE pc[u]
    BY <1>1, Went
  <1>5. main # "deleted"
    BY <1>1, InUse
  <1>6. \A u \in Threads : hoder'[u] = IF u = t THEN NULL ELSE hoder[u]
    BY <1>1 DEF StackInv, PoolTypeOK
  <1>7. PoolTypeOK'
    BY <1>1, <1>3, WentType DEF StackInv, PoolTypeOK
  <1>8. MainInv'
    BY <1>1, <1>5, WentMain
  <1>9. HandsInv'
    BY <1>1, <1>2, <1>4, <1>6 DEF StackInv, HandsInv, Holding, Carrying
  <1>10. HolderInv'
    <2>1. Distinct(empty') /\ \A x : On(empty', x) <=> On(empty, x)
      BY <1>1 DEF StackInv, HolderInv
    <2> QED
      BY <1>1, <1>2, <1>3, <1>5, <2>1, GivenHolder
  <1>11. SlotInv' /\ content' = content
    <2>1. \A u \in Threads : pc'[u] \in Filling <=> pc[u] \in Filling /\ u # t
      BY <1>1, <1>4 DEF Filling
    <2>2. pc[t] \in Filling
      BY <1>1 DEF Filling
    <2>3. \A k : (\E u \in Threads : pc[u] \in Filling /\ hoder[u] = k)
                   <=> k = h \/ \E u \in Threads : pc'[u] \in Filling /\ hoder'[u] = k
      BY <1>6, <2>1, <2>2
    <2>4. \A k : \/ On(aviable', k)
                 \/ \E u \in Threads : pc'[u] \in Filling /\ hoder'[u] = k
                 <=> \/ On(aviable, k)
                     \/ \E u \in Threads : pc[u] \in Filling /\ hoder[u] = k
      BY <1>3, <2>3
    <2> QED
      BY <1>1, <2>4 DEF StackInv, SlotInv, content
  <1>12. ElemInv'
    BY <1>1, <1>11 DEF StackInv, ElemInv, Live
  <1> QED
    BY <1>7, <1>8, <1>9, <1>10, <1>11, <1>12 DEF StackInv

\* The holders stay where they are.
LEMMA HolderSame ==
  ASSUME HolderInv, UNCHANGED <<aviable, empty, made, freed, hoder>>,
         main' = "deleted" => main = "deleted"
  PROVE  HolderInv'
  <1>1. /\ Distinct(aviable') /\ Distinct(empty')
        /\ \A h : (On(aviable', h) <=> On(aviable, h)) /\ (On(empty', h) <=> On(empty, h))
    BY DEF HolderInv
  <1> QED
    BY <1>1 DEF HolderInv

\* A step of thread t to a place where it has what it had.
LEMMA MoveInv ==
  ASSUME StackInv, NEW t \in Threads, NEW l, Goto(t, l), OwnPlace(t, l),
         UNCHANGED <<stackVars, mine, lost, main>>, pc[t] \notin {"new", "exited"}, main # "deleted",
         pc[t] \notin Holding, l \notin Holding, l \in Carrying => elem[t] # NULL,
         l \notin Carrying \cup {"load", "store", "got"} => elem[t] = NULL
  PROVE  StackInv'
  <1>1. /\ UNCHANGED <<aviable, empty, slot, made, produced, leaked, freed, hoder, elem>>
        /\ UNCHANGED <<mine, lost, main>>
    BY DEF stackVars
  <1>2. \A u \in Threads : pc'[u] = IF u = t THEN l ELSE pc[u]
    BY Went
  <1>3. PoolTypeOK'
    BY <1>1, WentType DEF StackInv, PoolTypeOK
  <1>4. MainInv'
    BY <1>1, WentMain
  <1>5. HandsInv'
    BY <1>1, <1>2 DEF StackInv, HandsInv
  <1>6. HolderInv'
    BY <1>1, HolderSame DEF StackInv
  <1>7. SlotInv' /\ content' = content
    <2>1. \A u \in Threads : pc'[u] \in Filling <=> pc[u] \in Filling
      BY <1>2 DEF Holding, Filling
    <2> QED
      BY <1>1, <2>1, ContentSame DEF StackInv
  <1>8. ElemInv'
    BY <1>1, <1>7 DEF StackInv, ElemInv, Live
  <1> QED
    BY <1>3, <1>4, <1>5, <1>6, <1>7, <1>8 DEF StackInv

\* produce makes an element and, with it, an empty holder.
LEMMA ProduceInv ==
  ASSUME StackInv, NEW t \in Clients, Produce(t, "producer", "produce", "load"),
         UNCHANGED poolVars
  PROVE  StackInv'
  <1>0. t \in Threads /\ "producer" \in Stacks
    BY PoolAssumption
  <1>1. PICK r \in Resources \ produced, h \in Holders \ made :
          /\ produced' = produced \cup {r} /\ made' = made \cup {h}
          /\ elem' = [elem EXCEPT ![t] = r] /\ slot' = [slot EXCEPT ![h] = NULL]
          /\ empty' = LifoPush(empty, "producer", h)
    BY DEF Produce, Emptied, AnotherEmpty
  <1>2. /\ pc[t] = "produce" /\ Goto(t, "load")
        /\ UNCHANGED <<aviable, leaked, freed, hoder, mine, lost, main>>
    BY DEF Produce, poolVars
  <1>3. /\ ~ On(empty, h) /\ ~ On(aviable, h) /\ h # NULL /\ r # NULL
        /\ \A u \in Threads : hoder[u] # h
    BY Apart DEF StackInv, HolderInv
  <1>4. r \in Elements /\ r \notin Own
    BY Apart
  <1>5. /\ slot' \in [Holders -> Elements \cup {NULL}]
        /\ \A k \in Holders : k # h => slot'[k] = slot[k]
    BY <1>1 DEF StackInv, PoolTypeOK
  <1>6. /\ empty' \in [Stacks -> Seq(Holders)] /\ Distinct(empty')
        /\ \A x : On(empty', x) <=> On(empty, x) \/ x = h
    <2>1. empty \in [Stacks -> Seq(Holders)] /\ Distinct(empty)
      BY DEF StackInv, PoolTypeOK, HolderInv
    <2> QED
      BY <1>0, <1>1, <1>3, <2>1, PushEffect
  <1>7. \A u \in Threads : pc'[u] = IF u = t THEN "load" ELSE pc[u]
    BY <1>0, <1>2, Went
  <1>8. main # "deleted" /\ freed = {}
    BY <1>0, <1>2, InUse
  <1>9. elem[t] = NULL /\ hoder[t] = NULL
    BY <1>0, <1>2 DEF StackInv, HandsInv, Holding, Carrying
  <1>10. \A u \in Threads : elem'[u] = IF u = t THEN r ELSE elem[u]
    BY <1>1 DEF StackInv, PoolTypeOK
  <1>11. Live' = Live \cup {r} /\ r \notin Live
    BY <1>1, <1>2, <1>4 DEF Live, StackInv, PoolTypeOK
  <1>12. PoolTypeOK'
    <2>1. OwnPlace(t, "load")
      BY PoolAssumption DEF OwnPlace, ClientPlaces
    <2>2. /\ pc' \in [Threads -> ClientPlaces \cup WorkerPlaces]
          /\ \A c \in Clients : pc'[c] \in ClientPlaces
          /\ \A w \in Workers : pc'[w] \in WorkerPlaces
      BY <1>0, <1>2, <2>1, WentType
    <2>3. elem' \in [Threads -> Elements \cup {NULL}] /\ made' \subseteq Holders
          /\ produced' \subseteq Resources /\ leaked' \subseteq produced'
          /\ lost' \subseteq (produced' \ leaked') \cup Own
      BY <1>1, <1>2, <1>4 DEF StackInv, PoolTypeOK
    <2> QED
      BY <1>2, <1>5, <1>6, <2>2, <2>3 DEF StackInv, PoolTypeOK
  <1>13. MainInv'
    BY <1>0, <1>2, <1>8, WentMain
  <1>14. HandsInv'
    BY <1>2, <1>3, <1>7, <1>9, <1>10 DEF StackInv, HandsInv, Holding, Carrying
  <1>15. HolderInv'
    <2>1. HolderInv /\ Distinct(aviable') /\ \A x : On(aviable', x) <=> On(aviable, x)
      BY <1>2 DEF StackInv, HolderInv
    <2>2. \A k \in Holders : ~ (On(aviable', k) /\ On(empty', k))
      BY <1>3, <1>6, <2>1 DEF HolderInv
    <2>3. \A u \in Threads : hoder'[u] # NULL => ~ On(aviable', hoder'[u]) /\ ~ On(empty', hoder'[u])
      BY <1>2, <1>3, <1>6, <2>1 DEF HolderInv
    <2>4. \A k \in Holders : On(aviable', k) \/ On(empty', k) \/ k \in freed' => k \in made'
      BY <1>1, <1>2, <1>6, <2>1 DEF HolderInv
    <2>5. \A k \in made' : \/ On(aviable', k) \/ On(empty', k) \/ k \in freed'
                           \/ \E u \in Threads : hoder'[u] = k
      BY <1>1, <1>2, <1>6, <2>1 DEF HolderInv
    <2> QED
      BY <1>1, <1>2, <1>6, <1>8, <2>1, <2>2, <2>3, <2>4, <2>5 DEF HolderInv
  <1>16. SlotInv' /\ content' = content
    <2>1. \A u \in Threads : pc'[u] \in Filling <=> pc[u] \in Filling
      BY <1>2, <1>7 DEF Filling
    <2>2. \A k \in Holders : \/ On(aviable, k)
                             \/ \E u \in Threads : pc[u] \in Filling /\ hoder[u] = k
                             => slot'[k] = slot[k]
      BY <1>3, <1>5
    <2> QED
      BY <1>2, <2>1, <2>2, ContentSame DEF StackInv
  <1>17. ElemInv'
    <2>1. ElemInv /\ UNCHANGED <<mine, freed, content>>
      BY <1>2, <1>16 DEF StackInv
    <2>2. /\ \A c \in Clients : r \notin mine[c]
          /\ \A u \in Threads : elem[u] # r
          /\ \A k \in Holders : content[k] # r
      BY <1>3, <1>11, <2>1 DEF ElemInv
    <2>3. \A u \in Threads : elem'[u] \in Live' \cup {NULL}
      BY <1>10, <1>11, <2>1 DEF ElemInv
    <2>4. \A u, v \in Threads : elem'[u] = elem'[v] /\ elem'[u] # NULL => u = v
      BY <1>10, <2>1, <2>2 DEF ElemInv
    <2>5. \A c \in Clients, u \in Threads : elem'[u] \notin mine'[c]
      BY <1>10, <2>1, <2>2 DEF ElemInv
    <2>6. \A u \in Threads, k \in Holders : elem'[u] = content'[k] => elem'[u] = NULL
      BY <1>10, <2>1, <2>2 DEF ElemInv
    <2>7. ASSUME NEW e \in Live'
          PROVE  \/ \E c \in Clients : e \in mine'[c]
                 \/ \E u \in Threads : elem'[u] = e
                 \/ \E k \in Holders : content'[k] = e
                 \/ e \in freed'
      <3>1. CASE e = r
        BY <1>0, <1>10, <3>1
      <3>2. CASE e \in Live
        <4>1. ASSUME NEW u \in Threads, elem[u] = e PROVE elem'[u] = e
          BY <1>3, <1>9, <1>10, <1>11, <3>2, <4>1, LiveElements DEF StackInv
        <4> QED
          BY <2>1, <3>2, <4>1 DEF ElemInv
      <3> QED
        BY <1>11, <3>1, <3>2
    <2> QED
      BY <1>11, <2>1, <2>3, <2>4, <2>5, <2>6, <2>7 DEF ElemInv
  <1> QED
    BY <1>12, <1>13, <1>14, <1>15, <1>16, <1>17 DEF StackInv

\* produce forgets an element, or makes none.
LEMMA ProduceFailsInv ==
  ASSUME StackInv, NEW t \in Clients, ProduceFails(t, "producer", "produce", "load"),
         UNCHANGED poolVars
  PROVE  StackInv' /\ Live' = Live /\ produced' \ leaked' = produced \ leaked
  <1>0. t \in Threads
    BY PoolAssumption
  <1>1. /\ pc[t] = "produce" /\ Goto(t, "load")
        /\ UNCHANGED <<aviable, empty, slot, made, freed, hoder, elem, mine, lost, main>>
    BY DEF ProduceFails, poolVars
  <1>2. /\ produced' \subseteq Resources /\ leaked' \subseteq produced' /\ Live' = Live
        /\ produced' \ leaked' = produced \ leaked
    <2>1. CASE UNCHANGED <<produced, leaked>>
      BY <1>1, <2>1 DEF StackInv, PoolTypeOK, Live
    <2>2. CASE \E r \in Resources \ produced :
                 produced' = produced \cup {r} /\ leaked' = leaked \cup {r}
      BY <1>1, <2>2 DEF StackInv, PoolTypeOK, Live
    <2> QED
      BY <2>1, <2>2 DEF ProduceFails
  <1>3. \A u \in Threads : pc'[u] = IF u = t THEN "load" ELSE pc[u]
    BY <1>0, <1>1, Went
  <1>4. main # "deleted" /\ freed = {}
    BY <1>0, <1>1, InUse
  <1>5. PoolTypeOK'
    <2>1. OwnPlace(t, "load")
      BY PoolAssumption DEF OwnPlace, ClientPlaces
    <2> QED
      BY <1>0, <1>1, <1>2, <2>1, WentType DEF StackInv, PoolTypeOK
  <1>6. MainInv'
    BY <1>0, <1>1, <1>4, WentMain
  <1>7. HandsInv'
    BY <1>1, <1>3 DEF StackInv, HandsInv, Holding, Carrying
  <1>8. HolderInv'
    BY <1>1, HolderSame DEF StackInv
  <1>9. SlotInv' /\ content' = content
    <2>1. \A u \in Threads : pc'[u] \in Filling <=> pc[u] \in Filling
      BY <1>1, <1>3 DEF Filling
    <2> QED
      BY <1>1, <2>1, ContentSame DEF StackInv
  <1>10. ElemInv'
    BY <1>1, <1>2, <1>9 DEF StackInv, ElemInv
  <1> QED
    BY <1>2, <1>5, <1>6, <1>7, <1>8, <1>9, <1>10 DEF StackInv

\* pop returns its element to the client.
LEMMA ReturnInv ==
  ASSUME StackInv, NEW t \in Clients, Return(t)
  PROVE  StackInv'
  <1>0. t \in Threads /\ OwnPlace(t, "idle")
    BY PoolAssumption DEF OwnPlace, ClientPlaces
  <1>1. /\ pc[t] = "got" /\ Goto(t, "idle") /\ elem' = [elem EXCEPT ![t] = NULL]
        /\ UNCHANGED <<aviable, empty, slot, made, produced, leaked, freed, hoder, lost, main>>
    BY DEF Return
  <1>2. \A c \in Clients : mine'[c] = IF c = t THEN mine[t] \cup ({elem[t]} \ {NULL}) ELSE mine[c]
    BY DEF Return, StackInv, PoolTypeOK
  <1>3. \A u \in Threads : pc'[u] = IF u = t THEN "idle" ELSE pc[u]
    BY <1>0, <1>1, Went
  <1>4. main # "deleted" /\ freed = {}
    BY <1>0, <1>1, InUse
  <1>5. \A u \in Threads : elem'[u] = IF u = t THEN NULL ELSE elem[u]
    BY <1>1 DEF StackInv, PoolTypeOK
  <1>6. Live' = Live
    BY <1>1 DEF Live
  <1>7. PoolTypeOK'
    <2>1. mine' \in [Clients -> SUBSET Elements]
      BY <1>0 DEF Return, StackInv, PoolTypeOK
    <2>2. elem' \in [Threads -> Elements \cup {NULL}]
      BY <1>1 DEF StackInv, PoolTypeOK
    <2> QED
      BY <1>0, <1>1, <2>1, <2>2, WentType DEF StackInv, PoolTypeOK
  <1>8. MainInv'
    BY <1>0, <1>1, <1>4, WentMain
  <1>9. HandsInv'
    BY <1>1, <1>3, <1>5 DEF StackInv, HandsInv, Holding, Carrying
  <1>10. HolderInv'
    BY <1>1, HolderSame DEF StackInv
  <1>11. SlotInv' /\ content' = content
    <2>1. \A u \in Threads : pc'[u] \in Filling <=> pc[u] \in Filling
      BY <1>1, <1>3 DEF Filling
    <2> QED
      BY <1>1, <2>1, ContentSame DEF StackInv
  <1>12. ElemInv'
    <2>1. ElemInv /\ UNCHANGED <<content, freed>>
      BY <1>1, <1>11 DEF StackInv
    <2>2. ASSUME NEW c \in Clients, NEW e \in mine'[c]
          PROVE  e \in mine[c] \/ (c = t /\ e = elem[t] /\ e # NULL)
      BY <1>2, <2>2
    <2>3. \A c \in Clients : mine'[c] \subseteq Live'
      BY <1>0, <1>6, <2>1, <2>2 DEF ElemInv
    <2>4. \A c, d \in Clients : c # d => mine'[c] \cap mine'[d] = {}
      BY <1>0, <2>1, <2>2 DEF ElemInv
    <2>5. \A c \in Clients, u \in Threads : elem'[u] \notin mine'[c]
      <3>1. \A c \in Clients : NULL \notin mine'[c]
        BY <2>2, Apart DEF StackInv, PoolTypeOK
      <3> QED
        BY <1>0, <1>5, <2>1, <2>2, <3>1 DEF ElemInv
    <2>6. \A c \in Clients, k \in Holders : content'[k] \notin mine'[c]
      BY <1>0, <2>1, <2>2 DEF ElemInv
    <2>7. ASSUME NEW e \in Live'
          PROVE  \/ \E c \in Clients : e \in mine'[c]
                 \/ \E u \in Threads : elem'[u] = e
                 \/ \E k \in Holders : content'[k] = e
                 \/ e \in freed'
      <3>0. e # NULL
        BY <1>6, LiveElements DEF StackInv
      <3>1. ASSUME NEW c \in Clients, e \in mine[c] PROVE e \in mine'[c]
        BY <1>2, <3>1
      <3>2. ASSUME NEW u \in Threads, elem[u] = e PROVE elem'[u] = e \/ e \in mine'[t]
        BY <1>2, <1>5, <3>0, <3>2
      <3> QED
        BY <1>6, <2>1, <3>1, <3>2 DEF ElemInv
    <2>8. \A u, v \in Threads : elem'[u] = elem'[v] /\ elem'[u] # NULL => u = v
      BY <1>5, <2>1 DEF ElemInv
    <2>9. \A u \in Threads : elem'[u] \in Live' \cup {NULL}
      BY <1>5, <1>6, <2>1 DEF ElemInv
    <2>10. \A u \in Threads, k \in Holders : elem'[u] = content'[k] => elem'[u] = NULL
      BY <1>5, <2>1 DEF ElemInv
    <2> QED
      BY <1>4, <1>6, <2>1, <2>3, <2>4, <2>5, <2>6, <2>7, <2>8, <2>9, <2>10 DEF ElemInv
  <1> QED
    BY <1>7, <1>8, <1>9, <1>10, <1>11, <1>12 DEF StackInv

\* A client pushes an element it owns.
LEMMA CallPushInv ==
  ASSUME StackInv, NEW t \in Clients, CallPush(t)
  PROVE  StackInv'
  <1>0. t \in Threads /\ OwnPlace(t, "push")
    BY PoolAssumption DEF OwnPlace, ClientPlaces
  <1>1. /\ pc[t] = "idle" /\ main # "deleted" /\ Goto(t, "push")
        /\ UNCHANGED <<aviable, empty, slot, made, produced, leaked, freed, hoder, lost, main>>
    BY DEF CallPush
  <1>2. PICK r \in mine[t] : /\ elem' = [elem EXCEPT ![t] = r]
                             /\ mine' = [mine EXCEPT ![t] = @ \ {r}]
    BY DEF CallPush
  <1>3. /\ \A c \in Clients : mine'[c] = IF c = t THEN mine[t] \ {r} ELSE mine[c]
        /\ \A u \in Threads : elem'[u] = IF u = t THEN r ELSE elem[u]
        /\ mine' \in [Clients -> SUBSET Elements]
        /\ elem' \in [Threads -> Elements \cup {NULL}]
        /\ r \in Elements /\ r # NULL
    BY <1>2, Apart DEF StackInv, PoolTypeOK
  <1>4. \A u \in Threads : pc'[u] = IF u = t THEN "push" ELSE pc[u]
    BY <1>0, <1>1, Went
  <1>5. freed = {}
    BY <1>1 DEF StackInv, MainInv
  <1>6. Live' = Live
    BY <1>1 DEF Live
  <1>7. PoolTypeOK'
    BY <1>0, <1>1, <1>3, WentType DEF StackInv, PoolTypeOK
  <1>8. MainInv'
    BY <1>0, <1>1, WentMain
  <1>9. HandsInv'
    BY <1>1, <1>3, <1>4 DEF StackInv, HandsInv, Holding, Carrying
  <1>10. HolderInv'
    BY <1>1, HolderSame DEF StackInv
  <1>11. SlotInv' /\ content' = content
    <2>1. \A u \in Threads : pc'[u] \in Filling <=> pc[u] \in Filling
      BY <1>1, <1>4 DEF Filling
    <2> QED
      BY <1>1, <2>1, ContentSame DEF StackInv
  <1>12. ElemInv'
    <2>1. ElemInv /\ UNCHANGED <<content, freed>>
      BY <1>1, <1>11 DEF StackInv
    <2>2. elem[t] = NULL
      BY <1>0, <1>1 DEF StackInv, HandsInv, Carrying
    <2>3. ASSUME NEW c \in Clients, NEW e \in mine'[c] PROVE e \in mine[c] /\ e # r
      BY <1>2, <1>3, <2>1, <2>3 DEF ElemInv
    <2>4. /\ \A u \in Threads : elem[u] # r
          /\ \A k \in Holders : content[k] # r
          /\ r \in Live
      BY <1>2, <2>1 DEF ElemInv
    <2>5. \A c, d \in Clients : c # d => mine'[c] \cap mine'[d] = {}
      BY <2>1, <2>3 DEF ElemInv
    <2>6. \A c \in Clients, u \in Threads : elem'[u] \notin mine'[c]
      BY <1>3, <2>1, <2>3 DEF ElemInv
    <2>7. ASSUME NEW e \in Live'
          PROVE  \/ \E c \in Clients : e \in mine'[c]
                 \/ \E u \in Threads : elem'[u] = e
                 \/ \E k \in Holders : content'[k] = e
                 \/ e \in freed'
      <3>0. e # NULL
        BY <1>6, LiveElements DEF StackInv
      <3>1. ASSUME NEW c \in Clients, e \in mine[c] PROVE e \in mine'[c] \/ elem'[t] = e
        BY <1>0, <1>3, <3>1
      <3>2. ASSUME NEW u \in Threads, elem[u] = e PROVE elem'[u] = e
        BY <1>3, <2>2, <3>0, <3>2
      <3> QED
        BY <1>0, <1>6, <2>1, <3>1, <3>2 DEF ElemInv
    <2>8. \A u, v \in Threads : elem'[u] = elem'[v] /\ elem'[u] # NULL => u = v
      BY <1>3, <2>1, <2>4 DEF ElemInv
    <2>9. \A u \in Threads, k \in Holders : elem'[u] = content'[k] => elem'[u] = NULL
      BY <1>3, <2>1, <2>4 DEF ElemInv
    <2>10. \A u \in Threads : elem'[u] \in Live' \cup {NULL}
      BY <1>3, <1>6, <2>1, <2>4 DEF ElemInv
    <2> QED
      BY <1>5, <1>6, <2>1, <2>3, <2>5, <2>6, <2>7, <2>8, <2>9, <2>10 DEF ElemInv
  <1> QED
    BY <1>7, <1>8, <1>9, <1>10, <1>11, <1>12 DEF StackInv

\* start creates the workers.
LEMMA StartInv ==
  ASSUME StackInv, Start
  PROVE  /\ StackInv' /\ \A t \in Threads : pc'[t] = pc[t] \/ (pc[t] = "new" /\ pc'[t] = "created")
  <1>1. /\ main = "init" /\ main' = "started"
        /\ UNCHANGED <<aviable, empty, slot, made, produced, leaked, freed, hoder, elem, mine, lost>>
    BY DEF Start, stackVars
  <1>2. \A t \in Threads : pc'[t] = IF t \in Workers THEN "created" ELSE pc[t]
    BY DEF Start
  <1>3. \A w \in Workers : pc[w] = "new"
    BY <1>1 DEF StackInv, MainInv
  <1>4. PoolTypeOK'
    <2>1. /\ pc' \in [Threads -> ClientPlaces \cup WorkerPlaces]
          /\ \A c \in Clients : pc'[c] \in ClientPlaces
          /\ \A w \in Workers : pc'[w] \in WorkerPlaces
      BY PoolAssumption DEF Start, StackInv, PoolTypeOK, WorkerPlaces
    <2> QED
      BY <1>1, <2>1 DEF StackInv, PoolTypeOK
  <1>5. MainInv'
    BY <1>1 DEF StackInv, MainInv
  <1>6. HandsInv'
    BY <1>1, <1>2, <1>3 DEF StackInv, HandsInv, Holding, Carrying
  <1>7. HolderInv'
    BY <1>1, HolderSame DEF StackInv
  <1>8. SlotInv' /\ content' = content
    <2>1. \A u \in Threads : pc'[u] \in Filling <=> pc[u] \in Filling
      BY <1>2, <1>3 DEF Filling
    <2> QED
      BY <1>1, <2>1, ContentSame DEF StackInv
  <1>9. ElemInv'
    BY <1>1, <1>8 DEF StackInv, ElemInv, Live
  <1> QED
    BY <1>2, <1>3, <1>4, <1>5, <1>6, <1>7, <1>8, <1>9 DEF StackInv

\* stop and wait leave the stacks alone.
LEMMA StopInv ==
  ASSUME StackInv, Stop \/ Joined
  PROVE  StackInv'
  <1>1. UNCHANGED <<aviable, empty, slot, made, produced, leaked, freed, hoder, elem, mine, lost, pc>>
    BY DEF Stop, Joined, stackVars
  <1>2. main # "deleted" /\ main' \in {"stopped", "joined"}
        /\ (main' = "joined" => \A w \in Workers : pc[w] = "exited")
    BY DEF Stop, Joined
  <1>3. PoolTypeOK'
    BY <1>1, <1>2 DEF StackInv, PoolTypeOK
  <1>4. MainInv'
    BY <1>1, <1>2 DEF StackInv, MainInv
  <1>5. SlotInv' /\ content' = content
    BY <1>1, ContentSame DEF StackInv
  <1>7. HandsInv' /\ ElemInv'
    BY <1>1, <1>5 DEF StackInv, HandsInv, ElemInv, Live
  <1>6. HolderInv'
    BY <1>1, <1>2, HolderSame DEF StackInv
  <1> QED
    BY <1>3, <1>4, <1>5, <1>6, <1>7 DEF StackInv

\* The destructor deletes the holders and the elements that are in them.
LEMMA DeleteInv ==
  ASSUME StackInv, Delete
  PROVE  StackInv'
  <1>1. /\ main # "deleted" /\ main' = "deleted" /\ freed = {}
        /\ UNCHANGED <<pc, mine, lost, made, produced, leaked, hoder, elem>>
    BY DEF Delete, Destroy, StackInv, MainInv
  <1>2. /\ freed' = Inside(empty) \cup Inside(aviable) \cup {slot[h] : h \in Inside(aviable)}
        /\ slot' = slot
        /\ aviable' = [s \in Stacks |-> <<>>] /\ empty' = [s \in Stacks |-> <<>>]
    BY <1>1 DEF Delete, Destroy, Released
  <1>3. \A x : (x \in Inside(aviable) <=> On(aviable, x)) /\ (x \in Inside(empty) <=> On(empty, x))
    <2>1. ASSUME NEW f \in [Stacks -> Seq(Holders)], NEW x
          PROVE  x \in Inside(f) <=> On(f, x)
      BY DEF On, Inside
    <2> QED
      BY <2>1 DEF StackInv, PoolTypeOK
  <1>4. \A h : ~ On(aviable', h) /\ ~ On(empty', h)
    BY <1>2 DEF On
  <1>5. Inside(aviable) \subseteq Holders /\ Inside(empty) \subseteq Holders
    BY DEF StackInv, PoolTypeOK, Inside
  <1>6. \A t \in Threads : pc[t] \in {"idle", "new", "exited"}
    BY PoolAssumption DEF Delete, StackInv, MainInv
  <1>7. \A t \in Threads : hoder[t] = NULL /\ elem[t] = NULL
    BY <1>6 DEF StackInv, HandsInv, Holding, Carrying
  <1>8. \A h \in Holders : /\ On(aviable, h) => content[h] = slot[h] /\ slot[h] # NULL
                           /\ ~ On(aviable, h) => content[h] = NULL
    BY <1>6, Contents DEF StackInv, SlotInv, Filling
  <1>9. \A h \in Holders : content'[h] = NULL
    BY <1>1, <1>4, <1>6, Contents DEF Filling
  <1>10. \A h \in Inside(aviable) : slot[h] \in Live /\ slot[h] \in Elements
    <2>1. Live \subseteq Elements
      BY LiveElements DEF StackInv
    <2> QED
      BY <1>3, <1>5, <1>8, <2>1 DEF StackInv, ElemInv
  <1>11. PoolTypeOK'
    <2>1. aviable' \in [Stacks -> Seq(Holders)] /\ empty' \in [Stacks -> Seq(Holders)]
      <3>1. <<>> \in Seq(Holders)
        OBVIOUS
      <3> QED
        BY <1>2, <3>1
    <2>2. freed' \subseteq Holders \cup Elements
      BY <1>2, <1>5, <1>10
    <2> QED
      BY <1>1, <1>2, <2>1, <2>2 DEF StackInv, PoolTypeOK
  <1>12. MainInv'
    BY <1>1 DEF Delete, StackInv, MainInv
  <1>13. HandsInv'
    BY <1>1 DEF StackInv, HandsInv
  <1>14. HolderInv'
    <2>1. Distinct(aviable') /\ Distinct(empty')
      BY <1>2 DEF Distinct
    <2>2. \A h \in Holders : h \in freed' => h \in made'
      <3>1. \A h \in Holders : h \in freed' => h \in Inside(empty) \cup Inside(aviable)
        BY <1>2, <1>10, Apart
      <3> QED
        BY <1>1, <1>3, <3>1 DEF StackInv, HolderInv
    <2>3. \A h \in made' : h \in freed'
      <3>1. \A h \in made : On(aviable, h) \/ On(empty, h)
        BY <1>1, <1>7, Apart DEF StackInv, HolderInv, PoolTypeOK
      <3> QED
        BY <1>1, <1>2, <1>3, <3>1
    <2> QED
      BY <1>1, <1>4, <1>7, <2>1, <2>2, <2>3 DEF HolderInv
  <1>15. SlotInv'
    BY <1>1, <1>4, <1>6 DEF SlotInv, Filling
  <1>16. ElemInv'
    <2>1. ElemInv /\ Live' = Live
      BY <1>1 DEF StackInv, Live
    <2>2. freed' \cap Elements \subseteq Live'
      BY <1>2, <1>5, <1>10, <2>1, Apart
    <2>3. ASSUME NEW c \in Clients PROVE mine'[c] \cap freed' = {}
      <3>1. mine[c] \subseteq Elements
        BY DEF StackInv, PoolTypeOK
      <3>2. \A h \in Inside(aviable) : slot[h] \notin mine[c]
        BY <1>3, <1>5, <1>8, <2>1 DEF ElemInv
      <3> QED
        BY <1>1, <1>2, <1>5, <3>1, <3>2, Apart
    <2>4. ASSUME NEW e \in Live'
          PROVE  (\E c \in Clients : e \in mine'[c]) \/ e \in freed'
      <3>1. e # NULL
        BY <2>1, LiveElements DEF StackInv
      <3>2. ASSUME NEW h \in Holders, content[h] = e PROVE e \in freed'
        BY <1>2, <1>3, <1>8, <3>1, <3>2
      <3> QED
        BY <1>1, <1>7, <2>1, <3>1, <3>2 DEF ElemInv
    <2>5. /\ \A t \in Threads : elem'[t] = NULL
          /\ \A c \in Clients : NULL \notin mine'[c]
      BY <1>1, <1>7, Apart DEF StackInv, PoolTypeOK
    <2> QED
      BY <1>1, <1>9, <2>1, <2>2, <2>3, <2>4, <2>5 DEF ElemInv
  <1> QED
    BY <1>11, <1>12, <1>13, <1>14, <1>15, <1>16 DEF StackInv

\* A worker drops the element it could not give back.
LEMMA DropInv ==
  ASSUME StackInv, NEW t \in Workers, WorkerDrops(t)
  PROVE  /\ StackInv' /\ Live' = Live \ {elem[t]} /\ elem[t] \in Live
         /\ produced' \ leaked' = produced \ leaked
  <1>0. t \in Threads /\ OwnPlace(t, "loop")
    BY PoolAssumption DEF OwnPlace, WorkerPlaces
  <1>1. /\ pc[t] = "refused" /\ Goto(t, "loop") /\ elem' = [elem EXCEPT ![t] = NULL]
        /\ lost' = lost \cup {elem[t]}
        /\ UNCHANGED <<aviable, empty, slot, made, produced, leaked, freed, hoder, mine, main>>
    BY DEF WorkerDrops
  <1>2. elem[t] # NULL /\ elem[t] \in Live
    <2>1. elem[t] # NULL
      BY <1>0, <1>1 DEF StackInv, HandsInv, Carrying
    <2> QED
      BY <1>0, <2>1 DEF StackInv, ElemInv
  <1>3. \A u \in Threads : pc'[u] = IF u = t THEN "loop" ELSE pc[u]
    BY <1>0, <1>1, Went
  <1>4. main # "deleted" /\ freed = {}
    BY <1>0, <1>1, InUse
  <1>5. \A u \in Threads : elem'[u] = IF u = t THEN NULL ELSE elem[u]
    BY <1>1 DEF StackInv, PoolTypeOK
  <1>6. Live' = Live \ {elem[t]} /\ produced' \ leaked' = produced \ leaked
    BY <1>1 DEF Live
  <1>7. PoolTypeOK'
    <2>1. lost' \subseteq (produced' \ leaked') \cup Own
      BY <1>1, <1>2 DEF StackInv, PoolTypeOK, Live
    <2>2. elem' \in [Threads -> Elements \cup {NULL}]
      BY <1>1 DEF StackInv, PoolTypeOK
    <2> QED
      BY <1>0, <1>1, <2>1, <2>2, WentType DEF StackInv, PoolTypeOK
  <1>8. MainInv'
    BY <1>0, <1>1, <1>4, WentMain
  <1>9. HandsInv'
    BY <1>1, <1>3, <1>5 DEF StackInv, HandsInv, Holding, Carrying
  <1>10. HolderInv'
    BY <1>1, HolderSame DEF StackInv
  <1>11. SlotInv' /\ content' = content
    <2>1. \A u \in Threads : pc'[u] \in Filling <=> pc[u] \in Filling
      BY <1>1, <1>3 DEF Filling
    <2> QED
      BY <1>1, <2>1, ContentSame DEF StackInv
  <1>12. ElemInv'
    <2>1. ElemInv /\ UNCHANGED <<content, freed, mine>>
      BY <1>1, <1>11 DEF StackInv
    <2>2. /\ \A c \in Clients : elem[t] \notin mine[c]
          /\ \A k \in Holders : content[k] # elem[t]
          /\ \A u \in Threads : u # t => elem[u] # elem[t]
      BY <1>0, <1>2, <2>1 DEF ElemInv
    <2>3. \A c \in Clients : mine'[c] \subseteq Live'
      BY <1>6, <2>1, <2>2 DEF ElemInv
    <2>4. \A u \in Threads : elem'[u] \in Live' \cup {NULL}
      BY <1>5, <1>6, <2>1, <2>2 DEF ElemInv
    <2>5. \A k \in Holders : content'[k] \in Live' \cup {NULL}
      BY <1>6, <2>1, <2>2 DEF ElemInv
    <2>6. \A c \in Clients, u \in Threads : elem'[u] \notin mine'[c]
      <3>1. \A c \in Clients : NULL \notin mine'[c]
        BY <1>1, Apart DEF StackInv, PoolTypeOK
      <3> QED
        BY <1>5, <2>1, <3>1 DEF ElemInv
    <2>7. ASSUME NEW e \in Live'
          PROVE  \/ \E c \in Clients : e \in mine'[c]
                 \/ \E u \in Threads : elem'[u] = e
                 \/ \E k \in Holders : content'[k] = e
                 \/ e \in freed'
      <3>1. ASSUME NEW u \in Threads, elem[u] = e PROVE elem'[u] = e
        BY <1>5, <1>6, <3>1
      <3> QED
        BY <1>6, <2>1, <3>1 DEF ElemInv
    <2>8. \A u, v \in Threads : elem'[u] = elem'[v] /\ elem'[u] # NULL => u = v
      BY <1>5, <2>1 DEF ElemInv
    <2>9. \A u \in Threads, k \in Holders : elem'[u] = content'[k] => elem'[u] = NULL
      BY <1>5, <2>1 DEF ElemInv
    <2> QED
      BY <1>4, <2>1, <2>3, <2>4, <2>5, <2>6, <2>7, <2>8, <2>9 DEF ElemInv
  <1> QED
    BY <1>2, <1>6, <1>7, <1>8, <1>9, <1>10, <1>11, <1>12 DEF StackInv

-----------------------------------------------------------------------------
(* The counts.                                                             *)

\* The sets that are counted are finite.
LEMMA Counted ==
  ASSUME StackInv
  PROVE  /\ IsFiniteSet(Carriers) /\ IsFiniteSet(Mine) /\ IsFiniteSet(Live)
         /\ \A P : IsFiniteSet(At(P))
         /\ PEmpty \in Nat /\ PAviable \in Nat /\ PHeld \in Nat
         /\ CEmpty \in Nat /\ CAviable \in Nat /\ CHeld \in Nat
         /\ Filled \in Nat /\ Carried \in Nat /\ Kept \in Nat /\ All \in Nat
         /\ Given \in Nat /\ Dropping \in Nat
         /\ PoolSize \in Nat /\ IsFiniteSet(produced \ leaked)
  <1>1. IsFiniteSet(Threads) /\ IsFiniteSet(Resources) /\ IsFiniteSet(Elements)
    BY PoolAssumption, Apart
  <1>2. /\ \A P : At(P) \subseteq Threads
        /\ Carriers \subseteq Threads /\ Mine \subseteq Elements /\ Live \subseteq Elements
        /\ produced \ leaked \subseteq Resources
    BY LiveElements DEF At, Carriers, Mine, StackInv, PoolTypeOK
  <1>3. PEmpty \in Nat /\ PAviable \in Nat /\ CEmpty \in Nat /\ CAviable \in Nat
    BY PoolAssumption DEF PEmpty, PAviable, CEmpty, CAviable, StackInv, PoolTypeOK
  <1>4. /\ \A P : IsFiniteSet(At(P))
        /\ IsFiniteSet(Carriers) /\ IsFiniteSet(Mine) /\ IsFiniteSet(Live)
        /\ IsFiniteSet(produced \ leaked)
    BY <1>1, <1>2, FS_Subset
  <1>5. /\ PHeld \in Nat /\ CHeld \in Nat /\ Filled \in Nat /\ Dropping \in Nat
        /\ Carried \in Nat /\ Kept \in Nat /\ All \in Nat /\ Given \in Nat
    BY <1>4, FS_CardinalityType DEF PHeld, CHeld, Filled, Carried, Kept, All, Given, Dropping
  <1> QED
    BY <1>3, <1>4, <1>5, PoolAssumption

\* One element more or less.
LEMMA OneMore ==
  ASSUME NEW S, IsFiniteSet(S), NEW x, x \notin S
  PROVE  Cardinality(S \cup {x}) = Cardinality(S) + 1
  BY FS_AddElement

LEMMA OneLess ==
  ASSUME NEW S, IsFiniteSet(S), NEW x \in S
  PROVE  Cardinality(S \ {x}) = Cardinality(S) - 1
  BY FS_RemoveElement

\* One thread goes to or leaves a set of places.
LEMMA Entered ==
  ASSUME StackInv, NEW t \in Threads, NEW l, Goto(t, l), NEW P, l \in P, pc[t] \notin P
  PROVE  Cardinality(At(P)') = Cardinality(At(P)) + 1
  <1>1. \A u \in Threads : pc'[u] = IF u = t THEN l ELSE pc[u]
    BY Went
  <1>2. At(P)' = At(P) \cup {t} /\ t \notin At(P)
    BY <1>1 DEF At
  <1>3. IsFiniteSet(At(P))
    BY PoolAssumption, FS_Subset DEF At
  <1> QED
    BY <1>2, <1>3, OneMore

LEMMA Left ==
  ASSUME StackInv, NEW t \in Threads, NEW l, Goto(t, l), NEW P, l \notin P, pc[t] \in P
  PROVE  Cardinality(At(P)') = Cardinality(At(P)) - 1
  <1>1. \A u \in Threads : pc'[u] = IF u = t THEN l ELSE pc[u]
    BY Went
  <1>2. At(P)' = At(P) \ {t} /\ t \in At(P)
    BY <1>1 DEF At
  <1>3. IsFiniteSet(At(P))
    BY PoolAssumption, FS_Subset DEF At
  <1> QED
    BY <1>2, <1>3, OneLess

LEMMA Stayed ==
  ASSUME StackInv, NEW t \in Threads, NEW l, Goto(t, l), NEW P, l \in P <=> pc[t] \in P
  PROVE  At(P)' = At(P)
  <1>1. \A u \in Threads : pc'[u] = IF u = t THEN l ELSE pc[u]
    BY Went
  <1> QED
    BY <1>1 DEF At

\* A thread gets an element, or gives it away.
LEMMA GotElem ==
  ASSUME StackInv, NEW t \in Threads, NEW r, r # NULL, elem[t] = NULL,
         elem' = [elem EXCEPT ![t] = r]
  PROVE  Carried' = Carried + 1
  <1>1. \A u \in Threads : elem'[u] = IF u = t THEN r ELSE elem[u]
    BY DEF StackInv, PoolTypeOK
  <1>2. Carriers' = Carriers \cup {t} /\ t \notin Carriers
    BY <1>1 DEF Carriers
  <1> QED
    BY <1>2, Counted, OneMore DEF Carried

LEMMA GaveElem ==
  ASSUME StackInv, NEW t \in Threads, elem[t] # NULL, elem' = [elem EXCEPT ![t] = NULL]
  PROVE  Carried' = Carried - 1
  <1>1. \A u \in Threads : elem'[u] = IF u = t THEN NULL ELSE elem[u]
    BY DEF StackInv, PoolTypeOK
  <1>2. Carriers' = Carriers \ {t} /\ t \in Carriers
    BY <1>1 DEF Carriers
  <1> QED
    BY <1>2, Counted, OneLess DEF Carried

LEMMA BothStacks == "producer" \in Stacks /\ "consumer" \in Stacks
  BY PoolAssumption

\* A holder changes hands with its element, or with an element for it.
LEMMA Balance ==
  ASSUME StackInv, CountInv, main' = main, Kept' = Kept, All' = All, Given' = Given,
         \/ /\ PHeld' = PHeld + 1 /\ CHeld' = CHeld /\ CEmpty' = CEmpty /\ CAviable' = CAviable
            /\ \/ /\ Carried' = Carried + 1 /\ Filled' = Filled
                  /\ PAviable' = PAviable - 1 /\ PEmpty' = PEmpty
               \/ /\ Carried' = Carried - 1 /\ Filled' = Filled + 1
                  /\ PAviable' = PAviable /\ PEmpty' = PEmpty - 1
         \/ /\ CHeld' = CHeld + 1 /\ PHeld' = PHeld /\ PEmpty' = PEmpty /\ PAviable' = PAviable
            /\ \/ /\ Carried' = Carried + 1 /\ Filled' = Filled
                  /\ CAviable' = CAviable - 1 /\ CEmpty' = CEmpty
               \/ /\ Carried' = Carried - 1 /\ Filled' = Filled + 1
                  /\ CAviable' = CAviable /\ CEmpty' = CEmpty - 1
  PROVE  CountInv'
  BY Counted DEF CountInv

LEMMA PopTakeCount ==
  ASSUME StackInv, CountInv, NEW t \in Threads, NEW s, NEW l, NEW then, NEW nothing,
         \/ s = "producer" /\ l \in {"pop", "force"} /\ then \in {"pop_put", "force_put"}
         \/ s = "consumer" /\ l = "take" /\ then = "take_put",
         PopTake(t, s, l, then, nothing), aviable[s] # <<>>, UNCHANGED poolVars
  PROVE  CountInv'
  <1> DEFINE h == LifoTop(aviable, s)
  <1>1. /\ pc[t] = l /\ Goto(t, then) /\ elem' = [elem EXCEPT ![t] = slot[h]]
        /\ aviable' = LifoPop(aviable, s)
        /\ UNCHANGED <<empty, produced, leaked, mine, lost, main>>
    BY DEF PopTake, poolVars
  <1>2. s \in Stacks
    BY BothStacks
  <1>3. /\ Len(aviable'[s]) = Len(aviable[s]) - 1 /\ h \in Holders /\ On(aviable, h)
        /\ \A u \in Stacks : u # s => aviable'[u] = aviable[u]
    <2>1. aviable \in [Stacks -> Seq(Holders)] /\ Distinct(aviable)
      BY DEF StackInv, PoolTypeOK, HolderInv
    <2> QED
      BY <1>1, <1>2, <2>1, PopEffect
  <1>4. slot[h] # NULL /\ elem[t] = NULL
    BY <1>1, <1>3 DEF StackInv, SlotInv, HandsInv, Carrying
  <1>5. Carried' = Carried + 1
    BY <1>1, <1>4, GotElem
  <1>6. Filled' = Filled
    BY <1>1, Stayed DEF Filled, Filling
  <1>7. Kept' = Kept /\ All' = All /\ Given' = Given
    BY <1>1 DEF Kept, All, Given, Mine, Live
  <1>8. CASE s = "producer"
    <2>1. PHeld' = PHeld + 1
      BY <1>1, <1>8, Entered DEF PHeld
    <2>2. CHeld' = CHeld
      BY <1>1, <1>8, Stayed DEF CHeld
    <2>3. PAviable' = PAviable - 1 /\ CAviable' = CAviable
      BY <1>3, <1>8, BothStacks DEF PAviable, CAviable
    <2>4. PEmpty' = PEmpty /\ CEmpty' = CEmpty /\ main' = main
      BY <1>1 DEF PEmpty, CEmpty
    <2> QED
      BY <1>5, <1>6, <1>7, <2>1, <2>2, <2>3, <2>4, Balance
  <1>9. CASE s = "consumer"
    <2>1. CHeld' = CHeld + 1
      BY <1>1, <1>9, Entered DEF CHeld
    <2>2. PHeld' = PHeld
      BY <1>1, <1>9, Stayed DEF PHeld
    <2>3. CAviable' = CAviable - 1 /\ PAviable' = PAviable
      BY <1>3, <1>9, BothStacks DEF CAviable, PAviable
    <2>4. PEmpty' = PEmpty /\ CEmpty' = CEmpty /\ main' = main
      BY <1>1 DEF PEmpty, CEmpty
    <2> QED
      BY <1>5, <1>6, <1>7, <2>1, <2>2, <2>3, <2>4, Balance
  <1> QED
    BY <1>8, <1>9

LEMMA PopPutCount ==
  ASSUME StackInv, CountInv, NEW t \in Threads, NEW s, NEW l, NEW then,
         \/ s = "producer" /\ l \in {"pop_put", "force_put"}
         \/ s = "consumer" /\ l = "take_put",
         then \in {"got", "load", "recycle"}, PopPut(t, s, l, then), UNCHANGED poolVars
  PROVE  CountInv'
  <1> DEFINE h == hoder[t]
  <1>1. /\ pc[t] = l /\ Goto(t, then) /\ empty' = LifoPush(empty, s, h)
        /\ UNCHANGED <<aviable, elem, produced, leaked, mine, lost, main>>
    BY DEF PopPut, GivenBack, poolVars
  <1>2. s \in Stacks
    BY BothStacks
  <1>3. /\ Len(empty'[s]) = Len(empty[s]) + 1
        /\ \A u \in Stacks : u # s => empty'[u] = empty[u]
    <2>1. empty \in [Stacks -> Seq(Holders)] /\ Distinct(empty)
      BY DEF StackInv, PoolTypeOK, HolderInv
    <2>2. h # NULL
      BY <1>1 DEF StackInv, HandsInv, Holding
    <2>3. h \in Holders /\ ~ On(empty, h)
      BY <2>2 DEF StackInv, PoolTypeOK, HolderInv
    <2> QED
      BY <1>1, <1>2, <2>1, <2>3, PushEffect
  <1>4. Filled' = Filled
    BY <1>1, Stayed DEF Filled, Filling
  <1>5. Kept' = Kept /\ All' = All /\ Given' = Given /\ Carried' = Carried
    BY <1>1 DEF Kept, All, Given, Carried, Mine, Live, Carriers
  <1>6. CASE s = "producer"
    <2>1. PHeld' = PHeld - 1
      BY <1>1, <1>6, Left DEF PHeld
    <2>2. CHeld' = CHeld
      BY <1>1, <1>6, Stayed DEF CHeld
    <2>3. PEmpty' = PEmpty + 1 /\ CEmpty' = CEmpty
      BY <1>3, <1>6, BothStacks DEF PEmpty, CEmpty
    <2>4. PAviable' = PAviable /\ CAviable' = CAviable /\ main' = main
      BY <1>1 DEF PAviable, CAviable
    <2> QED
      BY <1>4, <1>5, <2>1, <2>2, <2>3, <2>4, Counted DEF CountInv
  <1>7. CASE s = "consumer"
    <2>1. CHeld' = CHeld - 1
      BY <1>1, <1>7, Left DEF CHeld
    <2>2. PHeld' = PHeld
      BY <1>1, <1>7, Stayed DEF PHeld
    <2>3. CEmpty' = CEmpty + 1 /\ PEmpty' = PEmpty
      BY <1>3, <1>7, BothStacks DEF CEmpty, PEmpty
    <2>4. PAviable' = PAviable /\ CAviable' = CAviable /\ main' = main
      BY <1>1 DEF PAviable, CAviable
    <2> QED
      BY <1>4, <1>5, <2>1, <2>2, <2>3, <2>4, Counted DEF CountInv
  <1> QED
    BY <1>6, <1>7

LEMMA PushTakeCount ==
  ASSUME StackInv, CountInv, NEW t \in Threads, NEW s, NEW l, NEW then, NEW refused,
         \/ s = "producer" /\ l = "recycle" /\ then = "recycle_put"
         \/ s = "consumer" /\ l = "push" /\ then = "push_put",
         PushTake(t, s, l, then, refused), empty[s] # <<>>, UNCHANGED poolVars
  PROVE  CountInv'
  <1>1. /\ pc[t] = l /\ Goto(t, then) /\ elem' = [elem EXCEPT ![t] = NULL]
        /\ empty' = LifoPop(empty, s)
        /\ UNCHANGED <<aviable, produced, leaked, mine, lost, main>>
    BY DEF PushTake, poolVars
  <1>2. s \in Stacks
    BY BothStacks
  <1>3. /\ Len(empty'[s]) = Len(empty[s]) - 1
        /\ \A u \in Stacks : u # s => empty'[u] = empty[u]
    <2>1. empty \in [Stacks -> Seq(Holders)] /\ Distinct(empty)
      BY DEF StackInv, PoolTypeOK, HolderInv
    <2> QED
      BY <1>1, <1>2, <2>1, PopEffect
  <1>4. elem[t] # NULL
    BY <1>1 DEF StackInv, HandsInv, Carrying
  <1>5. Carried' = Carried - 1
    BY <1>1, <1>4, GaveElem
  <1>6. Filled' = Filled + 1
    BY <1>1, Entered DEF Filled, Filling
  <1>7. Kept' = Kept /\ All' = All /\ Given' = Given
    BY <1>1 DEF Kept, All, Given, Mine, Live
  <1>8. CASE s = "producer"
    <2>1. PHeld' = PHeld + 1
      BY <1>1, <1>8, Entered DEF PHeld
    <2>2. CHeld' = CHeld
      BY <1>1, <1>8, Stayed DEF CHeld
    <2>3. PEmpty' = PEmpty - 1 /\ CEmpty' = CEmpty
      BY <1>3, <1>8, BothStacks DEF PEmpty, CEmpty
    <2>4. PAviable' = PAviable /\ CAviable' = CAviable /\ main' = main
      BY <1>1 DEF PAviable, CAviable
    <2> QED
      BY <1>5, <1>6, <1>7, <2>1, <2>2, <2>3, <2>4, Balance
  <1>9. CASE s = "consumer"
    <2>1. CHeld' = CHeld + 1
      BY <1>1, <1>9, Entered DEF CHeld
    <2>2. PHeld' = PHeld
      BY <1>1, <1>9, Stayed DEF PHeld
    <2>3. CEmpty' = CEmpty - 1 /\ PEmpty' = PEmpty
      BY <1>3, <1>9, BothStacks DEF CEmpty, PEmpty
    <2>4. PAviable' = PAviable /\ CAviable' = CAviable /\ main' = main
      BY <1>1 DEF PAviable, CAviable
    <2> QED
      BY <1>5, <1>6, <1>7, <2>1, <2>2, <2>3, <2>4, Balance
  <1> QED
    BY <1>8, <1>9

LEMMA PushPutCount ==
  ASSUME StackInv, CountInv, NEW t \in Threads, NEW s, NEW l, NEW then,
         \/ s = "producer" /\ l = "recycle_put"
         \/ s = "consumer" /\ l = "push_put",
         then \in {"idle", "loop"}, PushPut(t, s, l, then), UNCHANGED poolVars
  PROVE  CountInv'
  <1> DEFINE h == hoder[t]
  <1>1. /\ pc[t] = l /\ Goto(t, then) /\ aviable' = LifoPush(aviable, s, h)
        /\ UNCHANGED <<empty, elem, produced, leaked, mine, lost, main>>
    BY DEF PushPut, poolVars
  <1>2. s \in Stacks
    BY BothStacks
  <1>3. /\ Len(aviable'[s]) = Len(aviable[s]) + 1
        /\ \A u \in Stacks : u # s => aviable'[u] = aviable[u]
    <2>1. aviable \in [Stacks -> Seq(Holders)] /\ Distinct(aviable)
      BY DEF StackInv, PoolTypeOK, HolderInv
    <2>2. h # NULL
      BY <1>1 DEF StackInv, HandsInv, Holding
    <2>3. h \in Holders /\ ~ On(aviable, h)
      BY <2>2 DEF StackInv, PoolTypeOK, HolderInv
    <2> QED
      BY <1>1, <1>2, <2>1, <2>3, PushEffect
  <1>4. Filled' = Filled - 1
    BY <1>1, Left DEF Filled, Filling
  <1>5. Kept' = Kept /\ All' = All /\ Given' = Given /\ Carried' = Carried
    BY <1>1 DEF Kept, All, Given, Carried, Mine, Live, Carriers
  <1>6. CASE s = "producer"
    <2>1. PHeld' = PHeld - 1
      BY <1>1, <1>6, Left DEF PHeld
    <2>2. CHeld' = CHeld
      BY <1>1, <1>6, Stayed DEF CHeld
    <2>3. PAviable' = PAviable + 1 /\ CAviable' = CAviable
      BY <1>3, <1>6, BothStacks DEF PAviable, CAviable
    <2>4. PEmpty' = PEmpty /\ CEmpty' = CEmpty /\ main' = main
      BY <1>1 DEF PEmpty, CEmpty
    <2> QED
      BY <1>4, <1>5, <2>1, <2>2, <2>3, <2>4, Counted DEF CountInv
  <1>7. CASE s = "consumer"
    <2>1. CHeld' = CHeld - 1
      BY <1>1, <1>7, Left DEF CHeld
    <2>2. PHeld' = PHeld
      BY <1>1, <1>7, Stayed DEF PHeld
    <2>3. CAviable' = CAviable + 1 /\ PAviable' = PAviable
      BY <1>3, <1>7, BothStacks DEF CAviable, PAviable
    <2>4. PEmpty' = PEmpty /\ CEmpty' = CEmpty /\ main' = main
      BY <1>1 DEF PEmpty, CEmpty
    <2> QED
      BY <1>4, <1>5, <2>1, <2>2, <2>3, <2>4, Counted DEF CountInv
  <1> QED
    BY <1>6, <1>7

\* Steps that move no holder and no element.
LEMMA SameCount ==
  ASSUME StackInv, CountInv, main # "deleted", UNCHANGED <<empty, aviable, elem, mine>>,
         Live' = Live, produced' \ leaked' = produced \ leaked,
         \A t \in Threads : pc'[t] = pc[t] \/ (pc[t] \notin Holding /\ pc'[t] \notin Holding)
  PROVE  CountInv'
  <1>1. PHeld' = PHeld /\ CHeld' = CHeld /\ Filled' = Filled
    <2>1. /\ At({"pop_put", "force_put", "recycle_put"})' = At({"pop_put", "force_put", "recycle_put"})
          /\ At({"push_put", "take_put"})' = At({"push_put", "take_put"})
          /\ At(Filling)' = At(Filling)
      BY DEF At, Holding, Filling
    <2> QED
      BY <2>1 DEF PHeld, CHeld, Filled
  <1>2. Carried' = Carried /\ Kept' = Kept /\ All' = All /\ Given' = Given
    BY DEF Carried, Kept, All, Given, Carriers, Mine
  <1>3. PEmpty' = PEmpty /\ PAviable' = PAviable /\ CEmpty' = CEmpty /\ CAviable' = CAviable
    BY DEF PEmpty, PAviable, CEmpty, CAviable
  <1> QED
    BY <1>1, <1>2, <1>3, Counted DEF CountInv

\* A thread that moves between places without a holder.
LEMMA NoHolder ==
  ASSUME StackInv, NEW t \in Threads, NEW l, Goto(t, l), pc[t] \notin Holding, l \notin Holding
  PROVE  /\ \A u \in Threads : pc'[u] = pc[u] \/ (pc[u] \notin Holding /\ pc'[u] \notin Holding)
         /\ PHeld' = PHeld /\ CHeld' = CHeld /\ Filled' = Filled
  <1>1. \A u \in Threads : pc'[u] = pc[u] \/ (pc[u] \notin Holding /\ pc'[u] \notin Holding)
    BY Went
  <1>2. /\ At({"pop_put", "force_put", "recycle_put"})' = At({"pop_put", "force_put", "recycle_put"})
        /\ At({"push_put", "take_put"})' = At({"push_put", "take_put"})
        /\ At(Filling)' = At(Filling)
    BY <1>1 DEF At, Holding, Filling
  <1> QED
    BY <1>1, <1>2 DEF PHeld, CHeld, Filled

LEMMA ProduceCount ==
  ASSUME StackInv, CountInv, NEW t \in Clients, Produce(t, "producer", "produce", "load"),
         UNCHANGED poolVars
  PROVE  CountInv' /\ All' = All + 1 /\ Given' = Given + 1
  <1>0. t \in Threads
    BY PoolAssumption
  <1>1. PICK r \in Resources \ produced, h \in Holders \ made :
          /\ produced' = produced \cup {r}
          /\ elem' = [elem EXCEPT ![t] = r]
          /\ empty' = LifoPush(empty, "producer", h)
    BY DEF Produce, AnotherEmpty
  <1>2. /\ pc[t] = "produce" /\ Goto(t, "load") /\ UNCHANGED <<aviable, leaked, mine, lost, main>>
    BY DEF Produce, poolVars
  <1>3. PEmpty' = PEmpty + 1 /\ CEmpty' = CEmpty
    <2>1. empty \in [Stacks -> Seq(Holders)] /\ Distinct(empty) /\ ~ On(empty, h)
      BY DEF StackInv, PoolTypeOK, HolderInv
    <2>2. /\ Len(empty'["producer"]) = Len(empty["producer"]) + 1
          /\ \A u \in Stacks : u # "producer" => empty'[u] = empty[u]
      BY <1>1, <2>1, PushEffect, BothStacks
    <2> QED
      BY <2>2, BothStacks DEF PEmpty, CEmpty
  <1>4. elem[t] = NULL /\ r # NULL
    BY <1>0, <1>2, Apart DEF StackInv, HandsInv, Carrying
  <1>5. Carried' = Carried + 1
    BY <1>0, <1>1, <1>4, GotElem
  <1>6. All' = All + 1 /\ Given' = Given + 1
    <2>1. /\ Live' = Live \cup {r} /\ r \notin Live
          /\ produced' \ leaked' = (produced \ leaked) \cup {r} /\ r \notin produced \ leaked
      BY <1>1, <1>2, Apart DEF Live, StackInv, PoolTypeOK
    <2>2. Cardinality(Live') = Cardinality(Live) + 1
      BY <2>1, Counted, OneMore
    <2>3. Cardinality(produced' \ leaked') = Cardinality(produced \ leaked) + 1
      BY <2>1, Counted, OneMore
    <2> QED
      BY <2>2, <2>3 DEF All, Given
  <1>7. PHeld' = PHeld /\ CHeld' = CHeld /\ Filled' = Filled
    BY <1>0, <1>2, NoHolder DEF Holding
  <1>8. Kept' = Kept /\ PAviable' = PAviable /\ CAviable' = CAviable /\ main' = main
    BY <1>2 DEF Kept, Mine, PAviable, CAviable
  <1> QED
    BY <1>3, <1>5, <1>6, <1>7, <1>8, Counted DEF CountInv

LEMMA ReturnCount ==
  ASSUME StackInv, CountInv, NEW t \in Clients, Return(t)
  PROVE  CountInv'
  <1>0. t \in Threads
    BY PoolAssumption
  <1>1. /\ pc[t] = "got" /\ Goto(t, "idle") /\ elem' = [elem EXCEPT ![t] = NULL]
        /\ UNCHANGED <<aviable, empty, produced, leaked, lost, main>>
    BY DEF Return
  <1>2. \A c \in Clients : mine'[c] = IF c = t THEN mine[t] \cup ({elem[t]} \ {NULL}) ELSE mine[c]
    BY DEF Return, StackInv, PoolTypeOK
  <1>3. PHeld' = PHeld /\ CHeld' = CHeld /\ Filled' = Filled
    BY <1>0, <1>1, NoHolder DEF Holding
  <1>4. /\ PEmpty' = PEmpty /\ PAviable' = PAviable /\ CEmpty' = CEmpty /\ CAviable' = CAviable
        /\ All' = All /\ Given' = Given /\ main' = main
    BY <1>1 DEF PEmpty, PAviable, CEmpty, CAviable, All, Given, Live
  <1>5. CASE elem[t] = NULL
    <2>1. elem' = elem
      BY <1>1, <1>5 DEF StackInv, PoolTypeOK
    <2>2. \A c \in Clients : mine'[c] = mine[c]
      BY <1>2, <1>5
    <2>3. Carried' = Carried /\ Kept' = Kept
      BY <2>1, <2>2 DEF Carried, Carriers, Kept, Mine
    <2> QED
      BY <1>3, <1>4, <2>3, Counted DEF CountInv
  <1>6. CASE elem[t] # NULL
    <2>1. Carried' = Carried - 1
      BY <1>0, <1>1, <1>6, GaveElem
    <2>2. Mine' = Mine \cup {elem[t]} /\ elem[t] \notin Mine
      <3>1. elem[t] \notin Mine
        BY <1>0 DEF Mine, StackInv, ElemInv
      <3>2. \A c \in Clients : mine'[c] = IF c = t THEN mine[t] \cup {elem[t]} ELSE mine[c]
        BY <1>2, <1>6
      <3> QED
        BY <3>1, <3>2 DEF Mine
    <2>3. Kept' = Kept + 1
      BY <2>2, Counted, OneMore DEF Kept
    <2> QED
      BY <1>3, <1>4, <2>1, <2>3, Counted DEF CountInv
  <1> QED
    BY <1>5, <1>6

LEMMA CallPushCount ==
  ASSUME StackInv, CountInv, NEW t \in Clients, CallPush(t)
  PROVE  CountInv'
  <1>0. t \in Threads
    BY PoolAssumption
  <1>1. /\ pc[t] = "idle" /\ Goto(t, "push")
        /\ UNCHANGED <<aviable, empty, produced, leaked, lost, main>>
    BY DEF CallPush
  <1>2. PICK r \in mine[t] : /\ elem' = [elem EXCEPT ![t] = r]
                             /\ mine' = [mine EXCEPT ![t] = @ \ {r}]
    BY DEF CallPush
  <1>3. PHeld' = PHeld /\ CHeld' = CHeld /\ Filled' = Filled
    BY <1>0, <1>1, NoHolder DEF Holding
  <1>4. /\ PEmpty' = PEmpty /\ PAviable' = PAviable /\ CEmpty' = CEmpty /\ CAviable' = CAviable
        /\ All' = All /\ Given' = Given /\ main' = main
    BY <1>1 DEF PEmpty, PAviable, CEmpty, CAviable, All, Given, Live
  <1>5. elem[t] = NULL /\ r # NULL
    BY <1>0, <1>1, Apart DEF StackInv, HandsInv, Carrying, PoolTypeOK
  <1>6. Carried' = Carried + 1
    BY <1>0, <1>2, <1>5, GotElem
  <1>7. Mine' = Mine \ {r} /\ r \in Mine
    <2>1. \A c \in Clients : mine'[c] = mine[c] \ {r}
      <3>1. \A c \in Clients : c # t => r \notin mine[c]
        BY DEF StackInv, ElemInv
      <3> QED
        BY <1>2, <3>1 DEF StackInv, PoolTypeOK
    <2> QED
      BY <2>1 DEF Mine
  <1>8. Kept' = Kept - 1
    BY <1>7, Counted, OneLess DEF Kept
  <1> QED
    BY <1>3, <1>4, <1>6, <1>8, Counted DEF CountInv

LEMMA DropCount ==
  ASSUME StackInv, CountInv, NEW w \in Workers, WorkerDrops(w)
  PROVE  CountInv' /\ All' = All - 1 /\ Given' = Given
  <1>0. w \in Threads
    BY PoolAssumption
  <1>1. /\ pc[w] = "refused" /\ Goto(w, "loop") /\ elem' = [elem EXCEPT ![w] = NULL]
        /\ lost' = lost \cup {elem[w]}
        /\ UNCHANGED <<aviable, empty, produced, leaked, mine, main>>
    BY DEF WorkerDrops
  <1>2. elem[w] # NULL /\ elem[w] \in Live
    BY <1>0, <1>1 DEF StackInv, HandsInv, Carrying, ElemInv
  <1>3. PHeld' = PHeld /\ CHeld' = CHeld /\ Filled' = Filled
    BY <1>0, <1>1, NoHolder DEF Holding
  <1>4. /\ PEmpty' = PEmpty /\ PAviable' = PAviable /\ CEmpty' = CEmpty /\ CAviable' = CAviable
        /\ Kept' = Kept /\ Given' = Given /\ main' = main
    BY <1>1 DEF PEmpty, PAviable, CEmpty, CAviable, Kept, Given, Mine
  <1>5. Carried' = Carried - 1
    BY <1>0, <1>1, <1>2, GaveElem
  <1>6. All' = All - 1
    <2>1. Live' = Live \ {elem[w]}
      BY <1>1 DEF Live
    <2> QED
      BY <1>2, <2>1, Counted, OneLess DEF All
  <1> QED
    BY <1>3, <1>4, <1>5, <1>6, Counted DEF CountInv

\* A step that neither makes nor loses an element, by a thread that is not refused one.
LEMMA LossSame ==
  ASSUME LossInv, Live' = Live, produced' \ leaked' = produced \ leaked,
         \A t \in Threads : pc'[t] = "refused" <=> pc[t] = "refused"
  PROVE  LossInv'
  <1>1. At({"refused"})' = At({"refused"})
    BY DEF At
  <1> QED
    BY <1>1 DEF LossInv, Given, Dropping, All

LEMMA LossWent ==
  ASSUME StackInv, LossInv, NEW t \in Threads, NEW l, Goto(t, l), pc[t] # "refused", l # "refused",
         UNCHANGED <<produced, leaked, lost>>
  PROVE  LossInv'
  <1>1. \A u \in Threads : pc'[u] = IF u = t THEN l ELSE pc[u]
    BY Went
  <1>2. \A u \in Threads : pc'[u] = "refused" <=> pc[u] = "refused"
    BY <1>1
  <1> QED
    BY <1>2, LossSame DEF Live

-----------------------------------------------------------------------------
(* What the counts say.                                                    *)

LEMMA DisjointSum ==
  ASSUME NEW S, NEW T, IsFiniteSet(S), IsFiniteSet(T), S \cap T = {}
  PROVE  Cardinality(S \cup T) = Cardinality(S) + Cardinality(T)
  <1>1. Cardinality(S \cap T) = 0
    BY FS_EmptySet
  <1>2. Cardinality(S \cup T) = Cardinality(S) + Cardinality(T) - Cardinality(S \cap T)
    BY FS_Union
  <1>3. Cardinality(S) \in Nat /\ Cardinality(T) \in Nat
    BY FS_CardinalityType
  <1> QED
    BY <1>1, <1>2, <1>3

LEMMA AtUnion ==
  ASSUME StackInv, NEW A, NEW B, A \cap B = {}
  PROVE  Cardinality(At(A \cup B)) = Cardinality(At(A)) + Cardinality(At(B))
  <1>1. At(A \cup B) = At(A) \cup At(B) /\ At(A) \cap At(B) = {}
    BY DEF At
  <1>2. IsFiniteSet(At(A)) /\ IsFiniteSet(At(B))
    BY Counted
  <1>3. Cardinality(At(A) \cup At(B)) = Cardinality(At(A)) + Cardinality(At(B))
    BY <1>1, <1>2, DisjointSum
  <1> QED
    BY <1>1, <1>3

\* Threads in different places have different elements.
LEMMA HeldBound ==
  ASSUME StackInv, NEW A, NEW B, A \subseteq Carrying, B \subseteq Filling,
         NEW t \in Threads, pc[t] \in Carrying, pc[t] \notin A
  PROVE  Cardinality(At(A \cup B)) + 1 <= Carried + Filled
  <1>1. A \cap B = {}
    BY DEF Carrying, Filling
  <1>3. IsFiniteSet(At(A)) /\ IsFiniteSet(At(B)) /\ IsFiniteSet(Carriers) /\ IsFiniteSet(At(Filling))
    BY Counted
  <1>4. Cardinality(At(A \cup B)) = Cardinality(At(A)) + Cardinality(At(B))
    BY <1>1, AtUnion
  <1>5. Cardinality(At(A)) + 1 <= Carried
    <2>1. At(A) \cup {t} \subseteq Carriers
      BY DEF At, Carriers, StackInv, HandsInv
    <2>2. t \notin At(A)
      BY DEF At
    <2>3. Cardinality(At(A) \cup {t}) = Cardinality(At(A)) + 1
      BY <1>3, <2>2, OneMore
    <2> QED
      BY <1>3, <2>1, <2>3, FS_Subset DEF Carried
  <1>6. Cardinality(At(B)) <= Filled
    <2>1. At(B) \subseteq At(Filling)
      BY DEF At
    <2> QED
      BY <1>3, <2>1, FS_Subset DEF Filled
  <1>7. Cardinality(At(A)) \in Nat /\ Cardinality(At(B)) \in Nat /\ Carried \in Nat /\ Filled \in Nat
    BY <1>3, Counted, FS_CardinalityType
  <1> QED
    BY <1>4, <1>5, <1>6, <1>7

\* When the producer stack refuses an element there are more elements than produce has
\* made and than other workers are about to drop.
LEMMA RecycleCounts ==
  ASSUME StackInv, CountInv, NEW w \in Workers, pc[w] = "recycle", empty["producer"] = <<>>
  PROVE  Given + Dropping + 1 <= All
  <1> DEFINE P == {"pop_put", "force_put", "recycle_put"}
             R == {"refused"}
  <1>1. w \in Threads
    BY PoolAssumption
  <1>2. main # "deleted"
    BY <1>1, InUse
  <1>3. Cardinality(At(P \cup R)) + 1 <= Carried + Filled
    <2>1. {"pop_put", "force_put", "refused"} \subseteq Carrying /\ {"recycle_put"} \subseteq Filling
          /\ pc[w] \in Carrying /\ pc[w] \notin {"pop_put", "force_put", "refused"}
      BY DEF Carrying, Filling
    <2>2. Cardinality(At({"pop_put", "force_put", "refused"} \cup {"recycle_put"})) + 1
            <= Carried + Filled
      BY <1>1, <2>1, HeldBound
    <2>3. {"pop_put", "force_put", "refused"} \cup {"recycle_put"} = P \cup R
      OBVIOUS
    <2> QED
      BY <2>2, <2>3
  <1>4. Cardinality(At(P \cup R)) = PHeld + Dropping
    <2>1. P \cap R = {}
      OBVIOUS
    <2> HIDE DEF P, R
    <2>2. Cardinality(At(P \cup R)) = Cardinality(At(P)) + Cardinality(At(R))
      BY <2>1, AtUnion
    <2> QED
      BY <2>2 DEF P, R, PHeld, Dropping
  <1>5. PEmpty = 0
    BY DEF PEmpty
  <1>6. PHeld + Dropping + 1 <= Carried + Filled
    BY <1>3, <1>4
  <1>7. PEmpty + PAviable + PHeld = Given /\ All = Kept + Carried + Filled + PAviable + CAviable
    BY <1>2 DEF CountInv
  <1>8. /\ PAviable \in Nat /\ PHeld \in Nat /\ Dropping \in Nat /\ Carried \in Nat
        /\ Filled \in Nat /\ Kept \in Nat /\ CAviable \in Nat
    BY Counted
  <1> QED
    BY <1>5, <1>6, <1>7, <1>8

LEMMA RefusedCounts ==
  ASSUME StackInv, CountInv
  PROVE  RefusedOnlyWhenExtended
  <1> SUFFICES ASSUME NEW c \in Clients, pc[c] = "push", empty["consumer"] = <<>>
               PROVE  All > PoolSize
    BY DEF RefusedOnlyWhenExtended, All
  <1>1. c \in Threads
    BY PoolAssumption
  <1>2. main # "deleted"
    BY <1>1, InUse
  <1>3. CHeld + 1 <= Carried + Filled
    <2>1. {"take_put"} \subseteq Carrying /\ {"push_put"} \subseteq Filling
          /\ pc[c] \in Carrying /\ pc[c] \notin {"take_put"}
      BY DEF Carrying, Filling
    <2>2. Cardinality(At({"take_put"} \cup {"push_put"})) + 1 <= Carried + Filled
      BY <1>1, <2>1, HeldBound
    <2>3. {"take_put"} \cup {"push_put"} = {"push_put", "take_put"}
      OBVIOUS
    <2> QED
      BY <2>2, <2>3 DEF CHeld
  <1>4. CEmpty = 0
    BY DEF CEmpty
  <1>5. CEmpty + CAviable + CHeld = PoolSize /\ All = Kept + Carried + Filled + PAviable + CAviable
    BY <1>2 DEF CountInv
  <1>6. /\ PAviable \in Nat /\ CHeld \in Nat /\ Carried \in Nat
        /\ Filled \in Nat /\ Kept \in Nat /\ CAviable \in Nat
    BY Counted
  <1> QED
    BY <1>3, <1>4, <1>5, <1>6

\* What has been lost is what there would be without the losses, less what there is.
LEMMA LossCounts ==
  ASSUME StackInv, LossInv
  PROVE  LossBound
  <1> DEFINE G == produced \ leaked
  <1>1. /\ lost \subseteq G \cup Own /\ G \cap Own = {} /\ Live = (G \cup Own) \ lost
        /\ G \subseteq Resources
    BY Apart DEF StackInv, PoolTypeOK, Live
  <1>2. IsFiniteSet(G) /\ IsFiniteSet(Own) /\ IsFiniteSet(G \cup Own)
    <2>1. IsFiniteSet(G) /\ IsFiniteSet(Own)
      BY <1>1, PoolAssumption, FS_Subset
    <2> QED
      BY <2>1, FS_Union
  <1> HIDE DEF G
  <1>3. IsFiniteSet(lost) /\ IsFiniteSet(Live)
    BY <1>1, <1>2, FS_Subset
  <1>4. Cardinality(G \cup Own) = Cardinality(G) + Cardinality(Own)
    BY <1>1, <1>2, DisjointSum
  <1>5. Cardinality(G \cup Own) = Cardinality(Live) + Cardinality(lost)
    <2>1. G \cup Own = Live \cup lost /\ Live \cap lost = {}
      BY <1>1
    <2> QED
      BY <1>3, <2>1, DisjointSum
  <1>6. Cardinality(G) <= Cardinality(Live)
    <2>1. Given = Cardinality(G) /\ All = Cardinality(Live)
      BY DEF G, Given, All
    <2> QED
      BY <2>1, Counted DEF LossInv
  <1>7. /\ Cardinality(G) \in Nat /\ Cardinality(Own) \in Nat
        /\ Cardinality(Live) \in Nat /\ Cardinality(lost) \in Nat
    BY <1>2, <1>3, FS_CardinalityType
  <1> QED
    BY <1>4, <1>5, <1>6, <1>7 DEF LossBound

-----------------------------------------------------------------------------
(* One place for everything.                                               *)

LEMMA AloneOrNone ==
  ASSUME NEW S
  PROVE  /\ \A x : S = {x} => Cardinality(S) = 1
         /\ S = {} => Cardinality(S) = 0
  BY FS_Singleton, FS_EmptySet

\* The holders that carry an element, by the two definitions of what that is.
LEMMA Carry ==
  ASSUME StackInv, NEW e, e # NULL
  PROVE  {h \in Full : slot[h] = e} = {h \in Holders : content[h] = e}
  <1> DEFINE Filler(h) == \E t \in Threads : pc[t] \in Filling /\ hoder[t] = h
  <1>1. \A h : h \in Inside(aviable) <=> On(aviable, h)
    <2>1. \A s \in Stacks : DOMAIN aviable[s] = 1..Len(aviable[s])
      BY DEF StackInv, PoolTypeOK
    <2> QED
      BY <2>1 DEF Inside, On
  <1>2. \A h : h \in Full <=> On(aviable, h) \/ Filler(h)
    BY <1>1 DEF Full, Filling
  <1>3. \A h : h \in Full => h \in Holders
    <2>1. \A h : On(aviable, h) => h \in Holders
      BY DEF On, StackInv, PoolTypeOK
    <2>2. \A t \in Threads : pc[t] \in Filling => hoder[t] \in Holders
      BY DEF Filling, Holding, StackInv, HandsInv, PoolTypeOK
    <2> QED
      BY <1>2, <2>1, <2>2
  <1>4. \A h \in Holders : content[h] = IF h \in Full THEN slot[h] ELSE NULL
    BY <1>2 DEF content
  <1> QED
    BY <1>3, <1>4

LEMMA ElemPlaces ==
  ASSUME StackInv
  PROVE  OnePlace
  <1> SUFFICES ASSUME NEW e \in produced \cup Own
               PROVE  Cardinality({c \in Clients : e \in mine[c]})
                    + Cardinality({t \in Threads : elem[t] = e})
                    + Cardinality({h \in Full : slot[h] = e})
                    + Cardinality({e} \cap freed)
                    = IF e \in Live THEN 1 ELSE 0
    BY DEF OnePlace
  <1> DEFINE A == {c \in Clients : e \in mine[c]}
             B == {t \in Threads : elem[t] = e}
             C == {h \in Holders : content[h] = e}
             D == {e} \cap freed
  <1>1. e \in Elements /\ e # NULL /\ ElemInv
    BY Apart DEF StackInv, PoolTypeOK
  <1>0. {h \in Full : slot[h] = e} = C
    BY <1>1, Carry
  <1>2. CASE e \notin Live
    <2>1. A = {} /\ B = {} /\ C = {} /\ D = {}
      BY <1>1, <1>2 DEF ElemInv
    <2> HIDE DEF A, B, C, D
    <2>2. Cardinality(A) + Cardinality(B) + Cardinality(C) + Cardinality(D) = 0
      BY <2>1, AloneOrNone
    <2> QED
      BY <1>0, <1>2, <2>2 DEF A, B, D
  <1>3. CASE e \in Live
    <2>1. freed # {} => /\ \A t \in Threads : elem[t] = NULL
                        /\ \A h \in Holders : content[h] = NULL
      <3> SUFFICES ASSUME freed # {}
                   PROVE  /\ \A t \in Threads : elem[t] = NULL
                          /\ \A h \in Holders : content[h] = NULL
        OBVIOUS
      <3>1. main = "deleted" /\ \A t \in Threads : pc[t] \in {"idle", "new", "exited"}
        BY PoolAssumption DEF StackInv, MainInv
      <3>2. \A t \in Threads : elem[t] = NULL
        BY <3>1 DEF StackInv, HandsInv, Carrying
      <3>3. \A h \in Holders : content[h] = NULL
        BY <3>1 DEF StackInv, HolderInv, content, Filling
      <3> QED
        BY <3>2, <3>3
    <2>2. ASSUME NEW c \in Clients, e \in mine[c]
          PROVE  A = {c} /\ B = {} /\ C = {} /\ D = {}
      BY <1>1, <2>2 DEF ElemInv
    <2>3. ASSUME NEW t \in Threads, elem[t] = e
          PROVE  A = {} /\ B = {t} /\ C = {} /\ D = {}
      BY <1>1, <2>1, <2>3 DEF ElemInv
    <2>4. ASSUME NEW h \in Holders, content[h] = e
          PROVE  A = {} /\ B = {} /\ C = {h} /\ D = {}
      BY <1>1, <2>1, <2>4 DEF ElemInv
    <2>5. ASSUME e \in freed
          PROVE  A = {} /\ B = {} /\ C = {} /\ D = {e}
      BY <1>1, <2>1, <2>5 DEF ElemInv
    <2>6. \/ \E c \in Clients : e \in mine[c]
          \/ \E t \in Threads : elem[t] = e
          \/ \E h \in Holders : content[h] = e
          \/ e \in freed
      BY <1>1, <1>3 DEF ElemInv
    <2> HIDE DEF A, B, C, D
    <2>8. Cardinality(A) + Cardinality(B) + Cardinality(C) + Cardinality(D) = 1
      <3>1. CASE \E c \in Clients : e \in mine[c]
        <4>1. (\E c : A = {c}) /\ B = {} /\ C = {} /\ D = {}
          BY <2>2, <3>1
        <4> QED
          BY <4>1, AloneOrNone
      <3>2. CASE \E t \in Threads : elem[t] = e
        <4>1. A = {} /\ (\E t : B = {t}) /\ C = {} /\ D = {}
          BY <2>3, <3>2
        <4> QED
          BY <4>1, AloneOrNone
      <3>3. CASE \E h \in Holders : content[h] = e
        <4>1. PICK h \in Holders : content[h] = e
          BY <3>3
        <4>2. A = {} /\ B = {} /\ C = {h} /\ D = {}
          BY <2>4, <4>1
        <4>3. Cardinality(A) = 0 /\ Cardinality(B) = 0 /\ Cardinality(C) = 1 /\ Cardinality(D) = 0
          BY <4>2, AloneOrNone
        <4> QED
          BY <4>3
      <3>4. CASE e \in freed
        BY <2>5, <3>4, AloneOrNone
      <3> QED
        BY <2>6, <3>1, <3>2, <3>3, <3>4
    <2> QED
      BY <1>0, <1>3, <2>8 DEF A, B, D
  <1> QED
    BY <1>2, <1>3

LEMMA Places ==
  ASSUME NEW f \in [Stacks -> Seq(Holders)], Distinct(f), NEW h, NEW In,
         In = {p \in UNION {{s} \X DOMAIN f[s] : s \in Stacks} : f[p[1]][p[2]] = h}
  PROVE  /\ On(f, h) => In # {} /\ Cardinality(In) = 1
         /\ ~ On(f, h) => In = {} /\ Cardinality(In) = 0
  <1>1. \A s \in Stacks : DOMAIN f[s] = 1..Len(f[s])
    OBVIOUS
  <1>2. \A p \in In : \E s \in Stacks : \E i \in 1..Len(f[s]) : p = <<s, i>> /\ f[s][i] = h
    BY <1>1
  <1>3. \A s \in Stacks : \A i \in 1..Len(f[s]) : f[s][i] = h => <<s, i>> \in In
    BY <1>1
  <1>4. ASSUME On(f, h) PROVE In # {} /\ Cardinality(In) = 1
    <2>1. PICK s \in Stacks : \E i \in 1..Len(f[s]) : f[s][i] = h
      BY <1>4 DEF On
    <2>2. PICK i \in 1..Len(f[s]) : f[s][i] = h
      BY <2>1
    <2>3. <<s, i>> \in In
      BY <1>3, <2>2
    <2>4. \A p \in In : p = <<s, i>>
      BY <1>2, <2>2 DEF Distinct
    <2>5. In = {<<s, i>>}
      BY <2>3, <2>4
    <2> QED
      BY <2>5, AloneOrNone
  <1>5. ASSUME ~ On(f, h) PROVE In = {}
    BY <1>2, <1>5 DEF On
  <1> QED
    BY <1>4, <1>5, AloneOrNone

LEMMA HolderPlaces ==
  ASSUME StackInv, NEW h \in made
  PROVE  LET In(f) == {p \in UNION {{s} \X DOMAIN f[s] : s \in Stacks} : f[p[1]][p[2]] = h}
         IN  Cardinality(In(aviable)) + Cardinality(In(empty))
               + Cardinality({t \in Threads : hoder[t] = h}) + Cardinality({h} \cap freed) = 1
  <1> DEFINE In(f) == {p \in UNION {{s} \X DOMAIN f[s] : s \in Stacks} : f[p[1]][p[2]] = h}
             A == In(aviable)
             B == In(empty)
             C == {t \in Threads : hoder[t] = h}
             D == {h} \cap freed
  <1>1. h \in Holders /\ h # NULL /\ HolderInv
    BY Apart DEF StackInv, PoolTypeOK
  <1>2. aviable \in [Stacks -> Seq(Holders)] /\ empty \in [Stacks -> Seq(Holders)]
        /\ Distinct(aviable) /\ Distinct(empty)
    BY DEF StackInv, PoolTypeOK, HolderInv
  <1>3. /\ On(aviable, h) => A # {} /\ Cardinality(A) = 1
        /\ ~ On(aviable, h) => A = {} /\ Cardinality(A) = 0
    BY <1>2, Places
  <1>4. /\ On(empty, h) => B # {} /\ Cardinality(B) = 1
        /\ ~ On(empty, h) => B = {} /\ Cardinality(B) = 0
    BY <1>2, Places
  <1>5. freed # {} => /\ ~ On(aviable, h) /\ ~ On(empty, h)
                      /\ \A t \in Threads : hoder[t] = NULL
    <2> SUFFICES ASSUME freed # {}
                 PROVE  /\ ~ On(aviable, h) /\ ~ On(empty, h)
                        /\ \A t \in Threads : hoder[t] = NULL
      OBVIOUS
    <2>1. main = "deleted" /\ \A t \in Threads : pc[t] \in {"idle", "new", "exited"}
      BY PoolAssumption DEF StackInv, MainInv
    <2>2. \A t \in Threads : hoder[t] = NULL
      BY <2>1 DEF StackInv, HandsInv, Holding
    <2> QED
      BY <1>1, <2>1, <2>2 DEF HolderInv
  <1>6. ASSUME On(aviable, h) PROVE ~ On(empty, h) /\ C = {} /\ D = {}
    BY <1>1, <1>5, <1>6 DEF HolderInv
  <1>7. ASSUME On(empty, h) PROVE ~ On(aviable, h) /\ C = {} /\ D = {}
    BY <1>1, <1>5, <1>7 DEF HolderInv
  <1>8. ASSUME NEW t \in Threads, hoder[t] = h
        PROVE  ~ On(aviable, h) /\ ~ On(empty, h) /\ C = {t} /\ D = {}
    BY <1>1, <1>5, <1>8 DEF HolderInv
  <1>9. ASSUME h \in freed
        PROVE  ~ On(aviable, h) /\ ~ On(empty, h) /\ C = {} /\ D = {h}
    BY <1>1, <1>5, <1>9
  <1>10. On(aviable, h) \/ On(empty, h) \/ h \in freed \/ \E t \in Threads : hoder[t] = h
    BY <1>1 DEF HolderInv
  <1> HIDE DEF A, B, C, D
  <1>11. Cardinality(A) + Cardinality(B) + Cardinality(C) + Cardinality(D) = 1
    <2>1. CASE On(aviable, h)
      <3>1. Cardinality(A) = 1 /\ Cardinality(B) = 0 /\ C = {} /\ D = {}
        BY <1>3, <1>4, <1>6, <2>1
      <3> QED
        BY <3>1, AloneOrNone
    <2>2. CASE On(empty, h)
      <3>1. Cardinality(A) = 0 /\ Cardinality(B) = 1 /\ C = {} /\ D = {}
        BY <1>3, <1>4, <1>7, <2>2
      <3> QED
        BY <3>1, AloneOrNone
    <2>3. CASE h \in freed
      <3>1. Cardinality(A) = 0 /\ Cardinality(B) = 0 /\ C = {} /\ D = {h}
        BY <1>3, <1>4, <1>9, <2>3
      <3> QED
        BY <3>1, AloneOrNone
    <2>4. CASE \E t \in Threads : hoder[t] = h
      <3>1. Cardinality(A) = 0 /\ Cardinality(B) = 0 /\ (\E t : C = {t}) /\ D = {}
        BY <1>3, <1>4, <1>8, <2>4
      <3> QED
        BY <3>1, AloneOrNone
    <2> QED
      BY <1>10, <2>1, <2>2, <2>3, <2>4
  <1> QED
    BY <1>11 DEF A, B, C, D

LEMMA HoldersCounts ==
  ASSUME StackInv, CountInv
  PROVE  HoldersKept
  <1>1. main # "deleted" => /\ PEmpty + PAviable + PHeld = Given
                            /\ CEmpty + CAviable + CHeld = PoolSize
    BY DEF CountInv
  <1> QED
    BY <1>1, HolderPlaces
    DEF HoldersKept, PEmpty, PAviable, PHeld, CEmpty, CAviable, CHeld, Given, At

-----------------------------------------------------------------------------
(* The steps of the threads.                                               *)

LEMMA CallPopStep ==
  ASSUME PoolInv, NEW c \in Clients, CallPop(c)
  PROVE  PoolInv'
  <1>1. StackInv /\ CountInv /\ LossInv /\ c \in Threads
    BY PoolAssumption DEF PoolInv, StackInv
  <1>2. /\ pc[c] = "idle" /\ main # "deleted" /\ Goto(c, "pop") /\ UNCHANGED <<stackVars, mine, lost, main>>
    BY DEF CallPop, poolVars
  <1>3. OwnPlace(c, "pop")
    BY PoolAssumption DEF OwnPlace, ClientPlaces
  <1>4. elem[c] = NULL
    BY <1>1, <1>2 DEF StackInv, HandsInv, Carrying
  <1>5. StackInv'
    BY <1>1, <1>2, <1>3, <1>4, MoveInv DEF Holding, Carrying
  <1>6. CountInv'
    BY <1>1, <1>2, NoHolder, SameCount DEF Holding, stackVars, Live
  <1>7. LossInv'
    BY <1>1, <1>2, LossWent DEF stackVars
  <1> QED
    BY <1>5, <1>6, <1>7 DEF PoolInv, StackInv

\* A step of thread t from l to m that changes nothing else.
LEMMA MoveStep ==
  ASSUME PoolInv, NEW t \in Threads, NEW l, NEW m, pc[t] = l, Goto(t, m), OwnPlace(t, m),
         UNCHANGED <<stackVars, mine, lost, main>>,
         l \notin {"idle", "new", "exited", "refused"} \cup Holding, m \notin Holding \cup Carrying,
         m \in {"load", "store", "got"} \/ elem[t] = NULL
  PROVE  PoolInv'
  <1>1. StackInv /\ CountInv /\ LossInv
    BY DEF PoolInv, StackInv
  <1>2. main # "deleted"
    BY <1>1, InUse
  <1>3. StackInv'
    BY <1>1, <1>2, MoveInv
  <1>4. CountInv'
    BY <1>1, <1>2, NoHolder, SameCount DEF stackVars, Live
  <1>5. LossInv'
    BY <1>1, LossWent DEF stackVars, Carrying
  <1> QED
    BY <1>3, <1>4, <1>5 DEF PoolInv, StackInv

LEMMA PopStep ==
  ASSUME PoolInv, NEW c \in Clients, Pop(c)
  PROVE  PoolInv'
  <1>1. StackInv /\ CountInv /\ LossInv /\ c \in Threads /\ UNCHANGED poolVars
    BY PoolAssumption DEF PoolInv, StackInv, Pop
  <1>2. \A m \in ClientPlaces : OwnPlace(c, m)
    BY PoolAssumption DEF OwnPlace
  <1>3. CASE PopTake(c, "producer", "pop", "pop_put", "check") /\ aviable["producer"] = <<>>
    <2>1. pc[c] = "pop" /\ Goto(c, "check") /\ UNCHANGED <<stackVars, mine, lost, main>>
      BY <1>1, <1>3 DEF PopTake, poolVars, stackVars
    <2>2. elem[c] = NULL
      BY <1>1, <2>1 DEF StackInv, HandsInv, Carrying
    <2> QED
      BY <1>1, <1>2, <2>1, <2>2, MoveStep DEF ClientPlaces, Holding, Carrying
  <1>4. CASE PopTake(c, "producer", "pop", "pop_put", "check") /\ aviable["producer"] # <<>>
    <2>1. StackInv'
      BY <1>1, <1>2, <1>4, PopTakeInv, BothStacks DEF ClientPlaces
    <2>2. CountInv'
      BY <1>1, <1>4, PopTakeCount
    <2>3. LossInv'
      BY <1>1, <1>4, LossWent DEF PopTake, poolVars
    <2> QED
      BY <2>1, <2>2, <2>3 DEF PoolInv, StackInv
  <1>5. CASE PopPut(c, "producer", "pop_put", "got")
    <2>1. StackInv'
      BY <1>1, <1>2, <1>5, PopPutInv, BothStacks DEF ClientPlaces
    <2>2. CountInv'
      BY <1>1, <1>5, PopPutCount
    <2>3. LossInv'
      BY <1>1, <1>5, LossWent DEF PopPut, poolVars
    <2> QED
      BY <2>1, <2>2, <2>3 DEF PoolInv, StackInv
  <1> QED
    BY <1>3, <1>4, <1>5 DEF Pop

LEMMA ForcePopStep ==
  ASSUME PoolInv, NEW c \in Clients, ForcePop(c)
  PROVE  PoolInv'
  <1>1. StackInv /\ CountInv /\ LossInv /\ c \in Threads /\ UNCHANGED poolVars
    BY PoolAssumption DEF PoolInv, StackInv, ForcePop
  <1>2. \A m \in ClientPlaces : OwnPlace(c, m)
    BY PoolAssumption DEF OwnPlace
  <1>3. CASE PopTake(c, "producer", "force", "force_put", "produce") /\ aviable["producer"] = <<>>
    <2>1. pc[c] = "force" /\ Goto(c, "produce") /\ UNCHANGED <<stackVars, mine, lost, main>>
      BY <1>1, <1>3 DEF PopTake, poolVars, stackVars
    <2>2. elem[c] = NULL
      BY <1>1, <2>1 DEF StackInv, HandsInv, Carrying
    <2> QED
      BY <1>1, <1>2, <2>1, <2>2, MoveStep DEF ClientPlaces, Holding, Carrying
  <1>4. CASE PopTake(c, "producer", "force", "force_put", "produce") /\ aviable["producer"] # <<>>
    <2>1. StackInv'
      BY <1>1, <1>2, <1>4, PopTakeInv, BothStacks DEF ClientPlaces
    <2>2. CountInv'
      BY <1>1, <1>4, PopTakeCount
    <2>3. LossInv'
      BY <1>1, <1>4, LossWent DEF PopTake, poolVars
    <2> QED
      BY <2>1, <2>2, <2>3 DEF PoolInv, StackInv
  <1>5. CASE PopPut(c, "producer", "force_put", "load")
    <2>1. StackInv'
      BY <1>1, <1>2, <1>5, PopPutInv, BothStacks DEF ClientPlaces
    <2>2. CountInv'
      BY <1>1, <1>5, PopPutCount
    <2>3. LossInv'
      BY <1>1, <1>5, LossWent DEF PopPut, poolVars
    <2> QED
      BY <2>1, <2>2, <2>3 DEF PoolInv, StackInv
  <1>6. CASE Produce(c, "producer", "produce", "load")
    <2>1. StackInv' /\ CountInv' /\ All' = All + 1 /\ Given' = Given + 1
      BY <1>1, <1>6, ProduceInv, ProduceCount
    <2>2. Dropping' = Dropping
      BY <1>1, <1>6, Stayed DEF Produce, Dropping
    <2>3. LossInv'
      BY <1>1, <2>1, <2>2, Counted DEF LossInv
    <2> QED
      BY <2>1, <2>3 DEF PoolInv, StackInv
  <1>7. CASE ProduceFails(c, "producer", "produce", "load")
    <2>1. StackInv' /\ Live' = Live /\ produced' \ leaked' = produced \ leaked
      BY <1>1, <1>7, ProduceFailsInv
    <2>2. pc[c] = "produce" /\ Goto(c, "load") /\ UNCHANGED <<empty, aviable, elem, mine>>
      BY <1>1, <1>7 DEF ProduceFails, poolVars
    <2>3. main # "deleted"
      BY <1>1, <2>2, InUse
    <2>4. CountInv'
      BY <1>1, <2>1, <2>2, <2>3, NoHolder, SameCount DEF Holding
    <2>5. \A t \in Threads : pc'[t] = "refused" <=> pc[t] = "refused"
      BY <1>1, <2>2, Went
    <2>6. LossInv'
      BY <1>1, <2>1, <2>5, LossSame
    <2> QED
      BY <2>1, <2>4, <2>6 DEF PoolInv, StackInv
  <1> QED
    BY <1>3, <1>4, <1>5, <1>6, <1>7 DEF ForcePop

LEMMA PushStep ==
  ASSUME PoolInv, NEW c \in Clients, Push(c)
  PROVE  PoolInv'
  <1>1. StackInv /\ CountInv /\ LossInv /\ c \in Threads /\ UNCHANGED poolVars
    BY PoolAssumption DEF PoolInv, StackInv, Push
  <1>2. \A m \in ClientPlaces : OwnPlace(c, m)
    BY PoolAssumption DEF OwnPlace
  <1>3. CASE PushTake(c, "consumer", "push", "push_put", "got") /\ empty["consumer"] = <<>>
    <2>1. pc[c] = "push" /\ Goto(c, "got") /\ UNCHANGED <<stackVars, mine, lost, main>>
      BY <1>1, <1>3 DEF PushTake, poolVars, stackVars
    <2> QED
      BY <1>1, <1>2, <2>1, MoveStep DEF ClientPlaces, Holding, Carrying
  <1>4. CASE PushTake(c, "consumer", "push", "push_put", "got") /\ empty["consumer"] # <<>>
    <2>1. StackInv'
      BY <1>1, <1>2, <1>4, PushTakeInv, BothStacks DEF ClientPlaces
    <2>2. CountInv'
      BY <1>1, <1>4, PushTakeCount
    <2>3. LossInv'
      BY <1>1, <1>4, LossWent DEF PushTake, poolVars
    <2> QED
      BY <2>1, <2>2, <2>3 DEF PoolInv, StackInv
  <1>5. CASE PushPut(c, "consumer", "push_put", "idle")
    <2>1. StackInv'
      BY <1>1, <1>2, <1>5, PushPutInv, BothStacks DEF ClientPlaces
    <2>2. CountInv'
      BY <1>1, <1>5, PushPutCount
    <2>3. LossInv'
      BY <1>1, <1>5, LossWent DEF PushPut, poolVars
    <2> QED
      BY <2>1, <2>2, <2>3 DEF PoolInv, StackInv
  <1> QED
    BY <1>3, <1>4, <1>5 DEF Push

\* The other steps of a client.
LEMMA ClientMoves ==
  ASSUME PoolInv, NEW c \in Clients, Check(c) \/ LoadSize(c) \/ StoreSize(c)
  PROVE  PoolInv'
  <1>1. c \in Threads /\ HandsInv
    BY PoolAssumption DEF PoolInv
  <1>2. \A m \in ClientPlaces : OwnPlace(c, m)
    BY PoolAssumption DEF OwnPlace
  <1>3. CASE Check(c)
    <2>1. /\ pc[c] = "check" /\ (Goto(c, "force") \/ Goto(c, "got"))
          /\ UNCHANGED <<stackVars, mine, lost, main>>
      BY <1>3 DEF Check, poolVars
    <2>2. elem[c] = NULL
      BY <1>1, <2>1 DEF HandsInv, Carrying
    <2> QED
      BY <1>1, <1>2, <2>1, <2>2, MoveStep DEF ClientPlaces, Holding, Carrying
  <1>4. CASE LoadSize(c)
    <2>1. pc[c] = "load" /\ Goto(c, "store") /\ UNCHANGED <<stackVars, mine, lost, main>>
      BY <1>4 DEF LoadSize
    <2> QED
      BY <1>1, <1>2, <2>1, MoveStep DEF ClientPlaces, Holding, Carrying
  <1>5. CASE StoreSize(c)
    <2>1. pc[c] = "store" /\ Goto(c, "got") /\ UNCHANGED <<stackVars, mine, lost, main>>
      BY <1>5 DEF StoreSize
    <2> QED
      BY <1>1, <1>2, <2>1, MoveStep DEF ClientPlaces, Holding, Carrying
  <1> QED
    BY <1>3, <1>4, <1>5

LEMMA WorkerMoves ==
  ASSUME PoolInv, NEW w \in Workers, WorkerStarts(w) \/ WorkerLoop(w)
  PROVE  PoolInv'
  <1>1. w \in Threads /\ HandsInv /\ PoolTypeOK
    BY PoolAssumption DEF PoolInv
  <1>2. \A m \in WorkerPlaces : OwnPlace(w, m)
    BY PoolAssumption DEF OwnPlace
  <1>3. /\ pc[w] \in {"created", "loop"}
        /\ Goto(w, "loop") \/ Goto(w, "exited") \/ Goto(w, "take")
    BY DEF WorkerStarts, WorkerLoop
  <1>4. elem[w] = NULL
    BY <1>1, <1>3 DEF HandsInv, Carrying
  <1>5. UNCHANGED <<stackVars, mine, lost, main>>
    BY DEF WorkerStarts, WorkerLoop, poolVars
  <1> QED
    BY <1>1, <1>2, <1>3, <1>4, <1>5, MoveStep DEF WorkerPlaces, Holding, Carrying

LEMMA WorkerWorkStep ==
  ASSUME PoolInv, NEW w \in Workers, WorkerWork(w)
  PROVE  PoolInv'
  <1>1. StackInv /\ CountInv /\ LossInv /\ w \in Threads /\ UNCHANGED poolVars
    BY PoolAssumption DEF PoolInv, StackInv, WorkerWork
  <1>2. \A m \in WorkerPlaces : OwnPlace(w, m)
    BY PoolAssumption DEF OwnPlace
  <1>3. CASE PopTake(w, "consumer", "take", "take_put", "loop") /\ aviable["consumer"] = <<>>
    <2>1. pc[w] = "take" /\ Goto(w, "loop") /\ UNCHANGED <<stackVars, mine, lost, main>>
      BY <1>1, <1>3 DEF PopTake, poolVars, stackVars
    <2>2. elem[w] = NULL
      BY <1>1, <2>1 DEF StackInv, HandsInv, Carrying
    <2> QED
      BY <1>1, <1>2, <2>1, <2>2, MoveStep DEF WorkerPlaces, Holding, Carrying
  <1>4. CASE PopTake(w, "consumer", "take", "take_put", "loop") /\ aviable["consumer"] # <<>>
    <2>1. StackInv'
      BY <1>1, <1>2, <1>4, PopTakeInv, BothStacks DEF WorkerPlaces
    <2>2. CountInv'
      BY <1>1, <1>4, PopTakeCount
    <2>3. LossInv'
      BY <1>1, <1>4, LossWent DEF PopTake, poolVars
    <2> QED
      BY <2>1, <2>2, <2>3 DEF PoolInv, StackInv
  <1>5. CASE PopPut(w, "consumer", "take_put", "recycle")
    <2>1. StackInv'
      BY <1>1, <1>2, <1>5, PopPutInv, BothStacks DEF WorkerPlaces
    <2>2. CountInv'
      BY <1>1, <1>5, PopPutCount
    <2>3. LossInv'
      BY <1>1, <1>5, LossWent DEF PopPut, poolVars
    <2> QED
      BY <2>1, <2>2, <2>3 DEF PoolInv, StackInv
  <1>8. CASE PushTake(w, "producer", "recycle", "recycle_put", "refused") /\ empty["producer"] = <<>>
    <2>1. /\ pc[w] = "recycle" /\ Goto(w, "refused")
          /\ UNCHANGED <<stackVars, mine, lost, main>>
      BY <1>1, <1>8 DEF PushTake, poolVars, stackVars
    <2>2. main # "deleted"
      BY <1>1, <2>1, InUse
    <2>3. elem[w] # NULL
      BY <1>1, <2>1 DEF StackInv, HandsInv, Carrying
    <2>4. StackInv'
      BY <1>1, <1>2, <2>1, <2>2, <2>3, MoveInv DEF Holding, Carrying, WorkerPlaces
    <2>5. CountInv'
      BY <1>1, <2>1, <2>2, NoHolder, SameCount DEF Holding, stackVars, Live
    <2>6. Given + Dropping + 1 <= All
      BY <1>1, <1>8, <2>1, RecycleCounts
    <2>7. Dropping' = Dropping + 1
      BY <1>1, <2>1, Entered DEF Dropping
    <2>8. Given' = Given /\ All' = All
      BY <2>1 DEF Given, All, Live, stackVars
    <2>9. LossInv'
      BY <1>1, <2>6, <2>7, <2>8, Counted DEF LossInv
    <2> QED
      BY <2>4, <2>5, <2>9 DEF PoolInv, StackInv
  <1>6. CASE PushTake(w, "producer", "recycle", "recycle_put", "refused") /\ empty["producer"] # <<>>
    <2>1. StackInv'
      BY <1>1, <1>2, <1>6, PushTakeInv, BothStacks DEF WorkerPlaces
    <2>2. CountInv'
      BY <1>1, <1>6, PushTakeCount
    <2>3. LossInv'
      BY <1>1, <1>6, LossWent DEF PushTake, poolVars
    <2> QED
      BY <2>1, <2>2, <2>3 DEF PoolInv, StackInv
  <1>7. CASE PushPut(w, "producer", "recycle_put", "loop")
    <2>1. StackInv'
      BY <1>1, <1>2, <1>7, PushPutInv, BothStacks DEF WorkerPlaces
    <2>2. CountInv'
      BY <1>1, <1>7, PushPutCount
    <2>3. LossInv'
      BY <1>1, <1>7, LossWent DEF PushPut, poolVars
    <2> QED
      BY <2>1, <2>2, <2>3 DEF PoolInv, StackInv
  <1> QED
    BY <1>3, <1>4, <1>5, <1>6, <1>7, <1>8 DEF WorkerWork

LEMMA WorkerDropsStep ==
  ASSUME PoolInv, NEW w \in Workers, WorkerDrops(w)
  PROVE  PoolInv'
  <1>1. StackInv /\ CountInv /\ LossInv /\ w \in Threads
    BY PoolAssumption DEF PoolInv, StackInv
  <1>2. StackInv'
    BY <1>1, DropInv
  <1>3. CountInv' /\ All' = All - 1 /\ Given' = Given
    BY <1>1, DropCount
  <1>4. Dropping' = Dropping - 1
    BY <1>1, Left DEF WorkerDrops, Dropping
  <1>5. LossInv'
    BY <1>1, <1>3, <1>4, Counted DEF LossInv
  <1> QED
    BY <1>2, <1>3, <1>5 DEF PoolInv, StackInv

-----------------------------------------------------------------------------
(* The initial state.                                                      *)

LEMMA PoolInit ==
  ASSUME Init
  PROVE  PoolInv
  <1>1. PICK hs \in SUBSET Holders :
          /\ Cardinality(hs) = PoolSize /\ made = hs
          /\ \E q \in [1..PoolSize -> hs] :
               /\ \A i, j \in 1..PoolSize : q[i] = q[j] => i = j
               /\ empty = [s \in Stacks |-> IF s = "consumer" THEN q ELSE <<>>]
    BY DEF Init
  <1>2. PICK q \in [1..PoolSize -> hs] :
          /\ \A i, j \in 1..PoolSize : q[i] = q[j] => i = j
          /\ empty = [s \in Stacks |-> IF s = "consumer" THEN q ELSE <<>>]
    BY <1>1
  <1>3. /\ aviable = [s \in Stacks |-> <<>>]
        /\ produced = {} /\ leaked = {} /\ freed = {} /\ lost = {}
        /\ pc = [t \in Threads |-> IF t \in Workers THEN "new" ELSE "idle"]
        /\ hoder = [t \in Threads |-> NULL] /\ elem = [t \in Threads |-> NULL]
        /\ main = "init"
    BY DEF Init
  <1>17. PICK maker \in [Own -> Clients] : mine = [c \in Clients |-> {e \in Own : maker[e] = c}]
    BY DEF Init
  <1>18. /\ \A c \in Clients : mine[c] = {e \in Own : maker[e] = c}
         /\ \A e \in Own : e \in mine[maker[e]] /\ maker[e] \in Clients
    BY <1>17
  <1>19. Live = Own
    BY <1>3 DEF Live
  <1>4. PoolSize \in Nat /\ q \in Seq(Holders) /\ Len(q) = PoolSize
    BY PoolAssumption
  <1>5. /\ aviable \in [Stacks -> Seq(Holders)] /\ empty \in [Stacks -> Seq(Holders)]
        /\ empty["consumer"] = q /\ empty["producer"] = <<>>
        /\ \A s \in Stacks : aviable[s] = <<>>
    <2>1. <<>> \in Seq(Holders)
      OBVIOUS
    <2> QED
      BY <1>2, <1>3, <1>4, <2>1, BothStacks
  <1>6. /\ \A h : On(empty, h) <=> \E i \in 1..PoolSize : q[i] = h
        /\ \A h : ~ On(aviable, h)
    BY <1>4, <1>5, PoolAssumption DEF On
  <1>7. \A h \in hs : \E i \in 1..PoolSize : q[i] = h
    <2>1. q \in Injection(1..PoolSize, hs)
      BY <1>2 DEF Injection, IsInjective
    <2>2. IsFiniteSet(hs)
      BY PoolAssumption, FS_Subset
    <2>3. Cardinality(1..PoolSize) = PoolSize
      <3>1. Cardinality(1..PoolSize) = IF 1 > PoolSize THEN 0 ELSE PoolSize - 1 + 1
        BY <1>4, FS_Interval
      <3> QED
        BY <1>4, <3>1
    <2>4. q \in Surjection(1..PoolSize, hs)
      BY <1>1, <2>1, <2>2, <2>3, FS_Injection
    <2> QED
      BY <2>4 DEF Surjection
  <1>8. PoolTypeOK
    <2>1. slot \in [Holders -> Elements \cup {NULL}]
      BY DEF Init
    <2>2. mine \in [Clients -> SUBSET Elements]
      BY <1>17, Apart
    <2> QED
      BY <1>1, <1>3, <1>5, <2>1, <2>2, PoolAssumption DEF PoolTypeOK, ClientPlaces, WorkerPlaces
  <1>9. MainInv
    BY <1>3, PoolAssumption DEF MainInv
  <1>10. \A t \in Threads : pc[t] \in {"new", "idle"} /\ hoder[t] = NULL /\ elem[t] = NULL
    BY <1>3
  <1>11. HandsInv
    BY <1>10 DEF HandsInv, Holding, Carrying
  <1>12. HolderInv
    <2>1. Distinct(aviable)
      BY <1>5 DEF Distinct
    <2>2. Distinct(empty)
      BY <1>2, <1>4, <1>5, PoolAssumption DEF Distinct
    <2>3. \A h \in Holders : On(empty, h) => h \in made
      <3>1. \A i \in 1..PoolSize : q[i] \in made
        BY <1>1
      <3> QED
        BY <1>6, <3>1
    <2>4. \A h \in made : On(empty, h)
      BY <1>1, <1>6, <1>7
    <2> QED
      BY <1>3, <1>6, <1>10, <2>1, <2>2, <2>3, <2>4 DEF HolderInv
  <1>13. SlotInv
    BY <1>3, <1>6, <1>10 DEF SlotInv, Filling
  <1>14. ElemInv
    <2>1. \A h \in Holders : content[h] = NULL
      BY <1>6, <1>10 DEF content, Filling
    <2>2. NULL \notin Own
      BY Apart
    <2>3. /\ \A c \in Clients : mine[c] \subseteq Live /\ NULL \notin mine[c]
          /\ \A c, d \in Clients : c # d => mine[c] \cap mine[d] = {}
          /\ \A e \in Live : \E c \in Clients : e \in mine[c]
      BY <1>18, <1>19, <2>2
    <2> QED
      BY <1>3, <1>10, <2>1, <2>3 DEF ElemInv
  <1>15. CountInv
    <2>1. PEmpty = 0 /\ PAviable = 0 /\ CEmpty = PoolSize /\ CAviable = 0
      BY <1>4, <1>5, BothStacks DEF PEmpty, PAviable, CEmpty, CAviable
    <2>2. /\ At({"pop_put", "force_put", "recycle_put"}) = {} /\ At({"push_put", "take_put"}) = {}
          /\ At(Filling) = {} /\ Carriers = {} /\ produced \ leaked = {}
      BY <1>3, <1>10 DEF At, Filling, Carriers
    <2>3. PHeld = 0 /\ CHeld = 0 /\ Filled = 0 /\ Carried = 0 /\ Given = 0
      BY <2>2, FS_EmptySet DEF PHeld, CHeld, Filled, Carried, Given
    <2>4. Mine = Live
      BY <1>18, <1>19 DEF Mine
    <2>5. Kept = All /\ All \in Nat
      BY <1>19, <2>4, PoolAssumption, FS_CardinalityType DEF Kept, All
    <2> QED
      BY <1>4, <2>1, <2>3, <2>5 DEF CountInv
  <1>16. LossInv
    <2>1. At({"refused"}) = {} /\ produced \ leaked = {}
      BY <1>3, <1>10 DEF At
    <2>2. Dropping = 0 /\ Given = 0
      BY <2>1, FS_EmptySet DEF Dropping, Given
    <2>3. All \in Nat
      BY <1>19, PoolAssumption, FS_CardinalityType DEF All
    <2> QED
      BY <2>2, <2>3 DEF LossInv
  <1> QED
    BY <1>8, <1>9, <1>11, <1>12, <1>13, <1>14, <1>15, <1>16 DEF PoolInv

-----------------------------------------------------------------------------
(* The theorems.                                                           *)

LEMMA PoolStep ==
  ASSUME PoolInv, [Next]_vars
  PROVE  PoolInv'
  <1>0. StackInv /\ CountInv /\ LossInv
    BY DEF PoolInv, StackInv
  <1>1. ASSUME NEW c \in Clients, ClientStep(c) PROVE PoolInv'
    <2>1. CASE Return(c)
      <3>1. c \in Threads
        BY PoolAssumption
      <3>2. LossInv'
        BY <1>0, <2>1, <3>1, LossWent DEF Return
      <3> QED
        BY <1>0, <2>1, <3>2, ReturnInv, ReturnCount DEF PoolInv, StackInv
    <2> QED
      BY <1>1, <2>1, PopStep, ForcePopStep, PushStep, ClientMoves DEF ClientStep
  <1>2. ASSUME NEW c \in Clients, CallPop(c) PROVE PoolInv'
    BY <1>2, CallPopStep
  <1>3. ASSUME NEW c \in Clients, CallPush(c) PROVE PoolInv'
    <2>1. c \in Threads
      BY PoolAssumption
    <2>2. LossInv'
      BY <1>0, <1>3, <2>1, LossWent DEF CallPush
    <2> QED
      BY <1>0, <1>3, <2>2, CallPushInv, CallPushCount DEF PoolInv, StackInv
  <1>4. ASSUME NEW w \in Workers, WorkerStep(w) PROVE PoolInv'
    BY <1>4, WorkerMoves, WorkerWorkStep, WorkerDropsStep DEF WorkerStep
  <1>5. CASE Start
    <2>1. StackInv' /\ \A t \in Threads : pc'[t] = pc[t] \/ (pc[t] = "new" /\ pc'[t] = "created")
      BY <1>0, <1>5, StartInv
    <2>2. /\ main # "deleted" /\ UNCHANGED <<empty, aviable, elem, mine>> /\ Live' = Live
          /\ produced' \ leaked' = produced \ leaked
      BY <1>5 DEF Start, stackVars, Live
    <2>3. CountInv'
      BY <1>0, <2>1, <2>2, SameCount DEF Holding
    <2>4. LossInv'
      BY <1>0, <2>1, <2>2, LossSame
    <2> QED
      BY <2>1, <2>3, <2>4 DEF PoolInv, StackInv
  <1>6. CASE Stop \/ Joined
    <2>1. StackInv'
      BY <1>0, <1>6, StopInv
    <2>2. /\ main # "deleted" /\ UNCHANGED <<empty, aviable, elem, mine, lost, pc>> /\ Live' = Live
          /\ produced' \ leaked' = produced \ leaked
      BY <1>6 DEF Stop, Joined, stackVars, Live
    <2>3. CountInv'
      BY <1>0, <2>2, SameCount
    <2>4. LossInv'
      BY <1>0, <2>2, LossSame
    <2> QED
      BY <2>1, <2>3, <2>4 DEF PoolInv, StackInv
  <1>7. CASE Delete
    <2>1. StackInv'
      BY <1>0, <1>7, DeleteInv
    <2>2. CountInv'
      BY <1>7 DEF Delete, CountInv
    <2>3. LossInv'
      BY <1>0, <1>7, LossSame DEF Delete, Destroy, Live
    <2> QED
      BY <2>1, <2>2, <2>3 DEF PoolInv, StackInv
  <1>8. CASE UNCHANGED vars
    <2>1. UNCHANGED <<aviable, empty, slot, made, produced, leaked, freed, hoder, elem, pc, mine, lost, main>>
      BY <1>8 DEF vars, stackVars
    <2>2. PoolTypeOK' /\ MainInv' /\ HandsInv'
      BY <1>0, <2>1 DEF StackInv, PoolTypeOK, MainInv, HandsInv
    <2>3. HolderInv'
      BY <1>0, <2>1, HolderSame DEF StackInv
    <2>5. SlotInv' /\ ElemInv'
      <3>1. content' = content /\ Live' = Live
        BY <2>1 DEF content, On, Live
      <3> QED
        BY <1>0, <2>1, <3>1 DEF StackInv, SlotInv, ElemInv, On
    <2>6. LossInv'
      BY <1>0, <2>1, LossSame DEF Live
    <2>4. CountInv'
      BY <1>0, <2>1 DEF CountInv, PEmpty, PAviable, PHeld, CEmpty, CAviable, CHeld, Filled,
                        Carried, Kept, All, Given, At, Carriers, Mine, Live
    <2> QED
      BY <2>2, <2>3, <2>4, <2>5, <2>6 DEF PoolInv
  <1> QED
    BY <1>1, <1>2, <1>3, <1>4, <1>5, <1>6, <1>7, <1>8 DEF Next, Deleted

\* The inductive invariant of the pool holds in every state of every execution.
THEOREM PoolInvariant == Spec => []PoolInv
  BY PoolInit, PoolStep, PTL DEF Spec

\* No element is ever with two owners, and none is in no place but those that produce
\* forgets and those that workers drop, whatever the number of clients and workers and
\* however they interleave.
THEOREM PoolOnePlace == Spec => []OnePlace
  <1>1. PoolInv => OnePlace
    BY ElemPlaces DEF PoolInv, StackInv
  <1> QED
    BY <1>1, PoolInvariant, PTL

\* No holder is lost or duplicated, and none goes from one stack to the other.
THEOREM PoolHoldersKept == Spec => []HoldersKept
  <1>1. PoolInv => HoldersKept
    BY HoldersCounts DEF PoolInv, StackInv
  <1> QED
    BY <1>1, PoolInvariant, PTL

\* Although thread_fun does not look at the result of push, the workers lose no more
\* elements than clients have made themselves: none if clients push what they popped.
THEOREM PoolLossBound == Spec => []LossBound
  <1>1. PoolInv => LossBound
    BY LossCounts DEF PoolInv, StackInv
  <1> QED
    BY <1>1, PoolInvariant, PTL

\* A client's push is refused only when there are more elements than the pool size.
THEOREM PoolRefuses == Spec => []RefusedOnlyWhenExtended
  <1>1. PoolInv => RefusedOnlyWhenExtended
    BY RefusedCounts DEF PoolInv, StackInv
  <1> QED
    BY <1>1, PoolInvariant, PTL
=============================================================================
