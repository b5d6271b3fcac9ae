---------------------------- MODULE PQueueProof ----------------------------
(***************************************************************************)
(* Proofs about the queue that holds an element, for any threads, nodes    *)
(* and reserved length.                                                    *)
(*                                                                         *)
(* Shape is the heart of the invariant: the nodes of the queue and the     *)
(* ones that threads have in their hands are all different and are the     *)
(* allocated ones, so that a push writes no node that a front takes, and   *)
(* freeing a node breaks nobody's list.                                    *)
(***************************************************************************)
EXTENDS PQueue, FiniteSetTheorems, SequenceTheorems, TLAPS

Contents == Values \cup {First, DUMMY}

Labels == {"idle", "wait", "new", "lock", "set_next", "set_tail", "add", "flush",
           "read_head", "check", "unlink", "take", "sub"}

QueueTypeOK ==
  /\ next \in [Nodes \cup {HEAD} -> Nodes \cup {NULL}]
  /\ val \in [Nodes -> Contents]
  /\ alive \subseteq Nodes
  /\ size \in 0..(SizeMod - 1)
  /\ flushed \in BOOLEAN /\ closing \in BOOLEAN
  /\ wlock \in Producers \cup {NULL} /\ rlock \in Consumers \cup {NULL}
  /\ pc \in [Threads -> Labels]
  /\ arg \in [Producers -> Values \cup {DUMMY}]
  /\ ptr \in [Threads -> Nodes \cup {NULL}]
  /\ got \in [Consumers -> Contents \cup {NULL}]
  /\ queue \in Seq(Nodes)
  /\ \A t \in Producers : pc[t] \notin {"read_head", "check", "unlink", "take", "sub"}
  /\ \A t \in Consumers : pc[t] \in {"idle", "read_head", "check", "unlink", "take", "sub"}

\* The threads inside the critical sections are the owners of the mutexes.
Locks == /\ \A t \in Producers : pc[t] \in {"set_next", "set_tail"} <=> wlock = t
         /\ \A t \in Consumers : pc[t] \in {"read_head", "check", "unlink"} <=> rlock = t

\* Thread t has a node of its own: one it has not linked yet, or one it has unlinked.
Owns(t) == pc[t] \in {"lock", "set_next", "set_tail", "take"}

\* The nodes in the queue and in the hands of threads.
InQueue(n) == \E i \in 1..Len(queue) : queue[i] = n
Shape ==
  /\ \A i \in 1..Len(queue) : queue[i] \in alive
  /\ \A i, j \in 1..Len(queue) : queue[i] = queue[j] => i = j
  /\ \A t \in Threads : Owns(t) => ptr[t] \in alive /\ ~ InQueue(ptr[t])
  /\ \A t, u \in Threads : Owns(t) /\ Owns(u) /\ ptr[t] = ptr[u] => t = u
  /\ \A n \in alive : InQueue(n) \/ \E t \in Threads : Owns(t) /\ ptr[t] = n

\* A producer's node ends the list and holds what push was given, and a consumer
\* that has found the first node still has the first, and not the last when it is
\* about to unlink it.
Hands ==
  /\ \A t \in Producers : pc[t] \in {"lock", "set_next", "set_tail"}
                             => next[ptr[t]] = NULL /\ val[ptr[t]] \in Values \cup {DUMMY}
  /\ \A t \in Consumers : /\ pc[t] \in {"check", "unlink"} => ptr[t] = queue[1]
                          /\ pc[t] = "unlink" => Len(queue) > 1

ListInv == QueueTypeOK /\ Locks /\ Shape /\ Hands /\ Linked

\* The producers that have yet to add to the queue, or to size, and the consumers
\* that have yet to subtract.
Pushing == {t \in Producers : pc[t] \in {"new", "lock", "set_next", "set_tail"}}
Adding  == {t \in Producers : pc[t] = "add"}
Taking  == {t \in Consumers : pc[t] \in {"take", "sub"}}

\* What size would be if integers had no width.
TrueSize == Len(queue) - Cardinality(Adding) + Cardinality(Taking)

\* size is TrueSize, wrapped once when that is below zero.
Wrapped == size = IF TrueSize >= 0 THEN TrueSize ELSE TrueSize + SizeMod

\* Room is kept for the nodes on their way into the queue.
Reserved == Len(queue) + Cardinality(Pushing)
              <= Length + Cardinality(Producers) + (IF closing THEN 1 ELSE 0)

\* The producer that calls flush is the last one.
LastPush ==
  /\ closing => \A t, u \in Producers : pc[t] # "idle" /\ pc[u] # "idle" => t = u
  /\ \A t \in Producers : pc[t] = "flush" => closing
  /\ flushed => closing /\ \A t \in Producers : pc[t] = "idle"

CountInv == Wrapped /\ Reserved /\ LastPush

-----------------------------------------------------------------------------
\* The numbers of threads are numbers, and size can count further than them.
LEMMA Numbers ==
  /\ Cardinality(Producers) \in Nat /\ Cardinality(Consumers) \in Nat
  /\ Length \in Nat /\ SizeMod \in Nat /\ SizeMod > 1
  /\ Length + Cardinality(Producers) + Cardinality(Consumers) + 1 < SizeMod
  <1>1. Cardinality(Producers) \in Nat /\ Cardinality(Consumers) \in Nat
    BY PQueueAssumption, FS_CardinalityType
  <1> QED
    BY <1>1, PQueueAssumption

LEMMA ListInit == PrimedInit => ListInv
  <1> SUFFICES ASSUME PrimedInit PROVE ListInv
    OBVIOUS
  <1> USE PQueueAssumption
  <1>1. PICK n \in Nodes :
          /\ next = [m \in Nodes \cup {HEAD} |-> IF m = HEAD THEN n ELSE NULL]
          /\ val = [m \in Nodes |-> IF m = n THEN First ELSE DUMMY]
          /\ alive = {n} /\ tail = n /\ queue = <<n>>
    BY DEF PrimedInit
  <1>2. QueueTypeOK
    <2>1. size \in 0..(SizeMod - 1)
      BY Numbers DEF PrimedInit
    <2>2. /\ pc \in [Threads -> {"idle"}] /\ ptr \in [Threads -> {NULL}]
          /\ arg \in [Producers -> {DUMMY}] /\ got \in [Consumers -> {NULL}]
          /\ wlock = NULL /\ rlock = NULL /\ flushed = FALSE /\ closing = FALSE
      BY DEF PrimedInit
    <2>3. /\ next \in [Nodes \cup {HEAD} -> Nodes \cup {NULL}]
          /\ val \in [Nodes -> Contents]
      BY <1>1 DEF Contents
    <2>4. alive \subseteq Nodes /\ queue \in Seq(Nodes)
      BY <1>1
    <2>5. \A t \in Threads : pc[t] = "idle"
      BY <2>2
    <2> QED
      BY <2>1, <2>2, <2>3, <2>4, <2>5 DEF QueueTypeOK, Contents, Threads, Labels
  <1>3. Locks
    BY DEF PrimedInit, Locks, Threads
  <1>4. Shape /\ Hands
    BY <1>1 DEF PrimedInit, Shape, Hands, InQueue, Owns, Threads
  <1>5. Linked
    BY <1>1 DEF PrimedInit, Linked
  <1> QED
    BY <1>2, <1>3, <1>4, <1>5 DEF ListInv

\* What the steps below take from the invariant.
LEMMA Basics ==
  ASSUME ListInv
  PROVE  /\ Len(queue) \in Nat /\ Len(queue) > 0
         /\ \A i \in 1..Len(queue) : queue[i] \in Nodes /\ queue[i] \in alive
         /\ tail \in Nodes /\ tail = queue[Len(queue)]
         /\ next[HEAD] = queue[1] /\ queue[1] \in Nodes
         /\ InQueue(tail) /\ InQueue(queue[1])
  <1>1. Len(queue) \in Nat /\ queue \in Seq(Nodes) /\ queue # <<>>
    BY DEF ListInv, QueueTypeOK, Linked
  <1>2. Len(queue) > 0
    BY <1>1
  <1> QED
    BY <1>1, <1>2 DEF ListInv, Linked, Shape, InQueue

\* The steps that only move one thread to a place where it owns what it owned.
Move(t) ==
  /\ UNCHANGED <<next, val, alive, tail, wlock, rlock, ptr, got, queue>>
  /\ \E l \in {"idle", "wait", "new", "add", "flush", "sub"} :
       pc[t] \in {"idle", "wait", "new", "add", "flush", "sub"} /\ Goto(t, l)

LEMMA MoveList ==
  ASSUME ListInv, QueueTypeOK', NEW t \in Threads, Move(t)
  PROVE  ListInv'
  <1> USE PQueueAssumption
  <1>1. PICK l \in {"idle", "wait", "new", "add", "flush", "sub"} :
          pc[t] \in {"idle", "wait", "new", "add", "flush", "sub"} /\ Goto(t, l)
    BY DEF Move
  <1>2. \A u \in Threads : pc'[u] = IF u = t THEN l ELSE pc[u]
    BY <1>1 DEF Goto, ListInv, QueueTypeOK
  <1>3. \A u \in Threads : Owns(u)' <=> Owns(u)
    BY <1>1, <1>2 DEF Owns
  <1>4. Locks'
    BY <1>1, <1>2 DEF Locks, ListInv, Move, Threads
  <1>5. Shape'
    BY <1>3 DEF Shape, ListInv, Move, InQueue
  <1>6. Hands'
    BY <1>1, <1>2 DEF Hands, ListInv, Move, Threads
  <1>7. Linked'
    BY <1>1, <1>2 DEF Linked, ListInv, Move, Threads, QueueTypeOK
  <1> QED
    BY <1>4, <1>5, <1>6, <1>7 DEF ListInv
\* One more and one less, counted modulo SizeMod.
LEMMA Mod ==
  ASSUME NEW n \in 0..(SizeMod - 1)
  PROVE  /\ (n + 1) % SizeMod = (IF n = SizeMod - 1 THEN 0 ELSE n + 1)
         /\ Less(n) = (IF n = 0 THEN SizeMod - 1 ELSE n - 1)
  <1>1. SizeMod \in Nat /\ SizeMod > 1
    BY Numbers
  <1>2. ASSUME NEW k \in Nat, k < SizeMod PROVE k % SizeMod = k
    BY <1>1, <1>2
  <1>3. SizeMod % SizeMod = 0
    BY <1>1
  <1>4. (0 - 1) % SizeMod = SizeMod - 1
    BY <1>1
  <1> QED
    BY <1>1, <1>2, <1>3, <1>4 DEF Less

LEMMA TypeStep == ListInv /\ Next => QueueTypeOK'
  <1> SUFFICES ASSUME ListInv, Next PROVE QueueTypeOK'
    OBVIOUS
  <1> USE PQueueAssumption, Basics DEF QueueTypeOK, Threads, Goto, Contents, Labels
  <1> QueueTypeOK
    BY DEF ListInv
  <1>1. ASSUME NEW t \in Producers, CallTryPush(t) PROVE QueueTypeOK'
    BY <1>1 DEF CallTryPush
  <1>2. ASSUME NEW t \in Producers, Room(t) PROVE QueueTypeOK'
    BY <1>2 DEF Room
  <1>3. ASSUME NEW t \in Producers, CallFlush(t) PROVE QueueTypeOK'
    BY <1>3 DEF CallFlush
  <1>4. ASSUME NEW t \in Producers, New(t) PROVE QueueTypeOK'
    BY <1>4 DEF New
  <1>5. ASSUME NEW t \in Producers, NewFails(t) PROVE QueueTypeOK'
    BY <1>5 DEF NewFails, AfterPush
  <1>6. ASSUME NEW t \in Producers, WriteLock(t) PROVE QueueTypeOK'
    BY <1>6 DEF WriteLock
  <1>7. ASSUME NEW t \in Producers, SetNext(t) PROVE QueueTypeOK'
    BY <1>7 DEF SetNext
  <1>8. ASSUME NEW t \in Producers, SetTail(t) PROVE QueueTypeOK'
    <2>1. ptr[t] \in Nodes
      BY <1>8 DEF SetTail, ListInv, Shape, Owns
    <2>2. queue' \in Seq(Nodes)
      BY <2>1, <1>8 DEF SetTail
    <2> QED
      BY <1>8, <2>2 DEF SetTail
  <1>9. ASSUME NEW t \in Producers, AddSize(t) PROVE QueueTypeOK'
    BY Mod, <1>9 DEF AddSize, AfterPush
  <1>10. ASSUME NEW t \in Producers, SetFlushed(t) PROVE QueueTypeOK'
    BY <1>10 DEF SetFlushed
  <1>11. ASSUME NEW t \in Consumers, CallFront(t) PROVE QueueTypeOK'
    BY <1>11 DEF CallFront
  <1>12. ASSUME NEW t \in Consumers, ReadHead(t) PROVE QueueTypeOK'
    BY <1>12 DEF ReadHead
  <1>13. ASSUME NEW t \in Consumers, FrontFails(t) PROVE QueueTypeOK'
    BY <1>13 DEF FrontFails
  <1>14. ASSUME NEW t \in Consumers, FrontFinds(t) PROVE QueueTypeOK'
    BY <1>14 DEF FrontFinds
  <1>15. ASSUME NEW t \in Consumers, Unlink(t) PROVE QueueTypeOK'
    <2>1. ptr[t] \in Nodes
      BY <1>15 DEF Unlink, ListInv, Hands
    <2>2. queue' \in Seq(Nodes)
      BY <1>15 DEF Unlink
    <2>3. next' \in [Nodes \cup {HEAD} -> Nodes \cup {NULL}]
      BY <2>1, <1>15 DEF Unlink
    <2> QED
      BY <1>15, <2>2, <2>3 DEF Unlink
  <1>16. ASSUME NEW t \in Consumers, Take(t) PROVE QueueTypeOK'
    <2>1. ptr[t] \in Nodes
      BY <1>16 DEF Take, ListInv, Shape, Owns
    <2>2. /\ next' \in [Nodes \cup {HEAD} -> Nodes \cup {NULL}]
          /\ val' \in [Nodes -> Contents]
          /\ got' \in [Consumers -> Contents \cup {NULL}]
      BY <2>1, <1>16 DEF Take
    <2> QED
      BY <1>16, <2>2 DEF Take
  <1>17. ASSUME NEW t \in Consumers, SubSize(t) PROVE QueueTypeOK'
    <2>1. size' = Less(size)
      BY <1>17 DEF SubSize
    <2>2. Less(size) = IF size = 0 THEN SizeMod - 1 ELSE size - 1
      BY Mod
    <2>3. size' \in 0..(SizeMod - 1)
      BY <2>1, <2>2, Numbers
    <2> QED
      BY <1>17, <2>3 DEF SubSize
  <1> QED
    BY <1>1, <1>2, <1>3, <1>4, <1>5, <1>6, <1>7, <1>8, <1>9, <1>10, <1>11, <1>12, <1>13, <1>14, <1>15, <1>16, <1>17 DEF Next, PushStep, FrontStep

\* A new node is nobody's, and not in the queue.
LEMMA NewList ==
  ASSUME ListInv, QueueTypeOK', NEW t \in Producers, New(t)
  PROVE  ListInv'
  <1> USE PQueueAssumption
  <1>1. PICK n \in Nodes \ alive :
          /\ alive' = alive \cup {n} /\ val' = [val EXCEPT ![n] = arg[t]]
          /\ next' = [next EXCEPT ![n] = NULL] /\ ptr' = [ptr EXCEPT ![t] = n]
    BY DEF New
  <1>2. /\ \A u \in Threads : pc'[u] = IF u = t THEN "lock" ELSE pc[u]
        /\ \A u \in Threads : ptr'[u] = IF u = t THEN n ELSE ptr[u]
        /\ \A m \in Nodes \cup {HEAD} : next'[m] = IF m = n THEN NULL ELSE next[m]
        /\ \A m \in Nodes : val'[m] = IF m = n THEN arg[t] ELSE val[m]
        /\ pc[t] = "new" /\ UNCHANGED <<wlock, rlock, queue, tail>> /\ t \in Threads
    BY <1>1 DEF New, Goto, ListInv, QueueTypeOK, Threads
  <1>3. /\ \A u \in Threads : Owns(u)' <=> u = t \/ Owns(u)
        /\ ~ Owns(t) /\ ~ InQueue(n) /\ \A m : InQueue(m)' <=> InQueue(m)
    BY <1>1, <1>2, Basics DEF Owns, InQueue
  <1>4. \A u \in Threads : Owns(u) => ptr[u] \in alive /\ ptr[u] # n /\ ptr[u] \in Nodes
    BY <1>1 DEF ListInv, Shape, QueueTypeOK
  <1>5. Locks'
    BY <1>2 DEF Locks, ListInv, Threads
  <1>6. Shape'
    BY <1>1, <1>2, <1>3, <1>4 DEF Shape, ListInv
  <1>7. Hands'
    BY <1>1, <1>2, <1>4 DEF Hands, ListInv, QueueTypeOK, Owns, Threads
  <1>8. Linked'
    <2>1. tail \in Nodes /\ tail # n /\ HEAD # n
      BY <1>1, Basics
    <2>2. next'[tail] = next[tail] /\ next'[HEAD] = next[HEAD]
      BY <1>2, <2>1
    <2>3. \A i \in 1..(Len(queue) - 1) : next'[queue[i]] = next[queue[i]]
      BY <1>1, <1>2, Basics
    <2>4. wlock # NULL => wlock # t /\ wlock \in Threads
      BY <1>2 DEF ListInv, Locks, QueueTypeOK, Threads
    <2> QED
      BY <1>2, <2>2, <2>3, <2>4 DEF Linked, ListInv
  <1> QED
    BY <1>5, <1>6, <1>7, <1>8 DEF ListInv

LEMMA WriteLockList ==
  ASSUME ListInv, QueueTypeOK', NEW t \in Producers, WriteLock(t)
  PROVE  ListInv'
  <1> USE PQueueAssumption
  <1>1. /\ \A u \in Threads : pc'[u] = IF u = t THEN "set_next" ELSE pc[u]
        /\ pc[t] = "lock" /\ wlock = NULL /\ wlock' = t /\ t \in Threads
        /\ UNCHANGED <<next, val, alive, ptr, rlock, queue, tail>>
    BY DEF WriteLock, Free, Goto, ListInv, QueueTypeOK, Threads
  <1>2. \A u \in Threads : Owns(u)' <=> Owns(u)
    BY <1>1 DEF Owns
  <1>3. Locks'
    BY <1>1 DEF Locks, ListInv, Threads
  <1>4. Shape'
    BY <1>1, <1>2 DEF Shape, ListInv, InQueue
  <1>5. Hands'
    BY <1>1 DEF Hands, ListInv, Threads
  <1>6. Linked'
    BY <1>1 DEF Linked, ListInv
  <1> QED
    BY <1>3, <1>4, <1>5, <1>6 DEF ListInv

\* tail->next is written by the owner of the write lock, and read by a consumer only
\* of a node that is not the last.
LEMMA SetNextList ==
  ASSUME ListInv, QueueTypeOK', NEW t \in Producers, SetNext(t)
  PROVE  ListInv'
  <1> USE PQueueAssumption
  <1>1. /\ \A u \in Threads : pc'[u] = IF u = t THEN "set_tail" ELSE pc[u]
        /\ pc[t] = "set_next" /\ t \in Threads
        /\ UNCHANGED <<val, alive, ptr, wlock, rlock, queue, tail>>
    BY DEF SetNext, Goto, ListInv, QueueTypeOK, Threads
  <1>2. \A m \in Nodes \cup {HEAD} : next'[m] = IF m = tail THEN ptr[t] ELSE next[m]
    BY DEF SetNext, ListInv, QueueTypeOK
  <1>3. \A u \in Threads : Owns(u)' <=> Owns(u)
    BY <1>1 DEF Owns
  <1>4. wlock = t
    BY <1>1 DEF Locks, ListInv
  <1>5. Locks'
    BY <1>1 DEF Locks, ListInv, Threads
  <1>6. Shape'
    BY <1>1, <1>3 DEF Shape, ListInv, InQueue
  <1>7. Hands'
    <2>1. \A u \in Threads : Owns(u) => ptr[u] \in alive /\ ~ InQueue(ptr[u])
      BY DEF Shape, ListInv
    <2>2. InQueue(tail) /\ alive \subseteq Nodes
      BY Basics DEF ListInv, QueueTypeOK
    <2>3. \A u \in Threads : Owns(u) => ptr[u] # tail /\ ptr[u] \in Nodes
      BY <2>1, <2>2
    <2> QED
      BY <1>1, <1>2, <2>3 DEF Hands, ListInv, Owns, Threads
  <1>8. Linked'
    <2>1. \A i \in 1..(Len(queue) - 1) : queue[i] \in Nodes /\ queue[i] # tail
      BY Basics DEF ListInv, Shape
    <2>2. next'[HEAD] = next[HEAD] /\ next'[tail] = ptr[t]
      BY <1>2, Basics
    <2>3. pc'[wlock'] = "set_tail" /\ wlock' # NULL /\ ptr'[wlock'] = ptr[t]
      BY <1>1, <1>4 DEF Threads
    <2>4. \A i \in 1..(Len(queue) - 1) : next'[queue[i]] = next[queue[i]]
      BY <1>2, <2>1
    <2> QED
      BY <1>1, <2>2, <2>3, <2>4 DEF Linked, ListInv
  <1> QED
    BY <1>5, <1>6, <1>7, <1>8 DEF ListInv

\* The node that the last one leads to becomes the last one.
LEMMA SetTailList ==
  ASSUME ListInv, QueueTypeOK', NEW t \in Producers, SetTail(t)
  PROVE  ListInv'
  <1> USE PQueueAssumption
  <1> DEFINE p == ptr[t]
             n == Len(queue)
  <1>1. /\ \A u \in Threads : pc'[u] = IF u = t THEN "add" ELSE pc[u]
        /\ \A u \in Threads : ptr'[u] = IF u = t THEN NULL ELSE ptr[u]
        /\ pc[t] = "set_tail" /\ t \in Threads /\ tail' = p /\ wlock' = NULL
        /\ UNCHANGED <<next, val, alive, rlock>>
    BY DEF SetTail, Goto, ListInv, QueueTypeOK, Threads
  <1>2. /\ p \in Nodes /\ p \in alive /\ ~ InQueue(p) /\ Owns(t) /\ next[p] = NULL
        /\ wlock = t /\ next[tail] = p
    BY <1>1 DEF ListInv, Shape, Owns, Hands, Locks, Linked, QueueTypeOK
  <1>3. /\ Len(queue') = n + 1 /\ queue'[n + 1] = p
        /\ \A i \in 1..n : queue'[i] = queue[i]
    BY <1>2 DEF SetTail, ListInv, QueueTypeOK
  <1>4. n \in Nat /\ n > 0 /\ tail = queue[n] /\ \A i \in 1..n : queue[i] \in Nodes
    BY Basics
  <1>5. \A i \in 1..(n + 1) : i \in 1..n \/ i = n + 1
    BY <1>4
  <1>6. \A m : InQueue(m)' <=> InQueue(m) \/ m = p
    BY <1>3, <1>4, <1>5 DEF InQueue
  <1>7. \A u \in Threads : Owns(u)' <=> Owns(u) /\ u # t
    BY <1>1 DEF Owns
  <1>8. Locks'
    BY <1>1, <1>2 DEF Locks, ListInv, Threads, QueueTypeOK
  <1>9. Shape'
    <2>1. \A i \in 1..Len(queue') : queue'[i] \in alive'
      BY <1>1, <1>2, <1>3, <1>5, Basics
    <2>2. \A i, j \in 1..Len(queue') : queue'[i] = queue'[j] => i = j
      BY <1>2, <1>3, <1>5 DEF ListInv, Shape, InQueue
    <2> QED
      BY <1>1, <1>2, <1>6, <1>7, <2>1, <2>2 DEF Shape, ListInv
  <1>10. Hands'
    BY <1>1, <1>3, <1>4 DEF Hands, ListInv, Threads
  <1>11. Linked'
    <2>1. next[queue'[1]] = next[queue[1]] /\ next[HEAD] = queue'[1]
      BY <1>3, <1>4, Basics
    <2>2. \A i \in 1..n : next[queue'[i]] = queue'[i + 1]
      <3>1. \A i \in 1..n : i = n \/ i \in 1..(n - 1)
        BY <1>4
      <3>2. \A i \in 1..(n - 1) : i \in 1..n /\ i + 1 \in 1..n /\ next[queue[i]] = queue[i + 1]
        BY <1>4 DEF ListInv, Linked
      <3>3. next[queue'[n]] = queue'[n + 1]
        BY <1>2, <1>3, <1>4
      <3>4. ASSUME NEW i \in 1..(n - 1) PROVE next[queue'[i]] = queue'[i + 1]
        BY <1>3, <3>2
      <3> QED
        BY <3>1, <3>3, <3>4
    <2>3. queue' # <<>> /\ Len(queue') - 1 = n
      BY <1>3, <1>4 DEF QueueTypeOK
    <2> QED
      BY <1>1, <1>2, <1>3, <2>1, <2>2, <2>3 DEF Linked
  <1> QED
    BY <1>8, <1>9, <1>10, <1>11 DEF ListInv

\* The steps of a consumer in the critical section that leave the list alone.
LEMMA CheckList ==
  ASSUME ListInv, QueueTypeOK', NEW t \in Consumers,
         CallFront(t) \/ ReadHead(t) \/ FrontFails(t) \/ FrontFinds(t)
  PROVE  ListInv'
  <1> USE PQueueAssumption
  <1>1. PICK l \in {"idle", "read_head", "check", "unlink"} :
          /\ \A u \in Threads : pc'[u] = IF u = t THEN l ELSE pc[u]
          /\ l = "read_head" <=> CallFront(t)
          /\ l = "check" <=> ReadHead(t)
          /\ l = "idle" <=> FrontFails(t)
          /\ l = "unlink" <=> FrontFinds(t)
    BY DEF CallFront, ReadHead, FrontFails, FrontFinds, Goto, ListInv, QueueTypeOK, Threads
  <1>2. /\ \A u \in Threads : u # t => ptr'[u] = ptr[u]
        /\ UNCHANGED <<next, val, alive, wlock, queue, tail>> /\ t \in Threads
        /\ pc[t] \in {"idle", "read_head", "check"}
    BY DEF CallFront, ReadHead, FrontFails, FrontFinds, ListInv, QueueTypeOK, Threads
  <1>3. \A u \in Threads : Owns(u)' <=> Owns(u)
    BY <1>1, <1>2 DEF Owns
  <1>4. \A u \in Threads : Owns(u) => ptr'[u] = ptr[u]
    BY <1>2 DEF Owns
  <1>5. Locks'
    BY <1>1, <1>2 DEF Locks, ListInv, Threads, CallFront, ReadHead, FrontFails, FrontFinds,
       Free, QueueTypeOK
  <1>6. Shape'
    BY <1>2, <1>3, <1>4 DEF Shape, ListInv, InQueue
  <1>7. Hands'
    <2>1. l = "check" => ptr'[t] = queue[1]
      BY <1>1, Basics DEF ReadHead, ListInv, QueueTypeOK, Threads
    <2>2. l = "unlink" => ptr'[t] = queue[1] /\ Len(queue) > 1
      BY <1>1, Basics DEF FrontFinds, IsLast, ListInv, Hands
    <2> QED
      BY <1>1, <1>2, <2>1, <2>2 DEF Hands, ListInv, Threads
  <1>8. Linked'
    <2>1. wlock # NULL => wlock \in Threads /\ wlock # t
      BY DEF ListInv, QueueTypeOK, Threads
    <2> QED
      BY <1>1, <1>2, <2>1 DEF Linked, ListInv
  <1> QED
    BY <1>5, <1>6, <1>7, <1>8 DEF ListInv

\* The first node leaves the queue for the hands of the consumer; there is a second.
LEMMA UnlinkList ==
  ASSUME ListInv, QueueTypeOK', NEW t \in Consumers, Unlink(t)
  PROVE  ListInv'
  <1> USE PQueueAssumption
  <1> DEFINE p == ptr[t]
             n == Len(queue)
  <1>1. /\ \A u \in Threads : pc'[u] = IF u = t THEN "take" ELSE pc[u]
        /\ pc[t] = "unlink" /\ t \in Threads /\ rlock' = NULL
        /\ UNCHANGED <<val, alive, wlock, tail, ptr>>
    BY DEF Unlink, Goto, ListInv, QueueTypeOK, Threads
  <1>2. n \in Nat /\ n > 1 /\ p = queue[1] /\ p \in Nodes /\ p \in alive /\ rlock = t
    BY <1>1, Basics DEF ListInv, Hands, Locks
  <1>3. \A m \in Nodes \cup {HEAD} : next'[m] = IF m = HEAD THEN queue[2] ELSE next[m]
    BY <1>2 DEF Unlink, ListInv, QueueTypeOK, Linked
  <1>4. /\ Len(queue') = n - 1
        /\ \A i \in 1..(n - 1) : queue'[i] = queue[i + 1]
    BY <1>2 DEF Unlink, ListInv, QueueTypeOK
  <1>5. \A i \in 1..(n - 1) : i + 1 \in 1..n
    BY <1>2
  <1>6. \A m : InQueue(m)' <=> InQueue(m) /\ m # p
    <2>1. \A i, j \in 1..n : queue[i] = queue[j] => i = j
      BY DEF ListInv, Shape
    <2>2. \A i \in 1..(n - 1) : queue[i + 1] # p
      BY <1>2, <1>5, <2>1
    <2>3. ASSUME NEW m, InQueue(m), m # p PROVE InQueue(m)'
      <3>1. PICK i \in 1..n : queue[i] = m
        BY <2>3 DEF InQueue
      <3>2. i - 1 \in 1..(n - 1) /\ (i - 1) + 1 = i
        BY <1>2, <2>3, <3>1
      <3> QED
        BY <1>4, <3>1, <3>2 DEF InQueue
    <2>4. ASSUME NEW m, InQueue(m)' PROVE InQueue(m) /\ m # p
      BY <1>4, <1>5, <2>2, <2>4 DEF InQueue
    <2> QED
      BY <2>3, <2>4
  <1>7. \A u \in Threads : Owns(u)' <=> Owns(u) \/ u = t
    BY <1>1 DEF Owns
  <1>8. InQueue(p) /\ ~ Owns(t)
    BY <1>1, <1>2, Basics DEF Owns
  <1>9. Locks'
    BY <1>1, <1>2 DEF Locks, ListInv, Threads, QueueTypeOK
  <1>10. Shape'
    <2>1. \A i \in 1..Len(queue') : queue'[i] \in alive'
      BY <1>1, <1>4, <1>5, Basics
    <2>2. \A i, j \in 1..Len(queue') : queue'[i] = queue'[j] => i = j
      <3>1. \A i, j \in 1..(n - 1) : queue[i + 1] = queue[j + 1] => i + 1 = j + 1
        BY <1>5 DEF ListInv, Shape
      <3> QED
        BY <1>2, <1>4, <3>1
    <2>3. \A u \in Threads : Owns(u)' => (ptr[u] \in alive /\ ~ InQueue(ptr[u]))'
      BY <1>1, <1>2, <1>6, <1>7 DEF ListInv, Shape
    <2>4. \A u, v \in Threads : Owns(u)' /\ Owns(v)' /\ ptr'[u] = ptr'[v] => u = v
      BY <1>1, <1>7, <1>8 DEF ListInv, Shape
    <2>5. \A m \in alive' : InQueue(m)' \/ \E u \in Threads : Owns(u)' /\ ptr'[u] = m
      BY <1>1, <1>6, <1>7 DEF ListInv, Shape
    <2> QED
      BY <2>1, <2>2, <2>3, <2>4, <2>5 DEF Shape
  <1>11. Hands'
    <2>1. \A u \in Consumers : pc'[u] \notin {"check", "unlink"}
      BY <1>1, <1>2 DEF ListInv, Locks, Threads
    <2>2. \A u \in Threads : Owns(u) => ptr[u] \in Nodes
      BY DEF ListInv, Shape, QueueTypeOK
    <2> QED
      BY <1>1, <1>3, <2>1, <2>2 DEF Hands, ListInv, Threads, Owns
  <1>12. Linked'
    <2>1. n - 1 \in 1..(n - 1) /\ 1 \in 1..(n - 1) /\ (n - 1) + 1 = n /\ 1 + 1 = 2
      BY <1>2
    <2>2. queue'[1] = queue[2] /\ queue'[n - 1] = queue[n]
      BY <1>4, <2>1
    <2>3. queue' # <<>> /\ tail' = queue'[Len(queue')] /\ next'[HEAD] = queue'[1]
      BY <1>1, <1>2, <1>3, <1>4, <2>2, Basics
    <2>4. ASSUME NEW i \in 1..(Len(queue') - 1) PROVE next'[queue'[i]] = queue'[i + 1]
      <3>1. i \in 1..(n - 1) /\ i + 1 \in 1..(n - 1) /\ i + 1 \in 1..n
        BY <1>2, <1>4
      <3>2. next[queue[i + 1]] = queue[(i + 1) + 1]
        BY <3>1 DEF ListInv, Linked
      <3>3. queue[i + 1] \in Nodes
        BY <3>1, Basics
      <3> QED
        BY <1>3, <1>4, <3>1, <3>2, <3>3
    <2>5. next'[tail] = next[tail]
      BY <1>3, Basics
    <2>6. wlock # NULL => wlock \in Threads /\ wlock # t
      BY DEF ListInv, QueueTypeOK, Threads
    <2> QED
      BY <1>1, <2>3, <2>4, <2>5, <2>6 DEF Linked, ListInv
  <1> QED
    BY <1>9, <1>10, <1>11, <1>12 DEF ListInv

\* Freeing a node that the consumer alone has.
LEMMA TakeList ==
  ASSUME ListInv, QueueTypeOK', NEW t \in Consumers, Take(t)
  PROVE  ListInv'
  <1> USE PQueueAssumption
  <1> DEFINE p == ptr[t]
  <1>1. /\ \A u \in Threads : pc'[u] = IF u = t THEN "sub" ELSE pc[u]
        /\ \A u \in Threads : ptr'[u] = IF u = t THEN NULL ELSE ptr[u]
        /\ pc[t] = "take" /\ t \in Threads /\ alive' = alive \ {p}
        /\ UNCHANGED <<wlock, rlock, tail, queue>>
    BY DEF Take, Goto, ListInv, QueueTypeOK, Threads
  <1>2. p \in Nodes /\ ~ InQueue(p) /\ Owns(t)
    BY <1>1 DEF ListInv, Shape, Owns, QueueTypeOK
  <1>3. /\ \A m \in Nodes \cup {HEAD} : m # p => next'[m] = next[m]
        /\ \A m \in Nodes : m # p => val'[m] = val[m]
    BY DEF Take, ListInv, QueueTypeOK
  <1>4. \A u \in Threads : Owns(u)' <=> Owns(u) /\ u # t
    BY <1>1 DEF Owns
  <1>5. \A u \in Threads : Owns(u) => ptr[u] \in Nodes /\ (u # t => ptr[u] # p)
    BY <1>1, <1>2 DEF ListInv, Shape, QueueTypeOK
  <1>6. Locks'
    BY <1>1 DEF Locks, ListInv, Threads
  <1>7. Shape'
    BY <1>1, <1>2, <1>4, <1>5 DEF Shape, ListInv, InQueue
  <1>8. Hands'
    <2>1. \A u \in Producers : u # t
      OBVIOUS
    <2> QED
      BY <1>1, <1>3, <1>5, <2>1 DEF Hands, ListInv, Threads, Owns
  <1>9. Linked'
    <2>1. \A i \in 1..Len(queue) : queue[i] # p /\ queue[i] \in Nodes
      BY <1>2, Basics DEF InQueue
    <2>2. tail # p /\ HEAD # p /\ tail \in Nodes
      BY <1>2, Basics
    <2>3. next'[tail] = next[tail] /\ next'[HEAD] = next[HEAD]
      BY <1>3, <2>2
    <2>4. \A i \in 1..(Len(queue) - 1) : next'[queue[i]] = next[queue[i]]
      BY <1>3, <2>1, Basics
    <2>5. wlock # NULL => wlock \in Threads /\ wlock # t
      BY DEF ListInv, QueueTypeOK, Threads
    <2> QED
      BY <1>1, <2>3, <2>4, <2>5 DEF Linked, ListInv
  <1> QED
    BY <1>6, <1>7, <1>8, <1>9 DEF ListInv

\* ListInv is inductive: one case per action.
LEMMA ListStep == ListInv /\ [Next]_vars => ListInv'
  <1> SUFFICES ASSUME ListInv, [Next]_vars PROVE ListInv'
    OBVIOUS
  <1>1. CASE UNCHANGED vars
    <2>1. QueueTypeOK' /\ Locks'
      BY <1>1 DEF vars, ListInv, QueueTypeOK, Locks
    <2>2. Shape'
      BY <1>1 DEF vars, ListInv, Shape, InQueue, Owns
    <2>3. Hands' /\ Linked'
      BY <1>1 DEF vars, ListInv, Hands, Linked
    <2> QED
      BY <2>1, <2>2, <2>3 DEF ListInv
  <1>2. ASSUME Next PROVE QueueTypeOK'
    BY <1>2, TypeStep
  <1>3. ASSUME NEW t \in Threads, Next, Move(t) PROVE ListInv'
    BY <1>2, <1>3, MoveList
  <1>4. ASSUME NEW t \in Producers, Next, CallTryPush(t) \/ CallFlush(t) \/ PushStep(t)
        PROVE  ListInv'
    <2>1. t \in Threads
      BY DEF Threads
    <2>2. CASE CallTryPush(t) \/ Room(t)
      BY <1>3, <1>4, <2>1, <2>2 DEF CallTryPush, Room, Move
    <2>3. CASE CallFlush(t)
      BY <1>3, <1>4, <2>1, <2>3 DEF CallFlush, Move
    <2>4. CASE NewFails(t)
      BY <1>3, <1>4, <2>1, <2>4 DEF NewFails, AfterPush, Move
    <2>5. CASE AddSize(t)
      BY <1>3, <1>4, <2>1, <2>5 DEF AddSize, AfterPush, Move
    <2>6. CASE SetFlushed(t)
      BY <1>3, <1>4, <2>1, <2>6 DEF SetFlushed, Move
    <2> QED
      BY <1>2, <1>4, <2>2, <2>3, <2>4, <2>5, <2>6, NewList, WriteLockList, SetNextList, SetTailList
      DEF PushStep
  <1>5. ASSUME NEW t \in Consumers, Next, CallFront(t) \/ FrontStep(t)
        PROVE  ListInv'
    <2>1. t \in Threads
      BY DEF Threads
    <2>2. CASE SubSize(t)
      BY <1>3, <1>5, <2>1, <2>2 DEF SubSize, Move
    <2> QED
      BY <1>2, <1>5, <2>2, CheckList, UnlinkList, TakeList DEF FrontStep
  <1> QED
    BY <1>1, <1>4, <1>5 DEF Next

\* The list from head to tail is always the queue.
THEOREM QueueListInv == PrimedSpec => []ListInv
  BY ListInit, ListStep, PTL DEF PrimedSpec

\* pqueue.h: push, front.  Whatever producers and consumers do, the list from head
\* through next is the queue.
THEOREM QueueLinked == PrimedSpec => []Linked
  <1>1. ListInv => Linked
    BY DEF ListInv
  <1> QED
    BY <1>1, QueueListInv, PTL

\* pqueue.h: neither push, which writes through tail, nor front uses a node that a
\* front has freed.
THEOREM QueueNoUseAfterFree == PrimedSpec => []NoUseAfterFree
  <1>1. ASSUME ListInv PROVE NoUseAfterFree
    <2>1. TailLive
      BY <1>1, Basics DEF TailLive, InQueue
    <2>2. ASSUME NEW t \in Threads, pc[t] = "unlink" PROVE ptr[t] \in alive
      <3>1. t \in Consumers
        BY <1>1, <2>2 DEF ListInv, QueueTypeOK, Threads
      <3> QED
        BY <1>1, <2>2, <3>1, Basics DEF ListInv, Hands, InQueue
    <2>3. ASSUME NEW t \in Threads, Owns(t) PROVE ptr[t] \in alive
      BY <1>1, <2>3 DEF ListInv, Shape
    <2> QED
      BY <2>1, <2>2, <2>3 DEF NoUseAfterFree, Owns
  <1> QED
    BY <1>1, QueueListInv, PTL
-----------------------------------------------------------------------------
(* The size.                                                               *)

\* A thread that was not counted, and one that was.
LEMMA CountOneMore ==
  ASSUME NEW S, IsFiniteSet(S), NEW t, t \notin S
  PROVE  Cardinality(S \cup {t}) = Cardinality(S) + 1
  BY FS_AddElement

LEMMA CountOneLess ==
  ASSUME NEW S, IsFiniteSet(S), NEW t \in S
  PROVE  Cardinality(S \ {t}) = Cardinality(S) - 1 /\ Cardinality(S) > 0
  <1>1. Cardinality(S) \in Nat /\ Cardinality(S) # 0
    BY FS_CardinalityType, FS_EmptySet
  <1> QED
    BY <1>1, FS_RemoveElement

LEMMA Counts ==
  /\ IsFiniteSet(Pushing) /\ IsFiniteSet(Adding) /\ IsFiniteSet(Taking)
  /\ Cardinality(Pushing) \in Nat /\ Cardinality(Adding) \in Nat /\ Cardinality(Taking) \in Nat
  /\ Cardinality(Pushing) + Cardinality(Adding) <= Cardinality(Producers)
  /\ Cardinality(Taking) <= Cardinality(Consumers)
  <1>1. IsFiniteSet(Producers) /\ IsFiniteSet(Consumers)
    BY PQueueAssumption
  <1>2. Pushing \subseteq Producers /\ Adding \subseteq Producers /\ Taking \subseteq Consumers
    BY DEF Pushing, Adding, Taking
  <1>3. IsFiniteSet(Pushing) /\ IsFiniteSet(Adding) /\ IsFiniteSet(Taking)
    BY <1>1, <1>2, FS_Subset
  <1>4. /\ Cardinality(Pushing) \in Nat /\ Cardinality(Adding) \in Nat
        /\ Cardinality(Taking) \in Nat
    BY <1>3, FS_CardinalityType
  <1>5. Pushing \cap Adding = {}
    BY DEF Pushing, Adding
  <1>6. Cardinality(Pushing \cup Adding) = Cardinality(Pushing) + Cardinality(Adding)
    <2>1. Cardinality(Pushing \cup Adding)
            = Cardinality(Pushing) + Cardinality(Adding) - Cardinality(Pushing \cap Adding)
      BY <1>3, FS_Union
    <2>2. Cardinality(Pushing \cap Adding) = 0
      BY <1>5, FS_EmptySet
    <2> QED
      BY <1>4, <2>1, <2>2
  <1>7. Pushing \cup Adding \subseteq Producers
    BY <1>2
  <1>8. Cardinality(Pushing \cup Adding) <= Cardinality(Producers)
    BY <1>1, <1>7, FS_Subset
  <1>9. Cardinality(Taking) <= Cardinality(Consumers)
    BY <1>1, <1>2, FS_Subset
  <1> QED
    BY <1>3, <1>4, <1>6, <1>8, <1>9

\* size is not read wrong: at most the width of size is between its extremes.
LEMMA SizeRange ==
  ASSUME ListInv, Reserved
  PROVE  /\ TrueSize \in Int /\ Len(queue) \in Nat
         /\ TrueSize >= Len(queue) - Cardinality(Producers)
         /\ Len(queue) + Cardinality(Taking) < SizeMod
  <1> DEFINE c == IF closing THEN 1 ELSE 0
  <1>1. c \in 0..1 /\ Len(queue) \in Nat
    BY Basics
  <1>2. Len(queue) + Cardinality(Pushing) <= Length + Cardinality(Producers) + c
    BY DEF Reserved
  <1> DEFINE L == Len(queue)
             A == Cardinality(Adding)
             T == Cardinality(Taking)
             P == Cardinality(Pushing)
             Np == Cardinality(Producers)
  <1>3. A \in Nat /\ T \in Nat /\ P \in Nat /\ P + A <= Np /\ T <= Cardinality(Consumers)
    BY Counts
  <1>4. /\ TrueSize = L - A + T /\ L \in Nat
        /\ L + P <= Length + Np + c
    BY <1>1, <1>2 DEF TrueSize
  <1> HIDE DEF c, L, A, T, P
  <1>5. L - A + T \in Int /\ L - A + T >= L - Np /\ L + T < SizeMod
    BY <1>1, <1>3, <1>4, Numbers
  <1> QED
    BY <1>1, <1>4, <1>5 DEF L, T

LEMMA CountInit == PrimedInit => CountInv
  <1> SUFFICES ASSUME PrimedInit PROVE CountInv
    OBVIOUS
  <1>1. \A t \in Threads : pc[t] = "idle"
    BY DEF PrimedInit
  <1>2. Pushing = {} /\ Adding = {} /\ Taking = {}
    BY <1>1 DEF Pushing, Adding, Taking, Threads
  <1>3. Cardinality(Pushing) = 0 /\ Cardinality(Adding) = 0 /\ Cardinality(Taking) = 0
    BY <1>2, FS_EmptySet
  <1>4. Len(queue) = 1 /\ size = 1 /\ closing = FALSE /\ flushed = FALSE
    BY DEF PrimedInit
  <1>5. Cardinality(Producers) > 0
    BY PQueueAssumption, Numbers, FS_EmptySet
  <1> QED
    BY <1>1, <1>3, <1>4, <1>5, Numbers DEF CountInv, Wrapped, TrueSize, Reserved, LastPush, Threads

\* Nobody starts a push once flush is called.
LEMMA LastPushStep == ListInv /\ LastPush /\ Next => LastPush'
  <1> SUFFICES ASSUME ListInv, LastPush, Next PROVE LastPush'
    OBVIOUS
  <1> USE PQueueAssumption
  <1>1. pc \in [Threads -> Labels] /\ closing \in BOOLEAN /\ flushed \in BOOLEAN
    BY DEF ListInv, QueueTypeOK
  <1>2. ASSUME NEW t \in Consumers, CallFront(t) \/ FrontStep(t) PROVE LastPush'
    <2>1. UNCHANGED <<closing, flushed>> /\ \A u \in Producers : pc'[u] = pc[u]
      BY <1>1, <1>2 DEF CallFront, FrontStep, ReadHead, FrontFails, FrontFinds, Unlink, Take,
         SubSize, Goto, Threads
    <2> QED
      BY <2>1 DEF LastPush
  <1>3. ASSUME NEW t \in Producers, CallTryPush(t) PROVE LastPush'
    BY <1>1, <1>3 DEF CallTryPush, LastPush, Goto, Threads
  <1>4. ASSUME NEW t \in Producers, CallFlush(t) PROVE LastPush'
    BY <1>1, <1>4 DEF CallFlush, LastPush, Goto, Threads
  <1>5. ASSUME NEW t \in Producers, SetFlushed(t) PROVE LastPush'
    BY <1>1, <1>5 DEF SetFlushed, LastPush, Goto, Threads
  <1>6. ASSUME NEW t \in Producers, PushStep(t), ~ SetFlushed(t) PROVE LastPush'
    <2>1. pc[t] # "idle" /\ UNCHANGED <<closing, flushed>>
      BY <1>6 DEF PushStep, Room, New, NewFails, WriteLock, SetNext, SetTail, AddSize
    <2>2. PICK l \in Labels : Goto(t, l) /\ (l = "flush" => closing)
      BY <1>6 DEF PushStep, Room, New, NewFails, WriteLock, SetNext, SetTail, AddSize, AfterPush, Labels
    <2>3. \A u \in Producers : pc'[u] = IF u = t THEN l ELSE pc[u]
      BY <1>1, <2>2 DEF Goto, Threads
    <2> QED
      BY <2>1, <2>2, <2>3 DEF LastPush
  <1> QED
    BY <1>2, <1>3, <1>4, <1>5, <1>6 DEF Next

\* The steps that change neither the length of the queue nor a count.
Still == UNCHANGED <<size, closing, queue, Pushing, Adding, Taking>>

LEMMA StillStep ==
  ASSUME ListInv, NEW t \in Threads,
         \/ t \in Producers /\ (\/ CallTryPush(t) \/ New(t) \/ WriteLock(t) \/ SetNext(t)
                                \/ SetFlushed(t))
         \/ t \in Consumers /\ (\/ CallFront(t) \/ ReadHead(t) \/ FrontFails(t)
                                \/ FrontFinds(t) \/ Take(t))
  PROVE  Still
  <1>1. pc \in [Threads -> Labels]
    BY DEF ListInv, QueueTypeOK
  <1>2. UNCHANGED <<size, closing, queue>>
    BY DEF CallTryPush, New, WriteLock, SetNext, SetFlushed, CallFront, ReadHead, FrontFails,
       FrontFinds, Take
  <1>3. ASSUME NEW u \in Producers
        PROVE  /\ pc'[u] \in {"new", "lock", "set_next", "set_tail"}
                    <=> pc[u] \in {"new", "lock", "set_next", "set_tail"}
               /\ pc'[u] = "add" <=> pc[u] = "add"
    BY <1>1, PQueueAssumption DEF CallTryPush, New, WriteLock, SetNext, SetFlushed, CallFront, ReadHead, FrontFails,
       FrontFinds, Take, Goto, Threads
  <1>4. ASSUME NEW u \in Consumers
        PROVE  pc'[u] \in {"take", "sub"} <=> pc[u] \in {"take", "sub"}
    BY <1>1, PQueueAssumption DEF CallTryPush, New, WriteLock, SetNext, SetFlushed, CallFront, ReadHead, FrontFails,
       FrontFinds, Take, Goto, Threads
  <1>5. Pushing' = Pushing /\ Adding' = Adding
    BY <1>3 DEF Pushing, Adding
  <1>6. Taking' = Taking
    BY <1>4 DEF Taking
  <1> QED
    BY <1>2, <1>5, <1>6 DEF Still

\* A producer in the queue's way: how each of its steps moves the counts.
LEMMA PusherCounts ==
  ASSUME ListInv, NEW t \in Producers
  PROVE  /\ Room(t) \/ CallFlush(t)
              => t \notin Pushing /\ Pushing' = Pushing \cup {t} /\ UNCHANGED <<Adding, Taking>>
         /\ NewFails(t)
              => t \in Pushing /\ Pushing' = Pushing \ {t} /\ UNCHANGED <<Adding, Taking>>
         /\ SetTail(t)
              => /\ t \in Pushing /\ Pushing' = Pushing \ {t}
                 /\ t \notin Adding /\ Adding' = Adding \cup {t} /\ UNCHANGED Taking
         /\ AddSize(t)
              => t \in Adding /\ Adding' = Adding \ {t} /\ UNCHANGED <<Pushing, Taking>>
  <1> USE PQueueAssumption
  <1>1. pc \in [Threads -> Labels] /\ t \in Threads /\ t \notin Consumers
    BY DEF ListInv, QueueTypeOK, Threads
  <1>2. ASSUME NEW l, Goto(t, l)
        PROVE  /\ Taking' = Taking
               /\ \A u \in Producers : pc'[u] = IF u = t THEN l ELSE pc[u]
    <2>1. \A u \in Threads : pc'[u] = IF u = t THEN l ELSE pc[u]
      BY <1>1, <1>2 DEF Goto
    <2> QED
      BY <1>1, <2>1 DEF Taking, Threads
  <1>3. ASSUME Room(t) \/ CallFlush(t)
        PROVE  t \notin Pushing /\ Pushing' = Pushing \cup {t} /\ UNCHANGED <<Adding, Taking>>
    <2>1. Goto(t, "new") /\ pc[t] \in {"wait", "idle"}
      BY <1>3 DEF Room, CallFlush
    <2> QED
      BY <1>2, <2>1 DEF Pushing, Adding
  <1>4. ASSUME NewFails(t)
        PROVE  t \in Pushing /\ Pushing' = Pushing \ {t} /\ UNCHANGED <<Adding, Taking>>
    <2>1. PICK l \in {"flush", "idle"} : Goto(t, l) /\ pc[t] = "new"
      BY <1>4 DEF NewFails, AfterPush
    <2> QED
      BY <1>2, <2>1 DEF Pushing, Adding
  <1>5. ASSUME SetTail(t)
        PROVE  /\ t \in Pushing /\ Pushing' = Pushing \ {t}
               /\ t \notin Adding /\ Adding' = Adding \cup {t} /\ UNCHANGED Taking
    <2>1. Goto(t, "add") /\ pc[t] = "set_tail"
      BY <1>5 DEF SetTail
    <2> QED
      BY <1>2, <2>1 DEF Pushing, Adding
  <1>6. ASSUME AddSize(t)
        PROVE  t \in Adding /\ Adding' = Adding \ {t} /\ UNCHANGED <<Pushing, Taking>>
    <2>1. PICK l \in {"flush", "idle"} : Goto(t, l) /\ pc[t] = "add"
      BY <1>6 DEF AddSize, AfterPush
    <2> QED
      BY <1>2, <2>1 DEF Pushing, Adding
  <1> QED
    BY <1>3, <1>4, <1>5, <1>6

LEMMA TakerCounts ==
  ASSUME ListInv, NEW t \in Consumers
  PROVE  /\ Unlink(t)
              => t \notin Taking /\ Taking' = Taking \cup {t} /\ UNCHANGED <<Pushing, Adding>>
         /\ SubSize(t)
              => t \in Taking /\ Taking' = Taking \ {t} /\ UNCHANGED <<Pushing, Adding>>
  <1> USE PQueueAssumption
  <1>1. pc \in [Threads -> Labels] /\ t \in Threads /\ t \notin Producers
    BY DEF ListInv, QueueTypeOK, Threads
  <1>2. ASSUME NEW l, Goto(t, l)
        PROVE  /\ Pushing' = Pushing /\ Adding' = Adding
               /\ \A u \in Consumers : pc'[u] = IF u = t THEN l ELSE pc[u]
    <2>1. \A u \in Threads : pc'[u] = IF u = t THEN l ELSE pc[u]
      BY <1>1, <1>2 DEF Goto
    <2> QED
      BY <1>1, <2>1 DEF Pushing, Adding, Threads
  <1>3. ASSUME Unlink(t)
        PROVE  t \notin Taking /\ Taking' = Taking \cup {t} /\ UNCHANGED <<Pushing, Adding>>
    <2>1. Goto(t, "take") /\ pc[t] = "unlink"
      BY <1>3 DEF Unlink
    <2> QED
      BY <1>2, <2>1 DEF Taking
  <1>4. ASSUME SubSize(t)
        PROVE  t \in Taking /\ Taking' = Taking \ {t} /\ UNCHANGED <<Pushing, Adding>>
    <2>1. Goto(t, "idle") /\ pc[t] = "sub"
      BY <1>4 DEF SubSize
    <2> QED
      BY <1>2, <2>1 DEF Taking
  <1> QED
    BY <1>3, <1>4

\* Wrapped and Reserved are kept.  The test of size in try_push (Room) is where
\* they need each other: the queue is short enough for size not to be taken for a
\* wrapped one, and a size within the reserved length leaves room for every push.
LEMMA CountStep == ListInv /\ Wrapped /\ Reserved /\ Next => Wrapped' /\ Reserved'
  <1> SUFFICES ASSUME ListInv, Wrapped, Reserved, Next PROVE Wrapped' /\ Reserved'
    OBVIOUS
  <1> DEFINE L == Len(queue)
             P == Cardinality(Pushing)
             A == Cardinality(Adding)
             T == Cardinality(Taking)
             Np == Cardinality(Producers)
             Nc == Cardinality(Consumers)
             c == IF closing THEN 1 ELSE 0
  <1>1. /\ L \in Nat /\ P \in Nat /\ A \in Nat /\ T \in Nat /\ Np \in Nat /\ Nc \in Nat
        /\ Length \in Nat /\ SizeMod \in Nat /\ Length + Np + Nc + 1 < SizeMod
        /\ P + A <= Np /\ T <= Nc
    BY Basics, Counts, Numbers
  <1>2. c \in 0..1 /\ L + P <= Length + Np + c
    BY DEF Reserved
  <1>3. /\ size \in 0..(SizeMod - 1)
        /\ size = IF L - A + T >= 0 THEN L - A + T ELSE L - A + T + SizeMod
    BY DEF Wrapped, TrueSize, ListInv, QueueTypeOK
  <1>4. L > 0 /\ queue \in Seq(Nodes) /\ queue # <<>>
    BY Basics DEF ListInv, Linked, QueueTypeOK
  <1>5. IsFiniteSet(Pushing) /\ IsFiniteSet(Adding) /\ IsFiniteSet(Taking)
    BY Counts
  <1>6. ASSUME /\ size' = IF L' - A' + T' >= 0 THEN L' - A' + T' ELSE L' - A' + T' + SizeMod
               /\ L' + P' <= Length + Np + c'
        PROVE  Wrapped' /\ Reserved'
    BY <1>6 DEF Wrapped, TrueSize, Reserved
  <1>7. CASE Still
    BY <1>2, <1>3, <1>6, <1>7 DEF Still
  <1>8. ASSUME NEW t \in Producers, Room(t) PROVE Wrapped' /\ Reserved'
    <2>1. P' = P + 1 /\ A' = A /\ T' = T
      BY <1>5, <1>8, PusherCounts, CountOneMore
    <2>2. size <= Length /\ UNCHANGED <<size, closing, queue>>
      BY <1>8 DEF Room, HasRoom
    <2>4. P' + A' <= Np
      <3>1. t \notin Pushing /\ t \notin Adding /\ Pushing \cap Adding = {}
        BY <1>8, PusherCounts DEF Room, Pushing, Adding
      <3>2. IsFiniteSet(Pushing \cup Adding) /\ Cardinality(Pushing \cup Adding) = P + A
        <4>1. Cardinality(Pushing \cup Adding) = P + A - Cardinality(Pushing \cap Adding)
          BY <1>5, FS_Union
        <4>2. Cardinality(Pushing \cap Adding) = 0
          BY <3>1, FS_EmptySet
        <4>3. IsFiniteSet(Pushing \cup Adding)
          BY <1>5, FS_Union
        <4> QED
          BY <1>1, <4>1, <4>2, <4>3
      <3>3. Cardinality((Pushing \cup Adding) \cup {t}) = P + A + 1
        BY <3>1, <3>2, CountOneMore
      <3>4. (Pushing \cup Adding) \cup {t} \subseteq Producers
        BY DEF Pushing, Adding
      <3>5. Cardinality((Pushing \cup Adding) \cup {t}) <= Np
        BY <3>4, PQueueAssumption, FS_Subset
      <3> QED
        BY <1>1, <2>1, <3>3, <3>5
    <2>5. L - A + T <= Length
      <3> HIDE DEF L, P, A, T, Np, Nc, c
      <3> QED
        BY <1>1, <1>2, <1>3, <2>2
    <2>6. L' = L /\ c' = c /\ size' = size
      BY <2>2
    <2> HIDE DEF L, P, A, T, Np, Nc, c
    <2>7. L' + P' <= Length + Np + c'
      BY <1>1, <1>2, <2>1, <2>4, <2>5, <2>6
    <2> QED
      BY <1>3, <1>6, <2>1, <2>6, <2>7
  <1>9. ASSUME NEW t \in Producers, CallFlush(t) PROVE Wrapped' /\ Reserved'
    <2>1. P' = P + 1 /\ A' = A /\ T' = T
      BY <1>5, <1>9, PusherCounts, CountOneMore
    <2>2. L' = L /\ size' = size /\ c = 0 /\ c' = 1
      BY <1>9 DEF CallFlush
    <2> HIDE DEF L, P, A, T, Np, Nc, c
    <2> QED
      BY <1>1, <1>2, <1>3, <1>6, <2>1, <2>2
  <1>10. ASSUME NEW t \in Producers, NewFails(t) PROVE Wrapped' /\ Reserved'
    <2>1. P' = P - 1 /\ A' = A /\ T' = T
      BY <1>5, <1>10, PusherCounts, CountOneLess
    <2>2. L' = L /\ size' = size /\ c' = c
      BY <1>10 DEF NewFails
    <2> HIDE DEF L, P, A, T, Np, Nc, c
    <2> QED
      BY <1>1, <1>2, <1>3, <1>6, <2>1, <2>2
  <1>11. ASSUME NEW t \in Producers, SetTail(t) PROVE Wrapped' /\ Reserved'
    <2>1. P' = P - 1 /\ A' = A + 1 /\ T' = T
      BY <1>5, <1>11, PusherCounts, CountOneLess, CountOneMore
    <2>2. L' = L + 1 /\ size' = size /\ c' = c
      BY <1>4, <1>11 DEF SetTail, ListInv, Shape, Owns, QueueTypeOK, Threads
    <2> HIDE DEF L, P, A, T, Np, Nc, c
    <2> QED
      BY <1>1, <1>2, <1>3, <1>6, <2>1, <2>2
  <1>12. ASSUME NEW t \in Producers, AddSize(t) PROVE Wrapped' /\ Reserved'
    <2>1. P' = P /\ A' = A - 1 /\ A > 0 /\ T' = T
      BY <1>5, <1>12, PusherCounts, CountOneLess
    <2>2. L' = L /\ c' = c /\ size' = (size + 1) % SizeMod
      BY <1>12 DEF AddSize
    <2>3. size' = IF size = SizeMod - 1 THEN 0 ELSE size + 1
      BY <1>3, <2>2, Mod
    <2> HIDE DEF L, P, A, T, Np, Nc, c
    <2> QED
      BY <1>1, <1>2, <1>3, <1>6, <2>1, <2>2, <2>3
  <1>13. ASSUME NEW t \in Consumers, Unlink(t) PROVE Wrapped' /\ Reserved'
    <2>1. P' = P /\ A' = A /\ T' = T + 1
      BY <1>5, <1>13, TakerCounts, CountOneMore
    <2>2. L' = L - 1 /\ size' = size /\ c' = c
      BY <1>4, <1>13 DEF Unlink
    <2> HIDE DEF L, P, A, T, Np, Nc, c
    <2> QED
      BY <1>1, <1>2, <1>3, <1>6, <2>1, <2>2
  <1>14. ASSUME NEW t \in Consumers, SubSize(t) PROVE Wrapped' /\ Reserved'
    <2>1. P' = P /\ A' = A /\ T' = T - 1 /\ T > 0
      BY <1>5, <1>14, TakerCounts, CountOneLess
    <2>2. L' = L /\ c' = c /\ size' = Less(size)
      BY <1>14 DEF SubSize
    <2>3. size' = IF size = 0 THEN SizeMod - 1 ELSE size - 1
      BY <1>3, <2>2, Mod
    <2> HIDE DEF L, P, A, T, Np, Nc, c
    <2> QED
      BY <1>1, <1>2, <1>3, <1>6, <2>1, <2>2, <2>3
  <1>15. ASSUME NEW t \in Producers, CallTryPush(t) \/ CallFlush(t) \/ PushStep(t)
         PROVE  Wrapped' /\ Reserved'
    BY <1>7, <1>8, <1>9, <1>10, <1>11, <1>12, <1>15, StillStep DEF PushStep, Threads
  <1>16. ASSUME NEW t \in Consumers, CallFront(t) \/ FrontStep(t)
         PROVE  Wrapped' /\ Reserved'
    BY <1>7, <1>13, <1>14, <1>16, StillStep DEF FrontStep, Threads
  <1> QED
    BY <1>15, <1>16 DEF Next

\* What the size counts, and who has called flush.
THEOREM QueueCountInv == PrimedSpec => [](ListInv /\ CountInv)
  <1>1. ListInv /\ CountInv /\ [Next]_vars => CountInv'
    <2> SUFFICES ASSUME ListInv, CountInv, [Next]_vars PROVE CountInv'
      OBVIOUS
    <2>1. CASE UNCHANGED vars
      BY <2>1 DEF CountInv, Wrapped, TrueSize, Reserved, LastPush, Pushing, Adding, Taking, vars
    <2>2. CASE Next
      BY <2>2, LastPushStep, CountStep DEF CountInv
    <2> QED
      BY <2>1, <2>2
  <1> QED
    BY <1>1, ListInit, ListStep, CountInit, PTL DEF PrimedSpec

\* pqueue.h: AtomicAdd and AtomicSub of size, outside the locks.  size differs from
\* the length of the queue by the updates still to come, and wraps below zero.
THEOREM QueueSizeAccounts == PrimedSpec => []SizeAccounts
  <1>1. ASSUME ListInv, CountInv PROVE SizeAccounts
    <2> DEFINE x == TrueSize
    <2>1. x \in Int /\ x >= Len(queue) - Cardinality(Producers)
      BY <1>1, SizeRange DEF CountInv
    <2>2. size = (IF x >= 0 THEN x ELSE x + SizeMod) /\ size \in 0..(SizeMod - 1)
      BY <1>1 DEF CountInv, Wrapped, ListInv, QueueTypeOK
    <2>3. SizeAccounts <=> size = x % SizeMod
      BY DEF SizeAccounts, TrueSize, Adding, Taking
    <2>4. SizeMod \in Nat /\ SizeMod > 1
      BY Numbers
    <2> HIDE DEF x
    <2>5. CASE x >= 0
      BY <2>1, <2>2, <2>3, <2>4, <2>5
    <2>6. CASE x < 0
      <3>1. x + SizeMod \in 0..(SizeMod - 1)
        BY <2>1, <2>2, <2>6
      <3>2. x % SizeMod = x + SizeMod
        BY <2>1, <2>4, <2>6, <3>1
      <3> QED
        BY <2>1, <2>2, <2>3, <2>6, <3>2
    <2> QED
      BY <2>1, <2>5, <2>6
  <1> QED
    BY <1>1, QueueCountInv, PTL

\* pqueue.h: try_push.  The test of size is stale when the push comes, but the queue
\* outgrows the reserved length by one node per producer at most, and one for flush.
THEOREM QueueBounded == PrimedSpec => []QueueBound
  <1>1. ASSUME ListInv, CountInv PROVE QueueBound
    <2> DEFINE c == IF closing THEN 1 ELSE 0
    <2>1. c \in 0..1 /\ Len(queue) \in Nat
      BY <1>1, Basics
    <2>2. Len(queue) + Cardinality(Pushing) <= Length + Cardinality(Producers) + c
      BY <1>1 DEF CountInv, Reserved
    <2>3. QueueBound <=> Len(queue) <= Length + Cardinality(Producers) + c
      BY DEF QueueBound
    <2> HIDE DEF c
    <2> QED
      BY <2>1, <2>2, <2>3, Counts, Numbers
  <1> QED
    BY <1>1, QueueCountInv, PTL

\* pqueue.h: all_poped and ~PQueue.  A size of one after flush means that only the
\* dummy is left, and the destructor leaks nothing.
THEOREM QueueAllPoped == PrimedSpec => []AllPoped
  <1>1. ASSUME ListInv, CountInv, all_poped PROVE Len(queue) = 1
    <2>1. \A t \in Producers : pc[t] = "idle"
      BY <1>1 DEF CountInv, LastPush, all_poped
    <2>2. Adding = {}
      BY <2>1 DEF Adding
    <2>3. Cardinality(Adding) = 0
      BY <2>2, FS_EmptySet
    <2>4. size = 1 /\ size = IF TrueSize >= 0 THEN TrueSize ELSE TrueSize + SizeMod
      BY <1>1 DEF all_poped, CountInv, Wrapped
    <2>5. Len(queue) \in Nat /\ Len(queue) > 0
      BY <1>1, Basics
    <2>6. Cardinality(Taking) \in Nat
      BY Counts
    <2>7. TrueSize = Len(queue) + Cardinality(Taking)
      BY <2>3, <2>5, <2>6 DEF TrueSize
    <2>8. TrueSize >= 0 /\ size = 1
      BY <2>4, <2>5, <2>6, <2>7
    <2>9. TrueSize = 1
      BY <2>4, <2>8
    <2> DEFINE L == Len(queue)
    <2>10. L \in Nat /\ L > 0 /\ L + Cardinality(Taking) = 1
      BY <2>5, <2>7, <2>9
    <2> HIDE DEF L
    <2>11. L = 1
      BY <2>6, <2>10
    <2> QED
      BY <2>11 DEF L
  <1>2. ASSUME ListInv, Len(queue) = 1, \A t \in Threads : pc[t] = "idle"
        PROVE  LeftBehind = {}
    <2>1. \A n \in alive : InQueue(n)
      BY <1>2 DEF ListInv, Shape, Owns
    <2>2. \A n \in alive : n = queue[1]
      BY <1>2, <2>1 DEF InQueue
    <2> QED
      BY <1>2, <2>2, Basics DEF LeftBehind
  <1>3. ASSUME ListInv, CountInv PROVE AllPoped
    BY <1>1, <1>2, <1>3 DEF AllPoped
  <1> QED
    BY <1>3, QueueCountInv, PTL
-----------------------------------------------------------------------------
(* The refinement.                                                         *)

\* The values of the nodes of a sequence, after one more and after one less.
LEMMA ValuesAppend ==
  ASSUME NEW S, NEW f, NEW q \in Seq(S), NEW x \in S
  PROVE  [i \in 1..Len(Append(q, x)) |-> f[Append(q, x)[i]]]
           = Append([i \in 1..Len(q) |-> f[q[i]]], f[x])
  OBVIOUS

LEMMA ValuesTail ==
  ASSUME NEW S, NEW f, NEW q \in Seq(S), q # <<>>
  PROVE  /\ [i \in 1..Len(Tail(q)) |-> f[Tail(q)[i]]] = Tail([i \in 1..Len(q) |-> f[q[i]]])
         /\ Head([i \in 1..Len(q) |-> f[q[i]]]) = f[q[1]]
         /\ Len([i \in 1..Len(q) |-> f[q[i]]]) = Len(q)
  OBVIOUS

\* What the mapping makes of the queue and of what consumers have got.
Elements == [i \in 1..Len(queue) |-> val[queue[i]]]
Taken == [t \in Consumers |-> IF pc[t] = "take" THEN val[ptr[t]] ELSE got[t]]

LEMMA FifoInit == PrimedInit => Fifo!Init
  <1> SUFFICES ASSUME PrimedInit PROVE Fifo!Init
    OBVIOUS
  <1>1. PICK n \in Nodes : val = [m \in Nodes |-> IF m = n THEN First ELSE DUMMY] /\ queue = <<n>>
    BY DEF PrimedInit
  <1>2. Elements = <<First>>
    BY <1>1 DEF Elements
  <1>3. Taken = [t \in Consumers |-> NULL]
    BY DEF PrimedInit, Taken, Threads
  <1> QED
    BY <1>2, <1>3 DEF Fifo!Init, Elements, Taken

\* Every step of a producer is a push or nothing, every step of a consumer a front,
\* a front that fails, or nothing.
LEMMA FifoStep == ListInv /\ [Next]_vars => [Fifo!Next]_Fifo!vars
  <1> SUFFICES ASSUME ListInv, [Next]_vars PROVE [Fifo!Next]_Fifo!vars
    OBVIOUS
  <1> USE PQueueAssumption
  <1>1. ASSUME Elements' = Elements, Taken' = Taken PROVE [Fifo!Next]_Fifo!vars
    BY <1>1 DEF Fifo!vars, Elements, Taken
  <1>2. CASE UNCHANGED vars
    BY <1>1, <1>2 DEF Elements, Taken, vars
  <1>3. /\ pc \in [Threads -> Labels] /\ ptr \in [Threads -> Nodes \cup {NULL}]
        /\ got \in [Consumers -> Contents \cup {NULL}] /\ val \in [Nodes -> Contents]
        /\ queue \in Seq(Nodes) /\ queue # <<>>
    BY DEF ListInv, QueueTypeOK, Linked
  <1>4. ASSUME NEW t \in Consumers, pc[t] = "take"
        PROVE  ptr[t] \in Nodes /\ ptr[t] \in alive /\ ~ InQueue(ptr[t])
    BY <1>4 DEF ListInv, Shape, Owns, Threads, QueueTypeOK
  <1>5. ASSUME NEW t \in Producers, Room(t) \/ CallTryPush(t) \/ CallFlush(t) \/ NewFails(t)
                 \/ WriteLock(t) \/ SetNext(t) \/ AddSize(t) \/ SetFlushed(t)
        PROVE  [Fifo!Next]_Fifo!vars
    <2>1. UNCHANGED <<queue, val, ptr, got>>
      BY <1>5 DEF Room, CallTryPush, CallFlush, NewFails, WriteLock, SetNext, AddSize, SetFlushed
    <2>2. \A u \in Consumers : pc'[u] = pc[u]
      BY <1>3, <1>5 DEF Room, CallTryPush, CallFlush, NewFails, WriteLock, SetNext, AddSize,
         SetFlushed, AfterPush, Goto, Threads
    <2>3. Elements' = Elements /\ Taken' = Taken
      BY <2>1, <2>2 DEF Elements, Taken
    <2> QED
      BY <1>1, <2>3
  <1>6. ASSUME NEW t \in Producers, New(t) PROVE [Fifo!Next]_Fifo!vars
    <2>1. PICK n \in Nodes \ alive : /\ val' = [val EXCEPT ![n] = arg[t]]
                                     /\ ptr' = [ptr EXCEPT ![t] = n]
      BY <1>6 DEF New
    <2>2. \A u \in Consumers : pc'[u] = pc[u] /\ ptr'[u] = ptr[u]
      BY <1>3, <1>6, <2>1 DEF New, Goto, Threads
    <2>3. queue' = queue /\ got' = got
      BY <1>6 DEF New
    <2>4. \A i \in 1..Len(queue) : val'[queue[i]] = val[queue[i]]
      BY <1>3, <2>1, Basics
    <2>5. \A u \in Consumers : pc[u] = "take" => val'[ptr[u]] = val[ptr[u]]
      BY <1>3, <1>4, <2>1
    <2>6. Elements' = Elements
      BY <2>3, <2>4 DEF Elements
    <2>7. Taken' = Taken
      BY <2>2, <2>3, <2>5 DEF Taken
    <2> QED
      BY <1>1, <2>6, <2>7
  <1>7. ASSUME NEW t \in Producers, SetTail(t) PROVE [Fifo!Next]_Fifo!vars
    <2>1. ptr[t] \in Nodes /\ val[ptr[t]] \in Values \cup {DUMMY}
      BY <1>7 DEF SetTail, ListInv, Shape, Owns, Hands, Threads, QueueTypeOK
    <2>2. queue' = Append(queue, ptr[t]) /\ val' = val /\ got' = got
      BY <1>7 DEF SetTail
    <2>3. Elements' = Append(Elements, val[ptr[t]])
      BY <1>3, <2>1, <2>2, ValuesAppend DEF Elements
    <2>4. \A u \in Consumers : pc'[u] = pc[u] /\ ptr'[u] = ptr[u]
      BY <1>3, <1>7 DEF SetTail, Goto, Threads
    <2>5. Taken' = Taken
      BY <2>2, <2>4 DEF Taken
    <2>6. Fifo!Push
      BY <2>1, <2>3, <2>5 DEF Fifo!Push, Elements, Taken
    <2> QED
      BY <2>6 DEF Fifo!Next
  <1>8. ASSUME NEW t \in Consumers, CallFront(t) \/ ReadHead(t) \/ FrontFinds(t) \/ SubSize(t)
        PROVE  [Fifo!Next]_Fifo!vars
    <2>1. UNCHANGED <<queue, val, got>>
      BY <1>8 DEF CallFront, ReadHead, FrontFinds, SubSize
    <2>2. \A u \in Consumers : /\ pc'[u] = "take" <=> pc[u] = "take"
                               /\ pc[u] = "take" => ptr'[u] = ptr[u]
      BY <1>3, <1>8 DEF CallFront, ReadHead, FrontFinds, SubSize, Goto, Threads
    <2>3. Elements' = Elements /\ Taken' = Taken
      BY <2>1, <2>2 DEF Elements, Taken
    <2> QED
      BY <1>1, <2>3
  <1>9. ASSUME NEW t \in Consumers, FrontFails(t) PROVE [Fifo!Next]_Fifo!vars
    <2>1. ptr[t] = queue[1] /\ queue[1] = queue[Len(queue)] /\ 1 \in 1..Len(queue)
      BY <1>9, Basics DEF FrontFails, IsLast, ListInv, Hands
    <2>2. Len(queue) = 1
      <3>1. Len(queue) \in 1..Len(queue)
        BY Basics
      <3>2. \A i, j \in 1..Len(queue) : queue[i] = queue[j] => i = j
        BY DEF ListInv, Shape
      <3> QED
        BY <2>1, <3>1, <3>2
    <2>3. Len(Elements) = Len(queue) /\ Elements' = Elements
      <3>1. UNCHANGED <<queue, val>>
        BY <1>9 DEF FrontFails
      <3>2. Len(Elements) = Len(queue)
        BY <1>3, ValuesTail DEF Elements
      <3> QED
        BY <3>1, <3>2 DEF Elements
    <2>4. \A u \in Consumers : /\ pc'[u] = IF u = t THEN "idle" ELSE pc[u]
                               /\ ptr'[u] = IF u = t THEN NULL ELSE ptr[u]
                               /\ got'[u] = IF u = t THEN NULL ELSE got[u]
      BY <1>3, <1>9 DEF FrontFails, Goto, Threads
    <2>5. Taken' = [Taken EXCEPT ![t] = NULL]
      <3>1. val' = val
        BY <1>9 DEF FrontFails
      <3>2. Taken' = [u \in Consumers |-> IF u = t THEN NULL ELSE Taken[u]]
        BY <2>4, <3>1 DEF Taken
      <3> QED
        BY <3>2 DEF Taken
    <2>6. Fifo!FrontFails(t)
      BY <2>2, <2>3, <2>5 DEF Fifo!FrontFails, Elements, Taken
    <2> QED
      BY <2>6 DEF Fifo!Next
  <1>10. ASSUME NEW t \in Consumers, Unlink(t) PROVE [Fifo!Next]_Fifo!vars
    <2>1. ptr[t] = queue[1] /\ Len(queue) > 1
      BY <1>10 DEF Unlink, ListInv, Hands
    <2>2. queue' = Tail(queue) /\ UNCHANGED <<val, got, ptr>>
      BY <1>3, <1>10 DEF Unlink
    <2>3. /\ Elements' = Tail(Elements) /\ Head(Elements) = val[queue[1]]
          /\ Len(Elements) = Len(queue)
      BY <1>3, <2>2, ValuesTail DEF Elements
    <2>4. \A u \in Consumers : pc'[u] = IF u = t THEN "take" ELSE pc[u]
      BY <1>3, <1>10 DEF Unlink, Goto, Threads
    <2>5. Taken' = [Taken EXCEPT ![t] = val[ptr[t]]]
      BY <1>10, <2>2, <2>4 DEF Taken
    <2>6. Fifo!Front(t)
      BY <2>1, <2>3, <2>5 DEF Fifo!Front, Elements, Taken
    <2> QED
      BY <2>6 DEF Fifo!Next
  <1>11. ASSUME NEW t \in Consumers, Take(t) PROVE [Fifo!Next]_Fifo!vars
    <2>1. pc[t] = "take" /\ queue' = queue /\ val' = [val EXCEPT ![ptr[t]] = DUMMY]
      BY <1>11 DEF Take
    <2>2. \A u \in Consumers : /\ pc'[u] = IF u = t THEN "sub" ELSE pc[u]
                               /\ ptr'[u] = IF u = t THEN NULL ELSE ptr[u]
                               /\ got'[u] = IF u = t THEN val[ptr[t]] ELSE got[u]
      BY <1>3, <1>11 DEF Take, Goto, Threads
    <2>3. ptr[t] \in Nodes /\ ~ InQueue(ptr[t])
      BY <1>4, <2>1
    <2>4. \A u \in Consumers : pc[u] = "take" /\ u # t => ptr[u] # ptr[t] /\ ptr[u] \in Nodes
      BY <1>4, <2>1 DEF ListInv, Shape, Owns, Threads
    <2>5. Elements' = Elements
      BY <1>3, <2>1, <2>3 DEF Elements, InQueue
    <2>6. \A u \in Consumers : pc[u] = "take" /\ u # t => val'[ptr[u]] = val[ptr[u]]
      BY <1>3, <2>1, <2>4
    <2>7. Taken' = Taken
      BY <2>1, <2>2, <2>6 DEF Taken
    <2> QED
      BY <1>1, <2>5, <2>7
  <1> QED
    BY <1>2, <1>5, <1>6, <1>7, <1>8, <1>9, <1>10, <1>11 DEF Next, PushStep, FrontStep

\* pqueue.h: with two mutexes and a node freed outside both, the queue is first in
\* first out, and front fails only when nothing but the last node is there.
THEOREM QueueImplementsFifo == PrimedSpec => ImplementsFifo
  BY QueueListInv, FifoInit, FifoStep, PTL DEF PrimedSpec, ImplementsFifo, Fifo!Spec
=============================================================================
