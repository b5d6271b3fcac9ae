----------------------------- MODULE LifoProof -----------------------------
(***************************************************************************)
(* Proofs about the lock-free stack, for any set of threads and of nodes   *)
(* and any width of the counter.                                           *)
(*                                                                         *)
(* Inv is the inductive invariant.  Exclusive and Linked are what callers  *)
(* rely on; a successful pop preserves them because the next it read is    *)
(* still the next of the top node (FreshSnapshot), and a store to          *)
(* node->next does because the node is its pusher's own (InMethod).        *)
(***************************************************************************)
EXTENDS Lifo, SequenceTheorems, TLAPS

Inv == TypeOK /\ Exclusive /\ Linked /\ InMethod /\ FreshSnapshot

\* The invariant holds of a new stack, however the nodes are divided.
LEMMA InitInv == Init => Inv
  BY NullAssumption, SyncAssumption
     DEF Init, Inv, TypeOK, Exclusive, Linked, InMethod, FreshSnapshot,
         Elements, Busy, Pushes, Pops, Unchanged

\* The counter stays within its word.
LEMMA IncType == ASSUME NEW s \in 0..(SyncMod - 1)
                 PROVE  Inc(s) \in 0..(SyncMod - 1)
  BY SyncAssumption DEF Inc

\* Every step keeps the types.
LEMMA TypeStep == TypeOK /\ InMethod /\ [Next]_vars => TypeOK'
  <1> SUFFICES ASSUME TypeOK, InMethod, [Next]_vars
               PROVE  TypeOK'
    OBVIOUS
  <1> USE NullAssumption, SyncAssumption DEF TypeOK, Busy, Pushes, Pops
  <1>1. ASSUME NEW t \in Threads, CallPush(t) PROVE TypeOK'
    BY <1>1 DEF CallPush
  <1>2. ASSUME NEW t \in Threads, CallPop(t) PROVE TypeOK'
    BY <1>2 DEF CallPop, regs
  <1>3. ASSUME NEW t \in Threads, LoadHead(t) PROVE TypeOK'
    BY <1>3 DEF LoadHead
  <1>4. ASSUME NEW t \in Threads, LoadSync(t) PROVE TypeOK'
    BY <1>4 DEF LoadSync
  <1>5. ASSUME NEW t \in Threads, StoreNext(t) PROVE TypeOK'
    BY <1>5 DEF StoreNext, regs
  <1>6. ASSUME NEW t \in Threads, LoadNext(t) PROVE TypeOK'
    BY <1>6 DEF LoadNext
  <1>7. ASSUME NEW t \in Threads, BailEmpty(t) PROVE TypeOK'
    BY <1>7 DEF BailEmpty, Return
  <1>8. ASSUME NEW t \in Threads, CasPush(t) PROVE TypeOK'
    <2>1. node[t] \in Nodes
      BY <1>8 DEF CasPush, InMethod
    <2>2. sync' \in 0..(SyncMod - 1)
      BY <1>8, IncType DEF CasPush
    <2> QED
      BY <1>8, <2>1, <2>2 DEF CasPush, Return
  <1>9. ASSUME NEW t \in Threads, CasPop(t) PROVE TypeOK'
    <2>1. rax[t] \in Nodes
      BY <1>9 DEF CasPop, InMethod
    <2>2. sync' \in 0..(SyncMod - 1)
      BY <1>9, IncType DEF CasPop
    <2>3. stack' \in Seq(Nodes)
      BY <1>9 DEF CasPop
    <2> QED
      BY <1>9, <2>1, <2>2, <2>3 DEF CasPop, Return
  <1>10. ASSUME NEW t \in Threads, CasFails(t) PROVE TypeOK'
    BY <1>10 DEF CasFails, Reload, RetryAt
  <1>11. ASSUME NEW t \in Threads, TryFails(t) PROVE TypeOK'
    BY <1>11 DEF TryFails, Return
  <1>12. CASE UNCHANGED vars
    BY <1>12 DEF vars
  <1> QED
    BY <1>1, <1>2, <1>3, <1>4, <1>5, <1>6, <1>7, <1>8, <1>9, <1>10, <1>11, <1>12
       DEF Next, Step

\* Every step keeps the registers of each thread consistent with its method.
LEMMA InMethodStep == TypeOK /\ Exclusive /\ InMethod /\ [Next]_vars => InMethod'
  <1> SUFFICES ASSUME TypeOK, Exclusive, InMethod, [Next]_vars
               PROVE  InMethod'
    OBVIOUS
  <1> USE NullAssumption DEF TypeOK, InMethod, Busy, Pushes, Pops
  <1>1. ASSUME NEW t \in Threads, CallPush(t) PROVE InMethod'
    BY <1>1 DEF CallPush
  <1>2. ASSUME NEW t \in Threads, CallPop(t) PROVE InMethod'
    BY <1>2 DEF CallPop, regs
  <1>3. ASSUME NEW t \in Threads, LoadHead(t) PROVE InMethod'
    BY <1>3 DEF LoadHead
  <1>4. ASSUME NEW t \in Threads, LoadSync(t) PROVE InMethod'
    BY <1>4 DEF LoadSync
  <1>5. ASSUME NEW t \in Threads, StoreNext(t) PROVE InMethod'
    BY <1>5 DEF StoreNext, regs
  <1>6. ASSUME NEW t \in Threads, LoadNext(t) PROVE InMethod'
    BY <1>6 DEF LoadNext
  <1>7. ASSUME NEW t \in Threads, BailEmpty(t) PROVE InMethod'
    BY <1>7 DEF BailEmpty, Return
  <1>8. ASSUME NEW t \in Threads, CasPush(t) PROVE InMethod'
    \* No other thread is pushing the node that leaves held[t].
    <2>1. \A u \in Threads \ {t} : held'[u] = held[u]
      BY <1>8 DEF CasPush
    <2> QED
      BY <1>8, <2>1 DEF CasPush, Return
  <1>9. ASSUME NEW t \in Threads, CasPop(t) PROVE InMethod'
    BY <1>9 DEF CasPop, Return
  <1>10. ASSUME NEW t \in Threads, CasFails(t) PROVE InMethod'
    BY <1>10 DEF CasFails, Reload, RetryAt
  <1>11. ASSUME NEW t \in Threads, TryFails(t) PROVE InMethod'
    BY <1>11 DEF TryFails, Return
  <1>12. CASE UNCHANGED vars
    BY <1>12 DEF vars
  <1> QED
    BY <1>1, <1>2, <1>3, <1>4, <1>5, <1>6, <1>7, <1>8, <1>9, <1>10, <1>11, <1>12
       DEF Next, Step

\* The node at the head is the last of the stack, and the stack is not empty.
LEMMA TopNode == ASSUME Linked, TypeOK, head # NULL
                 PROVE  /\ Len(stack) \in Nat \ {0}
                        /\ head = stack[Len(stack)]
                        /\ head \in Elements(stack)
  BY DEF Linked, TypeOK, Elements

\* A successful push puts the caller's own node on top.
LEMMA PushStep == ASSUME Inv, NEW t \in Threads, CasPush(t)
                  PROVE  Exclusive' /\ Linked'
  <1> DEFINE n == node[t]
             top == Len(stack) + 1
  <1>1. n \in held[t] /\ n \in Nodes /\ n \notin Elements(stack)
    BY DEF Inv, CasPush, InMethod, TypeOK, Exclusive
  <1>2. /\ Len(stack) \in Nat /\ Len(stack') = top
        /\ stack'[top] = n
        /\ \A i \in 1..Len(stack) : stack'[i] = stack[i] /\ stack[i] # n
    BY <1>1 DEF Inv, CasPush, TypeOK, Elements
  <1>3. Elements(stack') = Elements(stack) \cup {n}
    BY <1>2 DEF Elements
  <1>4. held' = [held EXCEPT ![t] = @ \ {n}]
    BY DEF CasPush
  <1>5. Exclusive'
    <2>1. \A u, v \in Threads : u # v => held'[u] \cap held'[v] = {}
      BY <1>4 DEF Inv, TypeOK, Exclusive
    <2>2. \A u \in Threads : held'[u] \cap Elements(stack') = {}
      BY <1>1, <1>3, <1>4 DEF Inv, TypeOK, Exclusive
    <2>3. \A i, j \in 1..Len(stack') : stack'[i] = stack'[j] => i = j
      BY <1>2 DEF Inv, Exclusive
    <2> QED
      BY <2>1, <2>2, <2>3 DEF Exclusive
  <1>6. Linked'
    <2>1. next' = next /\ head' = n /\ next[n] = head
      BY DEF CasPush, Inv, FreshSnapshot, Unchanged
    <2>2. \A i \in 1..Len(stack') :
            next'[stack'[i]] = IF i = 1 THEN NULL ELSE stack'[i - 1]
      <3> SUFFICES ASSUME NEW i \in 1..Len(stack')
                   PROVE  next'[stack'[i]] = IF i = 1 THEN NULL ELSE stack'[i - 1]
        OBVIOUS
      <3>1. CASE i = top
        BY <3>1, <1>2, <2>1 DEF Inv, Linked, TypeOK
      <3>2. CASE i # top
        BY <3>2, <1>2, <2>1 DEF Inv, Linked
      <3> QED
        BY <3>1, <3>2
    <2> QED
      BY <1>2, <2>1, <2>2 DEF Linked
  <1> QED
    BY <1>5, <1>6

\* What the first n elements of a sequence are.
LEMMA Prefix ==
  ASSUME NEW S, NEW s \in Seq(S), NEW n \in 0..Len(s)
  PROVE  /\ SubSeq(s, 1, n) \in Seq(S)
         /\ Len(SubSeq(s, 1, n)) = n
         /\ \A i \in 1..n : SubSeq(s, 1, n)[i] = s[i]
         /\ SubSeq(s, 1, n) = <<>> <=> n = 0
  <1>1. n \in Nat /\ \A i \in 1..n : s[i] \in S
    OBVIOUS
  <1>2. SubSeq(s, 1, n) \in Seq(S)
    BY <1>1
  <1>3. Len(SubSeq(s, 1, n)) = n
    BY <1>1, SubSeqProperties
  <1>4. \A i \in 1..n : SubSeq(s, 1, n)[i] = s[i]
    BY <1>1
  <1> DEFINE f == SubSeq(s, 1, n)
  <1>5. f = <<>> <=> n = 0
    <2> HIDE DEF f
    <2>1. f \in Seq(S) /\ Len(f) = n
      BY <1>2, <1>3 DEF f
    <2> QED
      BY <2>1
  <1> QED
    BY <1>2, <1>3, <1>4, <1>5

\* A successful pop takes the top node and gives it to the caller.
LEMMA PopStep == ASSUME Inv, NEW t \in Threads, CasPop(t)
                 PROVE  Exclusive' /\ Linked'
  <1>1. rax[t] = head /\ head # NULL /\ head \in Nodes
    BY DEF Inv, CasPop, InMethod, TypeOK, Unchanged
  <1>2. PICK top \in Nat \ {0} : top = Len(stack)
    BY <1>1, TopNode DEF Inv
  <1>3. head = stack[top] /\ head \in Elements(stack)
    BY <1>1, <1>2, TopNode DEF Inv
  <1>4. /\ Len(stack') = top - 1
        /\ \A i \in 1..(top - 1) : stack'[i] = stack[i]
        /\ stack' = <<>> <=> top - 1 = 0
    <2>1. stack \in Seq(Nodes) /\ stack' = SubSeq(stack, 1, top - 1)
      BY <1>2 DEF Inv, TypeOK, CasPop
    <2>2. top - 1 \in 0..Len(stack)
      BY <1>2
    <2> QED
      BY <2>1, <2>2, Prefix
  <1>5. \A i \in 1..(top - 1) : stack[i] # head
    BY <1>2, <1>3 DEF Inv, Exclusive
  <1>6. Elements(stack') = Elements(stack) \ {head}
    BY <1>2, <1>3, <1>4, <1>5 DEF Elements
  <1>7. held' = [held EXCEPT ![t] = @ \cup {head}]
    BY <1>1 DEF CasPop
  <1>8. Exclusive'
    <2>1. \A u, v \in Threads : u # v => held'[u] \cap held'[v] = {}
      BY <1>3, <1>7 DEF Inv, TypeOK, Exclusive
    <2>2. \A u \in Threads : held'[u] \cap Elements(stack') = {}
      BY <1>6, <1>7 DEF Inv, TypeOK, Exclusive
    <2>3. \A i, j \in 1..Len(stack') : stack'[i] = stack'[j] => i = j
      BY <1>2, <1>4 DEF Inv, Exclusive
    <2> QED
      BY <2>1, <2>2, <2>3 DEF Exclusive
  <1>9. Linked'
    <2>1. next' = next /\ head' = next[head]
      BY DEF CasPop, Inv, FreshSnapshot
    <2>2. head' = IF top = 1 THEN NULL ELSE stack[top - 1]
      BY <1>2, <1>3, <2>1 DEF Inv, Linked
    <2>3. head' = IF stack' = <<>> THEN NULL ELSE stack'[Len(stack')]
      BY <1>2, <1>4, <2>2
    <2>4. \A i \in 1..Len(stack') :
            next'[stack'[i]] = IF i = 1 THEN NULL ELSE stack'[i - 1]
      BY <1>2, <1>4, <2>1 DEF Linked, Inv
    <2> QED
      BY <2>3, <2>4 DEF Linked
  <1> QED
    BY <1>8, <1>9

\* No step breaks the list or gives a node two places.
LEMMA ShapeStep == Inv /\ [Next]_vars => Exclusive' /\ Linked'
  <1> SUFFICES ASSUME Inv, [Next]_vars
               PROVE  Exclusive' /\ Linked'
    OBVIOUS
  <1>1. CASE UNCHANGED <<head, next, held, stack>>
    BY <1>1 DEF Inv, Exclusive, Linked, Elements
  <1>2. ASSUME NEW t \in Threads, StoreNext(t) PROVE Exclusive' /\ Linked'
    <2>1. node[t] \in held[t]
      BY <1>2 DEF StoreNext, Inv, InMethod
    <2>2. node[t] \notin Elements(stack)
      BY <2>1 DEF Inv, Exclusive
    <2>3. \A i \in 1..Len(stack) : next'[stack[i]] = next[stack[i]]
      BY <1>2, <2>2 DEF StoreNext, Elements, Inv, TypeOK
    <2> QED
      BY <1>2, <2>3 DEF StoreNext, Inv, Exclusive, Linked, Elements
  <1>3. ASSUME NEW t \in Threads, CasPush(t) PROVE Exclusive' /\ Linked'
    BY <1>3, PushStep
  <1>4. ASSUME NEW t \in Threads, CasPop(t) PROVE Exclusive' /\ Linked'
    BY <1>4, PopStep
  <1> QED
    BY <1>1, <1>2, <1>3, <1>4
       DEF Next, Step, vars, regs, CallPush, CallPop, LoadHead, LoadSync, LoadNext,
           BailEmpty, CasFails, TryFails

\* A step of t leaves every other thread's snapshot as fresh as it was: a
\* successful compare-and-swap makes all of them old, by the new counter.
LEMMA FreshStep == Inv /\ [Next]_vars => FreshSnapshot'
  <1> SUFFICES ASSUME Inv, [Next]_vars
               PROVE  FreshSnapshot'
    OBVIOUS
  <1> USE DEF Inv, FreshSnapshot, Unchanged, Pushes, Pops
  <1>1. ASSUME NEW t \in Threads, CallPush(t) PROVE FreshSnapshot'
    BY <1>1 DEF CallPush, TypeOK, InMethod
  <1>2. ASSUME NEW t \in Threads, CallPop(t) PROVE FreshSnapshot'
    BY <1>2 DEF CallPop, TypeOK, InMethod, regs
  <1>3. ASSUME NEW t \in Threads, LoadHead(t) PROVE FreshSnapshot'
    BY <1>3 DEF LoadHead, TypeOK, InMethod
  <1>4. ASSUME NEW t \in Threads, LoadSync(t) PROVE FreshSnapshot'
    BY <1>4 DEF LoadSync, TypeOK, InMethod
  <1>5. ASSUME NEW t \in Threads, StoreNext(t) PROVE FreshSnapshot'
    <2>1. node[t] \in held[t] /\ node[t] \in Nodes
      BY <1>5 DEF StoreNext, InMethod, TypeOK
    <2>2. \A u \in Threads : u # t /\ op[u] \in Pushes => node[u] # node[t]
      BY <2>1 DEF InMethod, Exclusive
    <2>3. head # node[t]
      BY <2>1, TopNode, NullAssumption DEF Exclusive
    <2>4. \A u \in Threads : op[u] \in Pushes => node[u] \in Nodes
      BY DEF InMethod, TypeOK
    <2>5. ASSUME NEW u \in Threads, u # t, pc[u] = "cas", op[u] \in Pushes
          PROVE  next'[node[u]] = next[node[u]]
      BY <1>5, <2>2, <2>4, <2>5 DEF StoreNext, TypeOK
    <2>6. head \in Nodes => next'[head] = next[head]
      BY <1>5, <2>3 DEF StoreNext, TypeOK
    <2>7. next'[node[t]] = rax[t]
      BY <1>5, <2>1 DEF StoreNext, TypeOK
    <2>8. pc'[t] = "cas" /\ \A u \in Threads \ {t} : pc'[u] = pc[u]
      BY <1>5 DEF StoreNext, TypeOK
    <2>9. op[t] \in Pushes /\ op[t] \notin Pops
      BY <1>5 DEF StoreNext, InMethod
    <2>10. \A u \in Threads : pc[u] = "cas" /\ op[u] \in Pops /\ rax[u] = head
             => head \in Nodes
      BY DEF InMethod, TypeOK
    <2> QED
      BY <1>5, <2>5, <2>6, <2>7, <2>8, <2>9, <2>10 DEF StoreNext, regs
  <1>6. ASSUME NEW t \in Threads, LoadNext(t) PROVE FreshSnapshot'
    BY <1>6 DEF LoadNext, TypeOK, InMethod
  <1>7. ASSUME NEW t \in Threads, BailEmpty(t) PROVE FreshSnapshot'
    BY <1>7 DEF BailEmpty, Return, TypeOK, InMethod
  <1>8. ASSUME NEW t \in Threads, CasPush(t) PROVE FreshSnapshot'
    BY <1>8 DEF CasPush, Return, NotLapped, Snapshot, TypeOK, InMethod
  <1>9. ASSUME NEW t \in Threads, CasPop(t) PROVE FreshSnapshot'
    BY <1>9 DEF CasPop, Return, NotLapped, Snapshot, TypeOK, InMethod
  <1>10. ASSUME NEW t \in Threads, CasFails(t) PROVE FreshSnapshot'
    BY <1>10 DEF CasFails, Reload, RetryAt, TypeOK, InMethod
  <1>11. ASSUME NEW t \in Threads, TryFails(t) PROVE FreshSnapshot'
    BY <1>11 DEF TryFails, Return, TypeOK, InMethod
  <1>12. CASE UNCHANGED vars
    BY <1>12 DEF vars
  <1> QED
    BY <1>1, <1>2, <1>3, <1>4, <1>5, <1>6, <1>7, <1>8, <1>9, <1>10, <1>11, <1>12
       DEF Next, Step

\* Inv holds in every state of every run of the lock-free stack.
THEOREM LifoInvariant == Spec => []Inv
  <1>1. Inv /\ [Next]_vars => Inv'
    BY TypeStep, InMethodStep, ShapeStep, FreshStep DEF Inv
  <1> QED
    BY InitInv, <1>1, PTL DEF Spec

\* Type correctness: in particular sync never leaves its machine word.
THEOREM LifoTypeOK == Spec => []TypeOK
  BY LifoInvariant, PTL DEF Inv

\* push and pop of src/util/lifo.hpp never hand a node to two callers, and never
\* leave a node both in the stack and with a caller.
THEOREM LifoExclusive == Spec => []Exclusive
  BY LifoInvariant, PTL DEF Inv

\* The linked list in memory is the stack of the nodes pushed and not popped.
THEOREM LifoLinked == Spec => []Linked
  BY LifoInvariant, PTL DEF Inv

\* A compare-and-swap that succeeds installs a next that is still current.
THEOREM LifoFreshSnapshot == Spec => []FreshSnapshot
  BY LifoInvariant, PTL DEF Inv

-----------------------------------------------------------------------------
(* The lock-free stack implements the atomic one.                          *)

\* The value of the abstract variable empty.
Empty == [t \in Threads |-> /\ pc[t] \in {"load_sync", "load_next"}
                            /\ op[t] \in Pops
                            /\ rax[t] = NULL]

LEMMA RefinesInit == Init => Stack!Init
  BY DEF Init, Stack!Init

\* A step that leaves stack and held alone and, for the stepping thread only,
\* may find the stack empty or return NULL.
LEMMA EmptyStep ==
  ASSUME Inv, NEW t \in Threads, UNCHANGED <<stack, held>>,
         \A u \in Threads \ {t} : Empty'[u] = Empty[u],
         Empty'[t] => Empty[t] \/ stack = <<>>
  PROVE  Stack!Next \/ UNCHANGED Stack!vars
  <1>1. /\ Empty \in [Threads -> BOOLEAN]
        /\ Empty' \in [Threads -> BOOLEAN]
    BY DEF Empty
  <1>2. CASE Empty'[t] = Empty[t]
    <2>1. Empty' = Empty
      BY <1>1, <1>2
    <2> QED
      BY <2>1 DEF Stack!vars, Empty
  <1>3. CASE Empty'[t] /\ ~ Empty[t]
    <2>1. Empty' = [Empty EXCEPT ![t] = TRUE]
      BY <1>1, <1>3
    <2>2. Stack!FindEmpty(t)
      BY <2>1, <1>3 DEF Stack!FindEmpty, Empty
    <2> QED
      BY <2>2 DEF Stack!Next
  <1>4. CASE ~ Empty'[t] /\ Empty[t]
    <2>1. Empty' = [Empty EXCEPT ![t] = FALSE]
      BY <1>1, <1>4
    <2>2. Stack!ReturnEmpty(t)
      BY <2>1, <1>4 DEF Stack!ReturnEmpty, Empty
    <2> QED
      BY <2>2 DEF Stack!Next
  <1> QED
    BY <1>1, <1>2, <1>3, <1>4

\* Every step of the lock-free stack is a step of the atomic one or changes
\* nothing a caller can see.
LEMMA RefinesNext == Inv /\ [Next]_vars => [Stack!Next]_(Stack!vars)
  <1> SUFFICES ASSUME Inv, [Next]_vars
               PROVE  Stack!Next \/ UNCHANGED Stack!vars
    BY DEF Stack!vars
  <1> USE DEF Inv, TypeOK, Busy, Pushes, Pops
  <1>1. ASSUME NEW t \in Threads, CallPush(t) PROVE Stack!Next \/ UNCHANGED Stack!vars
    BY <1>1, EmptyStep DEF CallPush, Empty, InMethod
  <1>2. ASSUME NEW t \in Threads, CallPop(t) PROVE Stack!Next \/ UNCHANGED Stack!vars
    BY <1>2, EmptyStep DEF CallPop, Empty, InMethod, regs
  <1>3. ASSUME NEW t \in Threads, LoadHead(t) PROVE Stack!Next \/ UNCHANGED Stack!vars
    <2>1. head = NULL => stack = <<>>
      BY NullAssumption DEF Linked
    <2> QED
      BY <1>3, <2>1, EmptyStep DEF LoadHead, Empty
  <1>4. ASSUME NEW t \in Threads, LoadSync(t) PROVE Stack!Next \/ UNCHANGED Stack!vars
    BY <1>4, EmptyStep DEF LoadSync, Empty
  <1>5. ASSUME NEW t \in Threads, StoreNext(t) PROVE Stack!Next \/ UNCHANGED Stack!vars
    BY <1>5, EmptyStep DEF StoreNext, Empty, regs
  <1>6. ASSUME NEW t \in Threads, LoadNext(t) PROVE Stack!Next \/ UNCHANGED Stack!vars
    BY <1>6, EmptyStep DEF LoadNext, Empty
  <1>7. ASSUME NEW t \in Threads, BailEmpty(t) PROVE Stack!Next \/ UNCHANGED Stack!vars
    BY <1>7, EmptyStep DEF BailEmpty, Return, Empty
  <1>8. ASSUME NEW t \in Threads, CasPush(t) PROVE Stack!Next \/ UNCHANGED Stack!vars
    <2>1. Empty' = Empty
      BY <1>8 DEF CasPush, Return, Empty
    <2>2. node[t] \in held[t]
      BY <1>8 DEF CasPush, InMethod
    <2>3. Stack!Push(t)
      BY <1>8, <2>1, <2>2 DEF CasPush, Stack!Push, Empty
    <2> QED
      BY <2>3 DEF Stack!Next
  <1>9. ASSUME NEW t \in Threads, CasPop(t) PROVE Stack!Next \/ UNCHANGED Stack!vars
    <2>1. Empty' = Empty
      BY <1>9 DEF CasPop, Return, Empty
    <2>2. head # NULL /\ rax[t] = head
      BY <1>9 DEF CasPop, Unchanged, InMethod
    <2>3. stack # <<>> /\ rax[t] = stack[Len(stack)]
      BY <2>2 DEF Linked
    <2>4. Stack!Pop(t)
      BY <1>9, <2>1, <2>3 DEF CasPop, Stack!Pop, Empty
    <2> QED
      BY <2>4 DEF Stack!Next
  <1>10. ASSUME NEW t \in Threads, CasFails(t) PROVE Stack!Next \/ UNCHANGED Stack!vars
    <2>1. head = NULL => stack = <<>>
      BY NullAssumption DEF Linked
    <2> QED
      BY <1>10, <2>1, EmptyStep DEF CasFails, Reload, RetryAt, Empty
  <1>11. ASSUME NEW t \in Threads, TryFails(t) PROVE Stack!Next \/ UNCHANGED Stack!vars
    BY <1>11, EmptyStep DEF TryFails, Return, Empty
  <1>12. CASE UNCHANGED vars
    BY <1>12 DEF vars, Stack!vars
  <1> QED
    BY <1>1, <1>2, <1>3, <1>4, <1>5, <1>6, <1>7, <1>8, <1>9, <1>10, <1>11, <1>12
       DEF Next, Step

\* To its callers the Lifo is an atomic stack: a pop returns the last node pushed,
\* and returns NULL only if the stack was empty at some moment of the call.
THEOREM LifoImplementsAtomicStack == Spec => ImplementsAtomicStack
  BY LifoInvariant, RefinesInit, RefinesNext, PTL
     DEF Spec, ImplementsAtomicStack, Stack!Spec
=============================================================================
