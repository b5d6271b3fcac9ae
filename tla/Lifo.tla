-------------------------------- MODULE Lifo --------------------------------
(***************************************************************************)
(* The lock-free stack of src/util/lifo.h and src/util/lifo.hpp, one       *)
(* action per machine instruction that touches shared memory.              *)
(*                                                                         *)
(* The stack is the pair of words (head, sync).  push and pop read the     *)
(* two words with two separate loads, prepare the new pair, and install it *)
(* with one double-width compare-and-swap, which increments sync so that   *)
(* a thread whose snapshot is old is refused even when head has come back  *)
(* to the node it saw (the ABA problem).                                   *)
(*                                                                         *)
(* lifo.hpp has two bodies, for i386 and for x86_64.  They differ in what  *)
(* a pop does after a failed compare-and-swap: i386 goes on with the pair  *)
(* the instruction has just loaded, x86_64 starts again with the loads.    *)
(***************************************************************************)
EXTENDS Integers, Sequences

CONSTANTS
  Threads,  \* the threads that share the Lifo
  Nodes,    \* the Lifo::Node objects
  NULL,
  SyncMod   \* sync counts modulo SyncMod: 2^32 on i386, 2^64 on x86_64

ASSUME NullAssumption == NULL \notin Nodes
ASSUME SyncAssumption == SyncMod \in Nat \ {0, 1}

VARIABLES
  arch,     \* which of the two bodies was compiled in
  head,     \* Lifo::head
  sync,     \* Lifo::sync
  next,     \* next[n] is n->next
  pc,       \* pc[t] is the next instruction of thread t
  op,       \* op[t] is the method thread t is in
  node,     \* node[t] is the argument of t's push (register rbx)
  rax, rdx, \* the expected pair (head, sync) of thread t
  rbx,      \* the new head of t's pop
  held,     \* held[t] is the set of nodes that t's caller owns
  stack     \* history: the nodes pushed and not popped, the top last

regs == <<node, rax, rdx, rbx>>
vars == <<arch, head, sync, next, pc, op, node, rax, rdx, rbx, held, stack>>

Pushes == {"push", "tryPush"}
Pops   == {"pop", "tryPop"}
Busy   == {"load_head", "load_sync", "store_next", "load_next", "cas"}

\* The instructions before which thread t holds a value of sync in rdx.
Snapshot == {"store_next", "load_next", "cas"}

Elements(s) == {s[i] : i \in 1..Len(s)}

Inc(s) == IF s = SyncMod - 1 THEN 0 ELSE s + 1

-----------------------------------------------------------------------------
Init == /\ arch \in {"i386", "x86_64"}
        /\ head = NULL
        /\ sync = 0
        /\ next = [n \in Nodes |-> NULL]
        /\ pc = [t \in Threads |-> "idle"]
        /\ op = [t \in Threads |-> "none"]
        /\ node = [t \in Threads |-> NULL]
        /\ rax = [t \in Threads |-> NULL]
        /\ rdx = [t \in Threads |-> 0]
        /\ rbx = [t \in Threads |-> NULL]
        /\ held \in [Threads -> SUBSET Nodes]
        /\ UNION {held[t] : t \in Threads} = Nodes
        /\ \A t, u \in Threads : t # u => held[t] \cap held[u] = {}
        /\ stack = <<>>

\* The registers of a thread outside the methods hold nothing of interest.
Return(t) == /\ pc' = [pc EXCEPT ![t] = "idle"]
             /\ op' = [op EXCEPT ![t] = "none"]
             /\ node' = [node EXCEPT ![t] = NULL]
             /\ rax' = [rax EXCEPT ![t] = NULL]
             /\ rdx' = [rdx EXCEPT ![t] = 0]
             /\ rbx' = [rbx EXCEPT ![t] = NULL]

\* A caller that owns n calls push(n) or tryPush(n).
CallPush(t) ==
  /\ pc[t] = "idle"
  /\ \E n \in held[t], m \in Pushes :
       /\ node' = [node EXCEPT ![t] = n]
       /\ op' = [op EXCEPT ![t] = m]
  /\ pc' = [pc EXCEPT ![t] = "load_head"]
  /\ UNCHANGED <<arch, head, sync, next, rax, rdx, rbx, held, stack>>

CallPop(t) ==
  /\ pc[t] = "idle"
  /\ \E m \in Pops : op' = [op EXCEPT ![t] = m]
  /\ pc' = [pc EXCEPT ![t] = "load_head"]
  /\ UNCHANGED <<arch, head, sync, next, regs, held, stack>>

\* rax = lifo->head
LoadHead(t) ==
  /\ pc[t] = "load_head"
  /\ rax' = [rax EXCEPT ![t] = head]
  /\ pc' = [pc EXCEPT ![t] = "load_sync"]
  /\ UNCHANGED <<arch, head, sync, next, op, node, rdx, rbx, held, stack>>

\* rdx = lifo->sync
LoadSync(t) ==
  /\ pc[t] = "load_sync"
  /\ rdx' = [rdx EXCEPT ![t] = sync]
  /\ pc' = [pc EXCEPT ![t] = IF op[t] \in Pushes THEN "store_next" ELSE "load_next"]
  /\ UNCHANGED <<arch, head, sync, next, op, node, rax, rbx, held, stack>>

\* node->next = rax
StoreNext(t) ==
  /\ pc[t] = "store_next"
  /\ next' = [next EXCEPT ![node[t]] = rax[t]]
  /\ pc' = [pc EXCEPT ![t] = "cas"]
  /\ UNCHANGED <<arch, head, sync, op, regs, held, stack>>

\* rbx = rax->next.  The node may have left the stack since rax was loaded,
\* and its owner may be about to overwrite its next.
LoadNext(t) ==
  /\ pc[t] = "load_next"
  /\ rax[t] # NULL
  /\ rbx' = [rbx EXCEPT ![t] = next[rax[t]]]
  /\ pc' = [pc EXCEPT ![t] = "cas"]
  /\ UNCHANGED <<arch, head, sync, next, op, node, rax, rdx, held, stack>>

\* The loaded head was 0: bail, and return NULL to the caller.
BailEmpty(t) ==
  /\ pc[t] = "load_next"
  /\ rax[t] = NULL
  /\ Return(t)
  /\ UNCHANGED <<arch, head, sync, next, held, stack>>

\* Broken variants: only one of the two words is compared.
UnchangedHead(t) == rax[t] = head
UnchangedSync(t) == rdx[t] = sync

\* What lock cmpxchg8b / cmpxchg16b compares.
Unchanged(t) == rax[t] = head /\ rdx[t] = sync

\* Bound on the counter: sync does not come all the way round, back to the
\* value in the snapshot of a thread that has been stalled all that time.
NotLapped(t) == \A u \in Threads \ {t} : pc[u] \in Snapshot => rdx[u] # Inc(sync)

\* Broken variant: a push installs the new head and leaves sync as it was.
CasPushSameSync(t) ==
  /\ pc[t] = "cas"
  /\ op[t] \in Pushes
  /\ Unchanged(t)
  /\ head' = node[t]
  /\ stack' = Append(stack, node[t])
  /\ held' = [held EXCEPT ![t] = @ \ {node[t]}]
  /\ Return(t)
  /\ UNCHANGED <<arch, sync, next>>

CasPush(t) ==
  /\ pc[t] = "cas"
  /\ op[t] \in Pushes
  /\ Unchanged(t)
  /\ NotLapped(t)
  /\ head' = node[t]
  /\ sync' = Inc(sync)
  /\ stack' = Append(stack, node[t])
  /\ held' = [held EXCEPT ![t] = @ \ {node[t]}]
  /\ Return(t)
  /\ UNCHANGED <<arch, next>>

CasPop(t) ==
  /\ pc[t] = "cas"
  /\ op[t] \in Pops
  /\ Unchanged(t)
  /\ NotLapped(t)
  /\ head' = rbx[t]
  /\ sync' = Inc(sync)
  /\ stack' = SubSeq(stack, 1, Len(stack) - 1)
  /\ held' = [held EXCEPT ![t] = @ \cup {rax[t]}]
  /\ Return(t)
  /\ UNCHANGED <<arch, next>>

\* Broken variant: a refused cmpxchg leaves rdx:rax as they were.
ReloadNothing(t) == UNCHANGED <<rax, rdx>>

\* A refused cmpxchg leaves the current pair in rdx:rax.
Reload(t) == /\ rax' = [rax EXCEPT ![t] = head]
             /\ rdx' = [rdx EXCEPT ![t] = sync]

\* Broken variant: push retries after its store to node->next.
RetryAtCas(m) == IF m = "push" THEN "cas" ELSE "load_head"

\* push tries again from label 0 with the pair just loaded; so does the pop
\* of i386.  The pop of x86_64 has its label before the two loads.
RetryAt(m) == IF m = "push" THEN "store_next"
              ELSE IF arch = "i386" THEN "load_next" ELSE "load_head"

CasFails(t) ==
  /\ pc[t] = "cas"
  /\ op[t] \in {"push", "pop"}
  /\ ~ Unchanged(t)
  /\ Reload(t)
  /\ pc' = [pc EXCEPT ![t] = RetryAt(op[t])]
  /\ UNCHANGED <<arch, head, sync, next, op, node, rbx, held, stack>>

\* tryPush and tryPop return with success = 0: the caller of tryPush keeps
\* its node, and the head that tryPop returns in rax is not the caller's.
TryFails(t) ==
  /\ pc[t] = "cas"
  /\ op[t] \in {"tryPush", "tryPop"}
  /\ ~ Unchanged(t)
  /\ Return(t)
  /\ UNCHANGED <<arch, head, sync, next, held, stack>>

\* A step of a thread inside a method.
Step(t) == \/ LoadHead(t) \/ LoadSync(t) \/ StoreNext(t)
           \/ LoadNext(t) \/ BailEmpty(t)
           \/ CasPush(t) \/ CasPop(t) \/ CasFails(t) \/ TryFails(t)

Next == \E t \in Threads : CallPush(t) \/ CallPop(t) \/ Step(t)

Spec == Init /\ [][Next]_vars

\* The only fairness lock-freedom needs: while some thread is inside a method
\* the machine runs one of them.  Any given thread may be stalled for ever.
FairSpec == Spec /\ WF_vars(\E t \in Threads : Step(t))

-----------------------------------------------------------------------------
(* Properties.                                                             *)

\* Every variable keeps its type; sync stays within its machine word.
TypeOK == /\ arch \in {"i386", "x86_64"}
          /\ head \in Nodes \cup {NULL}
          /\ sync \in 0..(SyncMod - 1)
          /\ next \in [Nodes -> Nodes \cup {NULL}]
          /\ pc \in [Threads -> Busy \cup {"idle"}]
          /\ op \in [Threads -> Pushes \cup Pops \cup {"none"}]
          /\ node \in [Threads -> Nodes \cup {NULL}]
          /\ rax \in [Threads -> Nodes \cup {NULL}]
          /\ rdx \in [Threads -> 0..(SyncMod - 1)]
          /\ rbx \in [Threads -> Nodes \cup {NULL}]
          /\ held \in [Threads -> SUBSET Nodes]
          /\ stack \in Seq(Nodes)

\* A node is owned by at most one caller, is not owned while it is in the
\* stack, and is in the stack once: no pop hands out a node twice.
Exclusive ==
  /\ \A t, u \in Threads : t # u => held[t] \cap held[u] = {}
  /\ \A t \in Threads : held[t] \cap Elements(stack) = {}
  /\ \A i, j \in 1..Len(stack) : stack[i] = stack[j] => i = j

\* The list that starts at head and follows next is exactly the stack of the
\* nodes pushed and not popped: none is lost and the order is last in first out.
Linked ==
  /\ head = IF stack = <<>> THEN NULL ELSE stack[Len(stack)]
  /\ \A i \in 1..Len(stack) :
       next[stack[i]] = IF i = 1 THEN NULL ELSE stack[i - 1]

\* The node a thread pushes is its caller's own, and the registers a method
\* relies on agree with its method: what makes the invariants above inductive.
InMethod ==
  \A t \in Threads :
    /\ pc[t] = "idle" <=> op[t] = "none"
    /\ op[t] \in Pushes => node[t] \in held[t]
    /\ pc[t] = "store_next" => op[t] \in Pushes
    /\ pc[t] = "load_next" => op[t] \in Pops
    /\ pc[t] = "cas" /\ op[t] \in Pops => rax[t] # NULL

\* A thread about to compare-and-swap with a snapshot that is still current has
\* read the next that is still current: the double-width compare-and-swap
\* refuses every stale read, whatever other threads did in between.
FreshSnapshot ==
  \A t \in Threads :
    /\ pc[t] = "cas" /\ op[t] \in Pushes => next[node[t]] = rax[t]
    /\ pc[t] = "cas" /\ op[t] \in Pops /\ Unchanged(t) => next[head] = rbx[t]

\* The Lifo implements the atomic stack: a push or a pop takes effect at its
\* successful compare-and-swap, and a pop that returns NULL at the load of head.
Stack == INSTANCE AtomicStack WITH
           empty <- [t \in Threads |-> /\ pc[t] \in {"load_sync", "load_next"}
                                       /\ op[t] \in Pops
                                       /\ rax[t] = NULL]
ImplementsAtomicStack == Stack!Spec

\* Lock-freedom: as long as some thread is inside a method, some method
\* completes, whichever threads are stalled and however the others interleave.
Completes == \E t \in Threads : pc[t] # "idle" /\ pc'[t] = "idle"
LockFree == \/ []<>(\A t \in Threads : pc[t] = "idle")
            \/ []<><<Completes>>_vars
=============================================================================
