------------------------------- MODULE PQueue -------------------------------
(***************************************************************************)
(* The linked queue of src/container/pqueue.h.  Producers and consumers    *)
(* use two different mutexes: push writes tail and the next of the last    *)
(* node under the write lock, front reads tail and writes head.next under  *)
(* the read lock, and size is updated outside both with atomic additions.  *)
(*                                                                         *)
(* A node freed by front may be handed out again by the next allocation.   *)
(* Releasing a mutex is part of the last step of its critical section.     *)
(*                                                                         *)
(* Stores become visible in program order, as on x86.                      *)
(***************************************************************************)
EXTENDS Integers, Sequences, FiniteSets

CONSTANTS
  Producers, Consumers,
  Nodes,      \* the memory for QueueNodes
  Values,     \* what producers push
  First,      \* what the push before the start of the threads put in the queue
  DUMMY,      \* the value of the node that flush pushes
  HEAD,       \* the embedded node PQueue::head
  NULL,
  Length,     \* the argument of reserve
  SizeMod     \* size is counted modulo SizeMod (2^32)

Threads == Producers \cup Consumers

\* Somebody pushes, and there are fewer threads than size can count beyond the
\* reserved length.
ASSUME PQueueAssumption ==
  /\ Producers \cap Consumers = {} /\ IsFiniteSet(Producers) /\ IsFiniteSet(Consumers)
  /\ Producers # {}
  /\ NULL \notin Nodes \cup Threads /\ HEAD \notin Nodes \cup {NULL}
  /\ Length \in Nat /\ SizeMod \in Nat
  /\ Length + Cardinality(Producers) + Cardinality(Consumers) + 1 < SizeMod

VARIABLES
  next,       \* next[n] is n->next, for the nodes and for HEAD
  val,        \* val[n] is n->val
  alive,      \* the nodes that are allocated
  tail, size, flushed,
  wlock, rlock, \* the owner of each mutex, or NULL
  pc,
  arg,        \* arg[t] is the value that producer t is to push, DUMMY otherwise
  ptr,        \* ptr[t] is qn in push, p in front
  got,        \* got[t] is what consumer t's last front returned, or NULL
  closing,    \* flush has been called
  queue       \* history: the nodes pushed and not taken, the oldest first

vars == <<next, val, alive, tail, size, flushed, wlock, rlock, pc, arg, ptr, got,
          closing, queue>>

Goto(t, l) == pc' = [pc EXCEPT ![t] = l]

-----------------------------------------------------------------------------
\* The constructor and reserve(Length).
Init == /\ next = [n \in Nodes \cup {HEAD} |-> NULL]
        /\ val = [n \in Nodes |-> DUMMY]
        /\ alive = {}
        /\ tail = HEAD
        /\ size = 0
        /\ flushed = FALSE
        /\ wlock = NULL /\ rlock = NULL
        /\ pc = [t \in Threads |-> "idle"]
        /\ arg = [t \in Producers |-> DUMMY]
        /\ ptr = [t \in Threads |-> NULL]
        /\ got = [t \in Consumers |-> NULL]
        /\ closing = FALSE
        /\ queue = <<>>

\* The state after one push, made before the other threads are started.
PrimedInit == \E n \in Nodes :
        /\ next = [m \in Nodes \cup {HEAD} |-> IF m = HEAD THEN n ELSE NULL]
        /\ val = [m \in Nodes |-> IF m = n THEN First ELSE DUMMY]
        /\ alive = {n}
        /\ tail = n
        /\ size = 1
        /\ flushed = FALSE
        /\ wlock = NULL /\ rlock = NULL
        /\ pc = [t \in Threads |-> "idle"]
        /\ arg = [t \in Producers |-> DUMMY]
        /\ ptr = [t \in Threads |-> NULL]
        /\ got = [t \in Consumers |-> NULL]
        /\ closing = FALSE
        /\ queue = <<n>>

\* Broken variants: room and locks are not waited for, the last node is not spared,
\* and size is not decremented, or not below zero.
HasRoomAlways  == TRUE
FreeAlways(lock) == TRUE
IsLastNull(p)  == p = NULL
LessNot(n)     == n
LessClamped(n) == IF n = 0 THEN 0 ELSE n - 1

HasRoom    == size <= Length
Free(lock) == lock = NULL
IsLast(p)  == p \in {tail, NULL}
Less(n)    == (n - 1) % SizeMod

\* try_push(v) starts to wait for room.
CallTryPush(t) ==
  /\ pc[t] = "idle"
  /\ ~ closing
  /\ \E v \in Values : arg' = [arg EXCEPT ![t] = v]
  /\ Goto(t, "wait")
  /\ UNCHANGED <<next, val, alive, tail, size, flushed, wlock, rlock, ptr, got, closing, queue>>

\* try_push leaves its loop when it reads a size within the reserved length.
Room(t) ==
  /\ pc[t] = "wait"
  /\ HasRoom
  /\ Goto(t, "new")
  /\ UNCHANGED <<next, val, alive, tail, size, flushed, wlock, rlock, arg, ptr, got, closing, queue>>

\* flush pushes the dummy without waiting for room.  It is called once, by a
\* producer, after the other producers have returned from their last push.
CallFlush(t) ==
  /\ ~ closing
  /\ \A u \in Producers : pc[u] = "idle"
  /\ closing' = TRUE
  /\ arg' = [arg EXCEPT ![t] = DUMMY]
  /\ Goto(t, "new")
  /\ UNCHANGED <<next, val, alive, tail, size, flushed, wlock, rlock, ptr, got, queue>>

\* flush sets flushed once push has returned, whatever it returned.
AfterPush(t) == Goto(t, IF closing THEN "flush" ELSE "idle")

\* push: qn = new QueueNode, qn->val = x
New(t) ==
  /\ pc[t] = "new"
  /\ \E n \in Nodes \ alive :
       /\ alive' = alive \cup {n}
       /\ val' = [val EXCEPT ![n] = arg[t]]
       /\ next' = [next EXCEPT ![n] = NULL]
       /\ ptr' = [ptr EXCEPT ![t] = n]
  /\ arg' = [arg EXCEPT ![t] = DUMMY]
  /\ Goto(t, "lock")
  /\ UNCHANGED <<tail, size, flushed, wlock, rlock, got, closing, queue>>

\* The allocation fails, and push returns -1.
NewFails(t) ==
  /\ pc[t] = "new"
  /\ arg' = [arg EXCEPT ![t] = DUMMY]
  /\ AfterPush(t)
  /\ UNCHANGED <<next, val, alive, tail, size, flushed, wlock, rlock, ptr, got, closing, queue>>

WriteLock(t) ==
  /\ pc[t] = "lock"
  /\ Free(wlock)
  /\ wlock' = t
  /\ Goto(t, "set_next")
  /\ UNCHANGED <<next, val, alive, tail, size, flushed, rlock, arg, ptr, got, closing, queue>>

\* tail->next = qn
SetNext(t) ==
  /\ pc[t] = "set_next"
  /\ next' = [next EXCEPT ![tail] = ptr[t]]
  /\ Goto(t, "set_tail")
  /\ UNCHANGED <<val, alive, tail, size, flushed, wlock, rlock, arg, ptr, got, closing, queue>>

\* tail = qn, and the write lock is released.
SetTail(t) ==
  /\ pc[t] = "set_tail"
  /\ tail' = ptr[t]
  /\ queue' = Append(queue, ptr[t])
  /\ ptr' = [ptr EXCEPT ![t] = NULL]
  /\ wlock' = NULL
  /\ Goto(t, "add")
  /\ UNCHANGED <<next, val, alive, size, flushed, rlock, arg, got, closing>>

\* AtomicAdd(&size, 1)
AddSize(t) ==
  /\ pc[t] = "add"
  /\ size' = (size + 1) % SizeMod
  /\ AfterPush(t)
  /\ UNCHANGED <<next, val, alive, tail, flushed, wlock, rlock, arg, ptr, got, closing, queue>>

SetFlushed(t) ==
  /\ pc[t] = "flush"
  /\ flushed' = TRUE
  /\ Goto(t, "idle")
  /\ UNCHANGED <<next, val, alive, tail, size, wlock, rlock, arg, ptr, got, closing, queue>>

\* front takes the read lock.
CallFront(t) ==
  /\ pc[t] = "idle"
  /\ Free(rlock)
  /\ rlock' = t
  /\ Goto(t, "read_head")
  /\ UNCHANGED <<next, val, alive, tail, size, flushed, wlock, arg, ptr, got, closing, queue>>

\* p = head.next
ReadHead(t) ==
  /\ pc[t] = "read_head"
  /\ ptr' = [ptr EXCEPT ![t] = next[HEAD]]
  /\ Goto(t, "check")
  /\ UNCHANGED <<next, val, alive, tail, size, flushed, wlock, rlock, arg, got, closing, queue>>

\* front returns -1: p is the last node, or there is none.
FrontFails(t) ==
  /\ pc[t] = "check"
  /\ IsLast(ptr[t])
  /\ ptr' = [ptr EXCEPT ![t] = NULL]
  /\ got' = [got EXCEPT ![t] = NULL]
  /\ rlock' = NULL
  /\ Goto(t, "idle")
  /\ UNCHANGED <<next, val, alive, tail, size, flushed, wlock, arg, closing, queue>>

FrontFinds(t) ==
  /\ pc[t] = "check"
  /\ ~ IsLast(ptr[t])
  /\ Goto(t, "unlink")
  /\ UNCHANGED <<next, val, alive, tail, size, flushed, wlock, rlock, arg, ptr, got, closing, queue>>

\* head.next = p->next, and the read lock is released.
Unlink(t) ==
  /\ pc[t] = "unlink"
  /\ next' = [next EXCEPT ![HEAD] = next[ptr[t]]]
  /\ queue' = IF queue = <<>> THEN <<>> ELSE Tail(queue)
  /\ rlock' = NULL
  /\ Goto(t, "take")
  /\ UNCHANGED <<val, alive, tail, size, flushed, wlock, arg, ptr, got, closing>>

\* t = p->val; delete p.  What a freed node holds does not matter.
Take(t) ==
  /\ pc[t] = "take"
  /\ got' = [got EXCEPT ![t] = val[ptr[t]]]
  /\ alive' = alive \ {ptr[t]}
  /\ val' = [val EXCEPT ![ptr[t]] = DUMMY]
  /\ next' = [next EXCEPT ![ptr[t]] = NULL]
  /\ ptr' = [ptr EXCEPT ![t] = NULL]
  /\ Goto(t, "sub")
  /\ UNCHANGED <<tail, size, flushed, wlock, rlock, arg, closing, queue>>

\* AtomicSub(&size, 1)
SubSize(t) ==
  /\ pc[t] = "sub"
  /\ size' = Less(size)
  /\ Goto(t, "idle")
  /\ UNCHANGED <<next, val, alive, tail, flushed, wlock, rlock, arg, ptr, got, closing, queue>>

\* Broken variant: one element is taken for the dummy.
all_popedEarly == flushed /\ size <= 2

all_poped == flushed /\ size = 1

\* The nodes that ~PQueue, which deletes the first one, leaves allocated.
LeftBehind == alive \ {next[HEAD]}

PushStep(t) == \/ Room(t) \/ New(t) \/ NewFails(t) \/ WriteLock(t) \/ SetNext(t)
               \/ SetTail(t) \/ AddSize(t) \/ SetFlushed(t)

FrontStep(t) == \/ ReadHead(t) \/ FrontFails(t) \/ FrontFinds(t) \/ Unlink(t)
                \/ Take(t) \/ SubSize(t)

Next == \/ \E t \in Producers : CallTryPush(t) \/ CallFlush(t) \/ PushStep(t)
        \/ \E t \in Consumers : CallFront(t) \/ FrontStep(t)

Spec == Init /\ [][Next]_vars

PrimedSpec == PrimedInit /\ [][Next]_vars

\* Every thread inside a call is run; the consumers go on calling front, and some
\* call gets the read lock when it is free.  Producers may never call.
FairSpec == /\ PrimedSpec
            /\ \A t \in Producers : WF_vars(PushStep(t))
            /\ \A t \in Consumers : WF_vars(FrontStep(t))
            /\ WF_vars(\E t \in Consumers : CallFront(t))
-----------------------------------------------------------------------------
(* Properties.                                                             *)

\* The queue is usable from its construction on: the first push leaves a tail
\* that the next push may write through.
TailLive == tail \in alive \cup {HEAD}

\* No freed node is reached: tail, through which the next push writes, is the
\* embedded head or an allocated node, and so is every node a thread works on.
NoUseAfterFree ==
  /\ TailLive
  /\ \A t \in Threads : pc[t] \in {"lock", "set_next", "set_tail", "unlink", "take"}
                           => ptr[t] \in alive

\* The list from head through next is the nodes pushed and not taken, in order,
\* and ends at tail; only a push between its two writes has linked one node more.
Linked ==
  /\ queue # <<>> /\ tail = queue[Len(queue)]
  /\ next[HEAD] = queue[1]
  /\ \A i \in 1..(Len(queue) - 1) : next[queue[i]] = queue[i + 1]
  /\ next[tail] = IF wlock # NULL /\ pc[wlock] = "set_tail" THEN ptr[wlock] ELSE NULL

\* size is the length of the queue up to the additions and subtractions that
\* are still to come; it runs below zero, to 2^32 - 1, when a node is taken
\* before its push has counted it.
SizeAccounts ==
  size = (Len(queue) - Cardinality({t \in Producers : pc[t] = "add"})
                     + Cardinality({t \in Consumers : pc[t] \in {"take", "sub"}}))
         % SizeMod

\* try_push tests size and pushes later, so the queue may outgrow the reserved
\* length, but by no more than one node per producer, and one for flush.
QueueBound ==
  Len(queue) <= Length + Cardinality(Producers) + (IF closing THEN 1 ELSE 0)

\* all_poped says that "only dummy node is left": once the dummy is in the queue,
\* no element is waiting behind a size of one.  The destructor relies on it: when it is
\* called after all_poped and all calls have returned, it leaves no node behind.
AllPoped ==
  /\ all_poped /\ (\E i \in 1..Len(queue) : val[queue[i]] = DUMMY)
       => Len(queue) = 1 /\ val[queue[1]] = DUMMY
  /\ all_poped /\ (\A t \in Threads : pc[t] = "idle") => LeftBehind = {}

\* A queue that holds an element is first in first out: front returns the oldest
\* value, and fails only when nothing but the last node is there.  Front takes
\* effect when it moves head.next.
Fifo == INSTANCE FifoQueue WITH
          Contents <- Values \cup {DUMMY}, NONE <- NULL,
          queue <- [i \in 1..Len(queue) |-> val[queue[i]]],
          got <- [t \in Consumers |-> IF pc[t] = "take" THEN val[ptr[t]] ELSE got[t]]
ImplementsFifo == Fifo!Spec

\* After flush the consumers drain the queue down to the last node, and all_poped
\* becomes and stays true.
Drained == flushed ~> []all_poped

=============================================================================
