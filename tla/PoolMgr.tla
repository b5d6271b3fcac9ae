------------------------------- MODULE PoolMgr -------------------------------
(***************************************************************************)
(* The thread pool of src/framework/shining_pool.h over two resource       *)
(* stacks.  A client gets an element with pop, from the producer stack or  *)
(* newly allocated, fills it and hands it to the workers with push, into   *)
(* the consumer stack.  A worker pops it there, processes it and pushes it *)
(* back to the producer stack.  A client may as well push an element that  *)
(* it has made itself, as the use case in the header does.                 *)
(*                                                                         *)
(* init gives the consumer stack as many holders as the pool size; the     *)
(* producer stack gets its holders one by one, from produce.               *)
(***************************************************************************)
EXTENDS ResourceStack, Integers, FiniteSets

CONSTANTS
  Clients, Workers,
  Own,        \* the elements that clients make themselves
  PoolSize    \* the argument of init

ASSUME PoolAssumption ==
  /\ PoolSize \in Nat
  /\ Stacks = {"producer", "consumer"}
  /\ Threads = Clients \cup Workers /\ Clients \cap Workers = {} /\ IsFiniteSet(Threads)
  /\ IsFiniteSet(Resources) /\ IsFiniteSet(Holders) /\ Holders \cap Resources = {}
  /\ IsFiniteSet(Own) /\ Own \cap (Holders \cup Resources \cup {NULL}) = {}

VARIABLES
  p_size,     \* _p_size
  tmp,        \* tmp[c] is the value of _p_size that client c decrements
  mine,       \* mine[c] is the set of elements that client c owns
  lost,       \* history: the elements that a worker could not give back
  alive,      \* _alive
  main        \* where the thread that calls start, stop and wait is

poolVars == <<p_size, tmp, mine, lost, alive, main>>
vars == <<stackVars, pc, p_size, tmp, mine, lost, alive, main>>

Elements == Resources \cup Own

-----------------------------------------------------------------------------
\* The state after init: consumer->create(PoolSize) has made its holders, whose
\* pointers it leaves uninitialised.  Every element of Own is with some client.
Init == /\ \E hs \in SUBSET Holders :
             /\ Cardinality(hs) = PoolSize
             /\ made = hs
             /\ \E p \in [hs -> Elements \cup {NULL}] :
                  slot = [h \in Holders |-> IF h \in hs THEN p[h] ELSE NULL]
             /\ \E q \in [1..PoolSize -> hs] :
                  /\ \A i, j \in 1..PoolSize : q[i] = q[j] => i = j
                  /\ empty = [s \in Stacks |-> IF s = "consumer" THEN q ELSE <<>>]
        /\ aviable = [s \in Stacks |-> <<>>]
        /\ produced = {} /\ leaked = {} /\ freed = {}
        /\ pc = [t \in Threads |-> IF t \in Workers THEN "new" ELSE "idle"]
        /\ hoder = [t \in Threads |-> NULL]
        /\ elem = [t \in Threads |-> NULL]
        /\ p_size = PoolSize
        /\ tmp = [c \in Clients |-> 0]
        /\ \E maker \in [Own -> Clients] : mine = [c \in Clients |-> {e \in Own : maker[e] = c}]
        /\ lost = {}
        /\ alive = FALSE
        /\ main = "init"

\* --- PoolMgr::pop, by a client ------------------------------------------
CallPop(c) == /\ pc[c] = "idle" /\ main # "deleted"
              /\ Goto(c, "pop")
              /\ UNCHANGED <<stackVars, poolVars>>

\* _producer_pool->pop() finds an element, and pop returns it.
Pop(c) == /\ \/ PopTake(c, "producer", "pop", "pop_put", "check")
             \/ PopPut(c, "producer", "pop_put", "got")
          /\ UNCHANGED poolVars

\* _p_size > 0 is tested here and decremented only at the end.
Check(c) == /\ pc[c] = "check"
            /\ Goto(c, IF p_size > 0 THEN "force" ELSE "got")
            /\ UNCHANGED <<stackVars, poolVars>>

\* force_pop() tries pop again and produces an element if there still is none.
ForcePop(c) == /\ \/ PopTake(c, "producer", "force", "force_put", "produce")
                  \/ PopPut(c, "producer", "force_put", "load")
                  \/ Produce(c, "producer", "produce", "load")
                  \/ ProduceFails(c, "producer", "produce", "load")
               /\ UNCHANGED poolVars

\* -- _p_size, which is not atomic and is done whatever force_pop returned.
LoadSize(c) == /\ pc[c] = "load"
               /\ tmp' = [tmp EXCEPT ![c] = p_size]
               /\ Goto(c, "store")
               /\ UNCHANGED <<stackVars, p_size, mine, lost, alive, main>>

StoreSize(c) == /\ pc[c] = "store"
                /\ p_size' = tmp[c] - 1
                /\ tmp' = [tmp EXCEPT ![c] = 0]
                /\ Goto(c, "got")
                /\ UNCHANGED <<stackVars, mine, lost, alive, main>>

\* pop returns an element or NULL to the client.
Return(c) == /\ pc[c] = "got"
             /\ mine' = [mine EXCEPT ![c] = @ \cup ({elem[c]} \ {NULL})]
             /\ elem' = [elem EXCEPT ![c] = NULL]
             /\ Goto(c, "idle")
             /\ UNCHANGED <<aviable, empty, slot, made, produced, leaked, freed, hoder,
                            p_size, tmp, lost, alive, main>>

\* --- PoolMgr::push, by a client, of an element it got from pop or has made ----
CallPush(c) == /\ pc[c] = "idle" /\ main # "deleted"
               /\ \E e \in mine[c] :
                    /\ elem' = [elem EXCEPT ![c] = e]
                    /\ mine' = [mine EXCEPT ![c] = @ \ {e}]
               /\ Goto(c, "push")
               /\ UNCHANGED <<aviable, empty, slot, made, produced, leaked, freed, hoder,
                              p_size, tmp, lost, alive, main>>

\* A refused element stays with the client.
Push(c) == /\ \/ PushTake(c, "consumer", "push", "push_put", "got")
              \/ PushPut(c, "consumer", "push_put", "idle")
           /\ UNCHANGED poolVars

\* --- thread_fun -----------------------------------------------------------
\* make_thread_data() succeeds or fails.
WorkerStarts(w) == /\ pc[w] = "created"
                   /\ \E l \in {"loop", "exited"} : Goto(w, l)
                   /\ UNCHANGED <<stackVars, poolVars>>

\* Broken variant: the worker does not look at _alive.
GoesOnAlways == TRUE

GoesOn == alive

WorkerLoop(w) == /\ pc[w] = "loop"
                 /\ Goto(w, IF GoesOn THEN "take" ELSE "exited")
                 /\ UNCHANGED <<stackVars, poolVars>>

\* An element is taken from the consumer stack, processed and pushed to the
\* producer stack.
WorkerWork(w) == /\ \/ PopTake(w, "consumer", "take", "take_put", "loop")
                    \/ PopPut(w, "consumer", "take_put", "recycle")
                    \/ PushTake(w, "producer", "recycle", "recycle_put", "refused")
                    \/ PushPut(w, "producer", "recycle_put", "loop")
                 /\ UNCHANGED poolVars

\* The result of that push is ignored: a worker whose element was refused goes round its
\* loop, and nothing points to the element any more.
WorkerDrops(w) == /\ pc[w] = "refused"
                  /\ lost' = lost \cup {elem[w]}
                  /\ elem' = [elem EXCEPT ![w] = NULL]
                  /\ Goto(w, "loop")
                  /\ UNCHANGED <<aviable, empty, slot, made, produced, leaked, freed, hoder,
                                 p_size, tmp, mine, alive, main>>

\* --- start, stop, wait ------------------------------------------------------
Start == /\ main = "init"
         /\ alive' = TRUE
         /\ pc' = [t \in Threads |-> IF t \in Workers THEN "created" ELSE pc[t]]
         /\ main' = "started"
         /\ UNCHANGED <<stackVars, p_size, tmp, mine, lost>>

Stop == /\ main = "started"
        /\ alive' = FALSE
        /\ main' = "stopped"
        /\ UNCHANGED <<stackVars, pc, p_size, tmp, mine, lost>>

\* wait has joined every worker.
Joined == /\ main \in {"started", "stopped"}
          /\ \A w \in Workers : pc[w] = "exited"
          /\ main' = "joined"
          /\ UNCHANGED <<stackVars, pc, p_size, tmp, mine, lost, alive>>

\* ~PoolMgr, of a pool that was never started or whose workers have been joined, and
\* that no client is using: both stacks are destroyed.  Elements that clients own
\* stay with them.
Delete == /\ main \in {"init", "joined"}
          /\ \A c \in Clients : pc[c] = "idle"
          /\ Destroy
          /\ main' = "deleted"
          /\ UNCHANGED <<pc, p_size, tmp, mine, lost, alive>>

\* Nothing happens to a deleted pool.
Deleted == main = "deleted" /\ UNCHANGED vars

ClientStep(c) == \/ Pop(c) \/ Check(c) \/ ForcePop(c) \/ LoadSize(c) \/ StoreSize(c)
                 \/ Return(c) \/ Push(c)
WorkerStep(w) == WorkerStarts(w) \/ WorkerLoop(w) \/ WorkerWork(w) \/ WorkerDrops(w)

Next == \/ \E c \in Clients : CallPop(c) \/ CallPush(c) \/ ClientStep(c)
        \/ \E w \in Workers : WorkerStep(w)
        \/ Start \/ Stop \/ Joined \/ Delete \/ Deleted
Spec == Init /\ [][Next]_vars

\* The scheduler runs the workers, and the thread that has called wait.
FairSpec == Spec /\ (\A w \in Workers : WF_vars(WorkerStep(w))) /\ WF_vars(Joined)

-----------------------------------------------------------------------------
(* Properties.                                                             *)

\* The elements there are: what the clients have made and what produce has returned, but
\* for those that were lost.
Live == ((produced \ leaked) \cup Own) \ lost

\* The holders that carry an element: those in _aviable, and those that a push has filled
\* and has not yet put there.  What the pointer of another one holds is never used.
Full == Inside(aviable) \cup {hoder[t] : t \in {u \in Threads : pc[u] \in {"push_put", "recycle_put"}}}

\* Every element is in one place: with a client, in a thread's hands, in a holder, or
\* deleted with the pool.  Two threads never process one element, the pool is not
\* deleted with an element that is in use, and only the elements that produce forgets
\* when it has no memory for their holder, and those that a worker drops because the
\* producer stack has refused them, are in no place.
OnePlace ==
  \A e \in produced \cup Own :
      Cardinality({c \in Clients : e \in mine[c]})
    + Cardinality({t \in Threads : elem[t] = e})
    + Cardinality({h \in Full : slot[h] = e})
    + Cardinality({e} \cap freed)
    = IF e \in Live THEN 1 ELSE 0

\* Every holder is in one place, and deleted with the pool.  In whatever steps of push
\* and pop the threads are, none changes sides: the consumer stack has as many as init
\* has given it, and the producer stack one for every element that produce has returned.
HoldersKept ==
  LET In(f, h) == {p \in UNION {{s} \X DOMAIN f[s] : s \in Stacks} : f[p[1]][p[2]] = h}
      Held(places) == Cardinality({t \in Threads : pc[t] \in places})
  IN  /\ \A h \in made :
           Cardinality(In(aviable, h)) + Cardinality(In(empty, h))
             + Cardinality({t \in Threads : hoder[t] = h}) + Cardinality({h} \cap freed) = 1
      /\ main # "deleted" =>
           /\ Len(empty["consumer"]) + Len(aviable["consumer"])
                + Held({"push_put", "take_put"}) = PoolSize
           /\ Len(empty["producer"]) + Len(aviable["producer"])
                + Held({"pop_put", "force_put", "recycle_put"}) = Cardinality(produced \ leaked)

\* The workers, which ignore the result of giving an element back, lose no more elements
\* than the clients have made themselves, however the elements are mixed; a pool whose
\* clients push what they have popped loses none.
LossBound == Cardinality(lost) <= Cardinality(Own)

\* push refuses an element only if there are more elements than the pool was to have.
RefusedOnlyWhenExtended ==
  \A c \in Clients : pc[c] = "push" /\ empty["consumer"] = <<>>
                        => Cardinality(Live) > PoolSize

\* wait returns once stop has been called.
StopJoins == main = "stopped" ~> main = "joined"

\* The pool never allocates more elements than the pool size given to init.
MemoryBound == Cardinality(produced) <= PoolSize

=============================================================================
