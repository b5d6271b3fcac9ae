---------------------------- MODULE ResourceStack ----------------------------
(***************************************************************************)
(* The thread-safe stack of src/container/resource_stack.h: resources are  *)
(* carried by holders, which move between two lock-free stacks, _aviable   *)
(* (with a resource) and _empty (without).                                 *)
(*                                                                         *)
(* Each push to and pop from a Lifo is one step: Lifo implements           *)
(* AtomicStack.  A push of a resource is therefore two steps, and so is a  *)
(* pop, and other threads may see both stacks in between.                  *)
(*                                                                         *)
(* The methods are written for any of several stacks and any place they    *)
(* are called from: pc[t] = l before the step and l' after it.             *)
(***************************************************************************)
EXTENDS Naturals, Sequences

CONSTANTS
  Stacks,     \* the ResourceStack objects
  Threads,
  Holders,    \* the memory for holders
  Resources,  \* the memory for resources
  NULL

ASSUME StackAssumption == NULL \notin Holders \cup Resources

VARIABLES
  aviable,    \* aviable[s] is the Lifo _aviable of stack s, the top last
  empty,      \* empty[s] is the Lifo _empty
  slot,       \* slot[h] is h->_p, which create leaves as new has found it
  made,       \* the holders that have been allocated
  produced,   \* the resources that have been allocated by a producer
  leaked,     \* history: those that produce has allocated and forgotten
  freed,      \* the holders and resources that destroy has deleted
  pc,
  hoder,      \* hoder[t] is the holder thread t has in hand, or NULL
  elem        \* elem[t] is the resource thread t has in hand, or NULL

\* What the methods change, apart from pc.
stackVars == <<aviable, empty, slot, made, produced, leaked, freed, hoder, elem>>

Goto(t, l) == pc' = [pc EXCEPT ![t] = l]

\* Broken variants: the holder of pop or of produce does not reach _empty.
GivenBackNot(s, h)    == empty
AnotherEmptyNot(s, h) == empty

\* push and pop of the Lifo f[s].
LifoPush(f, s, h) == [f EXCEPT ![s] = Append(@, h)]
LifoPop(f, s)     == [f EXCEPT ![s] = SubSeq(@, 1, Len(@) - 1)]
LifoTop(f, s)     == f[s][Len(f[s])]

\* hoder->_p = NULL, in pop and in produce.
Emptied(h) == [slot EXCEPT ![h] = NULL]

\* _empty.push(hoder), in pop and in produce.
GivenBack(s, h)    == LifoPush(empty, s, h)
AnotherEmpty(s, h) == LifoPush(empty, s, h)

\* push, first half: an empty holder is taken and filled with elem[t].  If there is
\* none push returns false, and elem[t] stays in its caller's hands.
PushTake(t, s, l, then, refused) ==
  /\ pc[t] = l
  /\ IF empty[s] = <<>>
     THEN Goto(t, refused) /\ UNCHANGED <<empty, slot, hoder, elem>>
     ELSE /\ hoder' = [hoder EXCEPT ![t] = LifoTop(empty, s)]
          /\ slot' = [slot EXCEPT ![LifoTop(empty, s)] = elem[t]]
          /\ empty' = LifoPop(empty, s)
          /\ elem' = [elem EXCEPT ![t] = NULL]
          /\ Goto(t, then)
  /\ UNCHANGED <<aviable, made, produced, leaked, freed>>

\* push, second half.
PushPut(t, s, l, then) ==
  /\ pc[t] = l
  /\ aviable' = LifoPush(aviable, s, hoder[t])
  /\ hoder' = [hoder EXCEPT ![t] = NULL]
  /\ Goto(t, then)
  /\ UNCHANGED <<empty, slot, made, produced, leaked, freed, elem>>

\* pop, first half: a holder is taken and its resource removed from it.  If there
\* is none pop returns NULL.
PopTake(t, s, l, then, nothing) ==
  /\ pc[t] = l
  /\ IF aviable[s] = <<>>
     THEN Goto(t, nothing) /\ UNCHANGED <<aviable, slot, hoder, elem>>
     ELSE /\ hoder' = [hoder EXCEPT ![t] = LifoTop(aviable, s)]
          /\ elem' = [elem EXCEPT ![t] = slot[LifoTop(aviable, s)]]
          /\ slot' = Emptied(LifoTop(aviable, s))
          /\ aviable' = LifoPop(aviable, s)
          /\ Goto(t, then)
  /\ UNCHANGED <<empty, made, produced, leaked, freed>>

\* pop, second half.
PopPut(t, s, l, then) ==
  /\ pc[t] = l
  /\ empty' = GivenBack(s, hoder[t])
  /\ hoder' = [hoder EXCEPT ![t] = NULL]
  /\ Goto(t, then)
  /\ UNCHANGED <<aviable, slot, made, produced, leaked, freed, elem>>

\* produce: a new resource, and a new empty holder for the day it is pushed.
Produce(t, s, l, then) ==
  /\ pc[t] = l
  /\ \E r \in Resources \ produced, h \in Holders \ made :
       /\ produced' = produced \cup {r}
       /\ made' = made \cup {h}
       /\ elem' = [elem EXCEPT ![t] = r]
       /\ slot' = Emptied(h)
       /\ empty' = AnotherEmpty(s, h)
  /\ Goto(t, then)
  /\ UNCHANGED <<aviable, leaked, freed, hoder>>

\* produce returns NULL: there is no memory for the resource, or none for the
\* holder, in which case the resource is forgotten.
ProduceFails(t, s, l, then) ==
  /\ pc[t] = l
  /\ \/ UNCHANGED <<produced, leaked>>
     \/ \E r \in Resources \ produced : /\ produced' = produced \cup {r}
                                         /\ leaked' = leaked \cup {r}
  /\ Goto(t, then)
  /\ UNCHANGED <<aviable, empty, slot, made, freed, hoder, elem>>

\* The holders in the Lifos f.
Inside(f) == UNION {{f[s][i] : i \in DOMAIN f[s]} : s \in Stacks}

\* Broken variant: destroy deletes what the holders of _empty point to as well.
ReleasedOfAll == {slot[h] : h \in Inside(aviable) \cup Inside(empty)}

\* The resources destroy deletes, those of the holders in _aviable.
Released == {slot[h] : h \in Inside(aviable)}

\* destroy, of all stacks: the holders are popped and deleted, and so is the resource
\* of those in _aviable.  No producer is bound, and the test of _producer is the wrong
\* way round, so the producer's destroy is called through NULL; it does not use its
\* object and deletes the resource.
Destroy ==
  /\ freed' = freed \cup Inside(empty) \cup Inside(aviable) \cup Released
  /\ aviable' = [s \in Stacks |-> <<>>]
  /\ empty' = [s \in Stacks |-> <<>>]
  /\ UNCHANGED <<slot, made, produced, leaked, hoder, elem>>
=============================================================================
