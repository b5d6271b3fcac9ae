---------------------------- MODULE AtomicStack ----------------------------
(***************************************************************************)
(* What a Lifo (src/util/lifo.h) promises to the threads that share it: a  *)
(* stack whose push and pop each take effect in one indivisible step.      *)
(*                                                                         *)
(* A node is owned by a thread or is in the stack.  The top of the stack   *)
(* is its last element.  empty[t] says that a pop by thread t found the    *)
(* stack empty and has yet to return NULL to its caller.                   *)
(***************************************************************************)
EXTENDS Naturals, Sequences

CONSTANTS Threads, Nodes

VARIABLES stack, held, empty

vars == <<stack, held, empty>>

\* Any division of the nodes among the threads; nothing is in the stack.
Init == /\ stack = <<>>
        /\ held \in [Threads -> SUBSET Nodes]
        /\ UNION {held[t] : t \in Threads} = Nodes
        /\ \A t, u \in Threads : t # u => held[t] \cap held[u] = {}
        /\ empty = [t \in Threads |-> FALSE]

Push(t) == \E n \in held[t] :
             /\ stack' = Append(stack, n)
             /\ held' = [held EXCEPT ![t] = @ \ {n}]
             /\ UNCHANGED empty

Pop(t) == /\ stack # <<>>
          /\ stack' = SubSeq(stack, 1, Len(stack) - 1)
          /\ held' = [held EXCEPT ![t] = @ \cup {stack[Len(stack)]}]
          /\ UNCHANGED empty

\* The moment at which a pop that will return NULL takes effect.
FindEmpty(t) == /\ stack = <<>>
                /\ empty' = [empty EXCEPT ![t] = TRUE]
                /\ UNCHANGED <<stack, held>>

ReturnEmpty(t) == /\ empty[t]
                  /\ empty' = [empty EXCEPT ![t] = FALSE]
                  /\ UNCHANGED <<stack, held>>

Next == \E t \in Threads : Push(t) \/ Pop(t) \/ FindEmpty(t) \/ ReturnEmpty(t)

Spec == Init /\ [][Next]_vars
=============================================================================
