----------------------------- MODULE FifoQueue -----------------------------
(***************************************************************************)
(* What a PQueue (src/container/pqueue.h) promises to its users once it    *)
(* holds an element: a first-in first-out queue whose push and front each  *)
(* take effect in one indivisible step, and of which front never takes the *)
(* last element (flush puts a dummy there).                                *)
(***************************************************************************)
EXTENDS Naturals, Sequences

CONSTANTS Consumers, Contents, First, NONE

VARIABLES
  queue,   \* the values in the queue, the oldest first
  got      \* got[t] is what t's last call of front returned, or NONE

vars == <<queue, got>>

Init == queue = <<First>> /\ got = [t \in Consumers |-> NONE]

Push == /\ \E v \in Contents : queue' = Append(queue, v)
        /\ UNCHANGED got

Front(t) == /\ Len(queue) > 1
            /\ got' = [got EXCEPT ![t] = Head(queue)]
            /\ queue' = Tail(queue)

\* front returns -1: there is nothing but the last element.
FrontFails(t) == /\ Len(queue) <= 1
                 /\ got' = [got EXCEPT ![t] = NONE]
                 /\ UNCHANGED queue

Next == Push \/ \E t \in Consumers : Front(t) \/ FrontFails(t)

Spec == Init /\ [][Next]_vars
=============================================================================
