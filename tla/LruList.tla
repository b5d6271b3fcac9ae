------------------------------ MODULE LruList ------------------------------
(***************************************************************************)
(* What the LruCache of src/container/circle_cache.h promises: a bounded   *)
(* list of entries in the order of their last use, which gives up its      *)
(* least recently used entry to make room.                                 *)
(*                                                                         *)
(* The cache may hold more than one entry for an item; which of them a     *)
(* call uses, and whether a put adds one more, is left open here.          *)
(***************************************************************************)
EXTENDS Naturals, Sequences, SequencesExt

CONSTANTS Items, Values, NULL,
          Size      \* the number of entries there is room for

VARIABLES
  entries,  \* the least recently used entry first
  call      \* the last call and what it returned

vars == <<entries, call>>

Init == entries = <<>> /\ call = [op |-> "init", item |-> NULL, ret |-> "0"]

Called(op, x, r) == call' = [op |-> op, item |-> x, ret |-> r]

\* The list e without its least recently used entry, if it is full.
MakeRoom(e) == IF Len(e) = Size THEN Tail(e) ELSE e

\* put adds an entry, or changes one of x and makes it the last used.
Put(x) == /\ Called("put", x, "0")
          /\ LET e == entries
             IN  \E v \in Values[x] :
                   \/ entries' = Append(MakeRoom(e), [item |-> x, v |-> v])
                   \/ \E n \in 1..Len(e) :
                        /\ e[n].item = x
                        /\ entries' = Append(RemoveAt(e, n), [item |-> x, v |-> v])

PutFails(x) == Called("put", x, "-1") /\ UNCHANGED entries

\* get makes an entry of x the last used and returns its value.
GetHit(x) == \E r \in Values[x] :
               /\ Called("get", x, r)
               /\ LET e == entries
                  IN  \E n \in 1..Len(e) :
                        /\ e[n] = [item |-> x, v |-> r]
                        /\ entries' = Append(RemoveAt(e, n), e[n])

\* get finds nothing only if there is no entry of x.
GetMiss(x) == /\ Called("get", x, NULL)
              /\ \A n \in 1..Len(entries) : entries[n].item # x
              /\ UNCHANGED entries

Next == \E x \in Items : Put(x) \/ PutFails(x) \/ GetHit(x) \/ GetMiss(x)

Spec == Init /\ [][Next]_vars
=============================================================================
