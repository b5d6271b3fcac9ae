------------------------------ MODULE LruCache ------------------------------
(***************************************************************************)
(* The cache of src/container/circle_cache.h: an open-address hash table   *)
(* with quadratic probing, each of whose buckets points to a node of a     *)
(* circular doubly linked list in the order of last use.                   *)
(*                                                                         *)
(* The list is an array of nodes: the entries in use are those from _tail  *)
(* on to the one before _head, the node at _head is the next one to fill.  *)
(* The cache is not shared between threads: a call is one step.            *)
(***************************************************************************)
EXTENDS Integers, Sequences, SequencesExt

CONSTANTS
  Items,      \* the pairs <<key, raw_key>> that callers use
  Values,     \* Values[x] is the set of values that callers put for item x
  Overwrites, \* the values of the argument overwrite that callers use
  Capacity, MaxProbing, \* the arguments of init
  NULL

INVALID_INDEX == -1

\* A bucket or node with key 0 is empty, so 0 is no key; the list is built for
\* at least two nodes.
ASSUME LruAssumption == /\ Capacity \in Nat \ {0, 1} /\ MaxProbing \in Nat
                        /\ \A x \in Items : x = <<x[1], x[2]>> /\ x[1] \in Nat \ {0}
                        /\ Overwrites \subseteq BOOLEAN

\* The place of the highest bit that is set in v.
get_bit_pos(v) == CHOOSE r \in 0..31 : 2^r <= v /\ v < 2^(r + 1)

HashSize == 2^(get_bit_pos(Capacity * 2) + 1)
Buckets  == 0..(HashSize - 1)
Index    == 0..(Capacity - 1)

VARIABLES
  hash,       \* hash[b] is _hash[b]
  list,       \* list[i] is _list[i]
  head, tail,
  call,       \* the last call and what it returned
  order,      \* history: the nodes in use, the least recently used first
  stale       \* history: those whose value a later put has overwritten

vars == <<hash, list, head, tail, call, order, stale>>

NoHash == [key |-> 0, raw |-> "", index |-> INVALID_INDEX]

-----------------------------------------------------------------------------
Init == /\ hash = [b \in Buckets |-> NoHash]
        /\ list = [i \in Index |-> [key |-> 0, next |-> (i + 1) % Capacity,
                                    last |-> (i - 1) % Capacity,
                                    bucket |-> INVALID_INDEX, v |-> NULL]]
        /\ head = 0 /\ tail = 0
        /\ call = [op |-> "init", item |-> NULL, ret |-> "0"]
        /\ order = <<>>
        /\ stale = {}

Called(op, x, r) == call' = [op |-> op, item |-> x, ret |-> r]

\* 0.5 i + 0.5 i^2 is a whole number.
quadratic_probing(key, i) == ((key % HashSize) + (i + i * i) \div 2) % HashSize

\* How often a key is probed for, counted from 0.
Probes == {i \in 0..(MaxProbing - 1) : i < HashSize}

\* The first bucket on the probing path of key that is in bs, or INVALID_INDEX.
FirstProbed(key, bs) ==
  LET Hits == {i \in Probes : quadratic_probing(key, i) \in bs}
  IN  IF Hits = {} THEN INVALID_INDEX
      ELSE quadratic_probing(key, CHOOSE i \in Hits : \A j \in Hits : i <= j)

Holds(b, x) == hash[b].key = x[1] /\ hash[b].raw = x[2]

get_probing_bucket(x) == FirstProbed(x[1], {b \in Buckets : Holds(b, x)})

put_probing_bucket(x, overwrite) ==
  FirstProbed(x[1], {b \in Buckets : hash[b].key = 0 \/ (Holds(b, x) /\ overwrite)})

\* l[i].next = j, and l[i].last = j
SetNext(l, i, j) == [l EXCEPT ![i] = [l[i] EXCEPT !.next = j]]
SetLast(l, i, j) == [l EXCEPT ![i] = [l[i] EXCEPT !.last = j]]

\* Broken variant: the node is not taken out of its old position.
UnlinkedNot(l, index) == l

\* read_adjust, first half: the list l without node index.
Unlinked(l, index) ==
  LET a == SetNext(l, l[index].last, l[index].next)
  IN  SetLast(a, a[index].next, a[index].last)

\* read_adjust: the list l with node index moved to the place before head; the
\* assignments in the order of the code.
Moved(l, index) ==
  LET b == Unlinked(l, index)
      c == SetNext(b, b[head].last, index)
      d == SetLast(c, index, c[head].last)
      e == SetNext(d, index, head)
  IN  SetLast(e, head, index)

\* Broken variant: the least recently used node is not remembered anew.
TailAfterMoveSame(index) == tail

\* read_adjust: the tail, if it is the node that moves and is not the only one.
TailAfterMove(index) == IF tail = index /\ head # list[index].next
                        THEN list[index].next ELSE tail

\* Broken variant: a node in use is left at its place.
ReadAdjustNot(l, index) == list' = l /\ UNCHANGED <<head, tail>>

ReadAdjust(l, index) == /\ list' = Moved(l, index)
                        /\ tail' = TailAfterMove(index)
                        /\ UNCHANGED head

\* Broken variant: the bucket of the node freed stays filled.
FreedBucketKept(h, b) == h

FreedBucket(h, b) == [h EXCEPT ![b] = NoHash]

\* write_adjust, on the hash h and the list l that put has just filled in: a full
\* cache frees its least recently used node and that node's bucket.
WriteAdjust(h, l) ==
  IF tail = l[head].next
  THEN /\ list' = [l EXCEPT ![tail] = [l[tail] EXCEPT !.key = 0, !.v = NULL]]
       /\ hash' = FreedBucket(h, l[tail].bucket)
       /\ head' = tail
       /\ tail' = l[tail].next
  ELSE /\ list' = l /\ hash' = h
       /\ head' = l[head].next
       /\ UNCHANGED tail

\* The node put uses: the bucket's own if it is in use for the key, or head.
PutIndex(b, x) == IF /\ hash[b].index # INVALID_INDEX
                     /\ list[hash[b].index].key = x[1]
                  THEN hash[b].index ELSE head

\* The order once node i, in use or new, has been used; a full list loses its first.
Used(i) == IF i \in Range(order)
           THEN LET n == CHOOSE n \in 1..Len(order) : order[n] = i
                IN  Append(RemoveAt(order, n), i)
           ELSE Append(IF Len(order) = Capacity - 1 THEN Tail(order) ELSE order, i)

\* The nodes that hold a value of x.
NodesOf(x) == {hash[b].index : b \in {c \in Buckets : Holds(c, x)}}

put(x, v, overwrite) ==
  LET b == put_probing_bucket(x, overwrite)
      i == PutIndex(b, x)
      h == [hash EXCEPT ![b] = [key |-> x[1], raw |-> x[2], index |-> i]]
      l == [list EXCEPT ![i] = [list[i] EXCEPT !.key = x[1], !.v = v, !.bucket = b]]
  IN  /\ b # INVALID_INDEX
      /\ IF i = head
         THEN WriteAdjust(h, l)
         ELSE hash' = h /\ ReadAdjust(l, i)
      /\ Called("put", x, "0")
      /\ order' = Used(i)
      /\ stale' = (IF overwrite THEN stale \cup NodesOf(x) ELSE stale) \ {i, head'}

\* Every bucket that put may probe is taken: -1.
PutFails(x, overwrite) == /\ put_probing_bucket(x, overwrite) = INVALID_INDEX
                          /\ Called("put", x, "-1")
                          /\ UNCHANGED <<hash, list, head, tail, order, stale>>

get(x) == LET i == hash[get_probing_bucket(x)].index
          IN  /\ get_probing_bucket(x) # INVALID_INDEX
              /\ Called("get", x, list[i].v)
              /\ order' = Used(i)
              /\ ReadAdjust(list, i)
              /\ UNCHANGED <<hash, stale>>

GetMiss(x) == /\ get_probing_bucket(x) = INVALID_INDEX
              /\ Called("get", x, NULL)
              /\ UNCHANGED <<hash, list, head, tail, order, stale>>

Next == \E x \in Items :
          \/ get(x) \/ GetMiss(x)
          \/ \E overwrite \in Overwrites : \/ PutFails(x, overwrite)
                                           \/ \E v \in Values[x] : put(x, v, overwrite)

Spec == Init /\ [][Next]_vars

-----------------------------------------------------------------------------
(* Properties.                                                             *)

\* Walk[n] is the node n links after tail.
Walk[n \in 0..Capacity] == IF n = 0 THEN tail ELSE list[Walk[n - 1]].next

\* However its nodes are moved, the list stays one ring through all of them, last
\* leads back where next came from, and from tail to head it has the nodes in use
\* in the order of their last use.
Ring == LET w == Walk IN
        /\ {w[n] : n \in 0..(Capacity - 1)} = Index
        /\ \A i \in Index : list[list[i].next].last = i
        /\ \A n \in 1..Len(order) : w[n - 1] = order[n]
        /\ w[Len(order)] = head

\* The hash and the list agree: the buckets in use and the nodes in use point to
\* each other and have the same key, so that freeing a node frees its own bucket
\* and a bucket found by get leads to a node in use.
Coupled ==
  /\ \A i \in Range(order) : /\ list[i].bucket \in Buckets
                             /\ hash[list[i].bucket].index = i
                             /\ hash[list[i].bucket].key = list[i].key
  /\ \A b \in Buckets : hash[b].key # 0 => /\ hash[b].index \in Range(order)
                                           /\ list[hash[b].index].bucket = b

\* get returns no value that a later put has overwritten: the cache may hold an
\* old entry of an item beside the new one, but it is never the one that is found.
Fresh == \A x \in Items :
           get_probing_bucket(x) # INVALID_INDEX
             => hash[get_probing_bucket(x)].index \notin stale

\* The entry in node i.
EntryOf(i) == LET b == list[i].bucket
              IN  [item |-> <<hash[b].key, hash[b].raw>>, v |-> list[i].v]

Entries == [n \in 1..Len(order) |-> EntryOf(order[n])]

\* The cache implements the list in the order of last use.
Lru == INSTANCE LruList WITH Size <- Capacity - 1, entries <- Entries
ImplementsLruList == Lru!Spec
=============================================================================
