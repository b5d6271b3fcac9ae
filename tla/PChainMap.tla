------------------------------ MODULE PChainMap ------------------------------
(***************************************************************************)
(* The thread-safe hash map of src/container/pchain_map.h: the chained     *)
(* hash table of src/container/chain_hash.h, each of whose buckets is      *)
(* guarded by one lock of an ArrayLock.                                    *)
(*                                                                         *)
(* The walk along a chain takes a step per entry, and a new entry is       *)
(* linked in a step of its own, so that two walks of one chain would       *)
(* interleave if the lock let them.                                        *)
(***************************************************************************)
EXTENDS ArrayLock, Sequences

CONSTANTS
  Keys,     \* key signatures, a set of naturals
  Values,
  NULL

VARIABLES
  table,    \* table[b] is the chain of entries of bucket b
  req,      \* req[t] is the call thread t is in, or NULL
  res,      \* res[t] is what it will return, "pending" until that is known
  at,       \* at[t] is where thread t is in ChainHashMap::insert or find
  entry     \* entry[t] is the place in the chain of the entry t looks at

mapVars == <<table, req, res, at, entry>>
allVars == <<bits, pc, op, pos, old, table, req, res, at, entry>>

Buckets  == 0..(BufLen - 1)
Requests == [op : {"insert"}, key : Keys, val : Values]
            \cup [op : {"find"}, key : Keys, val : {NULL}]

\* There is a bucket, every bucket has a lock, and NULL and what stands for no result
\* are different from everything else.
ASSUME MapAssumption == /\ Keys \subseteq Nat
                        /\ BufLen > 0 /\ Used = Buckets
                        /\ NULL \notin Values \cup Requests \cup {"pending"}
                        /\ "pending" \notin Values

\* The bucket of a key, and the index of its lock.
Bucket(k) == k % BufLen

\* A new HashEntry for the insert of thread t.
NewEntry(t) == [key |-> req[t].key, val |-> req[t].val]

\* The chain that thread t works on.
Chain(t) == table[Bucket(req[t].key)]

-----------------------------------------------------------------------------
Init == /\ LockInit
        /\ table = [b \in Buckets |-> <<>>]
        /\ req = [t \in Threads |-> NULL]
        /\ res = [t \in Threads |-> "pending"]
        /\ at = [t \in Threads |-> "out"]
        /\ entry = [t \in Threads |-> 0]

\* Broken variants: the lock is not the one of the bucket, and insert does not compare.
LockOfHalf(k)   == Bucket(k \div 2)
OtherKeyAny(t)  == TRUE

\* The lock that insert and find take.
LockOf(k) == Bucket(k)

\* The entry that thread t has reached is for another key.
OtherKey(t) == Chain(t)[entry[t]].key # req[t].key

\* PChainMap::insert and find (with a place for the result): the constructor of
\* AutoLock calls lock.
Call(t) == \E r \in Requests :
             /\ req[t] = NULL
             /\ CallLock(t, LockOf(r.key))
             /\ req' = [req EXCEPT ![t] = r]
             /\ at' = [at EXCEPT ![t] = "look"]
             /\ UNCHANGED <<table, res, entry>>

\* The call takes effect with result x; what is left is to unlock and return.
Answer(t, x) == /\ res' = [res EXCEPT ![t] = x]
                /\ at' = [at EXCEPT ![t] = "out"]
                /\ entry' = [entry EXCEPT ![t] = 0]
                /\ UNCHANGED <<bits, pc, op, pos, old, req>>

\* Thread t is inside the critical section, at point l of method m.
Inside(t, m, l) == /\ pc[t] = "held"
                   /\ at[t] = l
                   /\ req[t].op = m

\* Whether there is a chain to walk is decided here and acted on later.
Look(t) == /\ \E m \in {"insert", "find"} : Inside(t, m, "look")
           /\ IF Chain(t) = <<>>
              THEN at' = [at EXCEPT ![t] = "first"] /\ UNCHANGED entry
              ELSE at' = [at EXCEPT ![t] = "walk"] /\ entry' = [entry EXCEPT ![t] = 1]
           /\ UNCHANGED <<bits, pc, op, pos, old, table, req, res>>

\* table[hash] = new entry, which may fail, for a bucket that was empty.
InsertFirst(t) ==
  /\ Inside(t, "insert", "first")
  /\ \/ /\ table' = [table EXCEPT ![Bucket(req[t].key)] = <<NewEntry(t)>>]
        /\ Answer(t, "true")
     \/ /\ UNCHANGED table
        /\ Answer(t, "false")

\* insert finds the key and overwrites the value (overwritten is true).
InsertOver(t) ==
  /\ Inside(t, "insert", "walk")
  /\ ~ OtherKey(t)
  /\ table' = [table EXCEPT ![Bucket(req[t].key)][entry[t]].val = req[t].val]
  /\ Answer(t, "true")

\* insert goes to the next entry, or stays at the last one.
InsertWalk(t) ==
  /\ Inside(t, "insert", "walk")
  /\ OtherKey(t)
  /\ IF entry[t] = Len(Chain(t))
     THEN at' = [at EXCEPT ![t] = "link"] /\ UNCHANGED entry
     ELSE entry' = [entry EXCEPT ![t] = @ + 1] /\ UNCHANGED at
  /\ UNCHANGED <<bits, pc, op, pos, old, table, req, res>>

\* entry->setNext(nt): what followed entry, if anything did, is cut off.  The
\* allocation of nt may fail.
InsertLink(t) ==
  /\ Inside(t, "insert", "link")
  /\ \/ /\ table' = [table EXCEPT ![Bucket(req[t].key)] =
                       Append(SubSeq(@, 1, entry[t]), NewEntry(t))]
        /\ Answer(t, "true")
     \/ /\ UNCHANGED table
        /\ Answer(t, "false")

\* find reaches the end of the chain: NULL.
FindNothing(t) ==
  /\ \/ Inside(t, "find", "first")
     \/ Inside(t, "find", "walk") /\ entry[t] > Len(Chain(t))
  /\ UNCHANGED table
  /\ Answer(t, NULL)

FindWalk(t) ==
  /\ Inside(t, "find", "walk")
  /\ entry[t] <= Len(Chain(t))
  /\ IF Chain(t)[entry[t]].key = req[t].key
     THEN at' = [at EXCEPT ![t] = "copy"] /\ UNCHANGED entry
     ELSE entry' = [entry EXCEPT ![t] = @ + 1] /\ UNCHANGED at
  /\ UNCHANGED <<bits, pc, op, pos, old, table, req, res>>

\* *res = *rt, still under the lock.
FindCopy(t) ==
  /\ Inside(t, "find", "copy")
  /\ UNCHANGED table
  /\ Answer(t, Chain(t)[entry[t]].val)

\* Broken variant: AutoLock has no destructor.
UnlockMissing(t) == /\ at[t] = "out" /\ pc[t] = "held"
                    /\ pc' = [pc EXCEPT ![t] = "idle"]
                    /\ UNCHANGED <<bits, op, pos, old, mapVars>>

\* The destructor of AutoLock calls unlock.
Unlock(t) == /\ at[t] = "out"
             /\ CallUnlock(t)
             /\ UNCHANGED mapVars

Return(t) == /\ pc[t] = "idle"
             /\ req[t] # NULL
             /\ req' = [req EXCEPT ![t] = NULL]
             /\ res' = [res EXCEPT ![t] = "pending"]
             /\ UNCHANGED <<bits, pc, op, pos, old, table, at, entry>>

Next == \E t \in Threads :
          \/ Call(t) \/ Unlock(t) \/ Return(t)
          \/ LockStep(t) /\ UNCHANGED mapVars
          \/ Look(t) \/ InsertFirst(t) \/ InsertOver(t) \/ InsertWalk(t) \/ InsertLink(t)
          \/ FindNothing(t) \/ FindWalk(t) \/ FindCopy(t)

Spec == Init /\ [][Next]_allVars

-----------------------------------------------------------------------------
(* Properties.                                                             *)

\* The value that chain c has for key k: of its first entry with that key.
ValueIn(c, k) == LET hits == {i \in 1..Len(c) : c[i].key = k}
                 IN  IF hits = {} THEN NULL
                     ELSE c[CHOOSE i \in hits : \A j \in hits : i <= j].val

Lookup(k) == ValueIn(table[Bucket(k)], k)

\* What a thread found out about its chain still holds when it acts on it: the
\* bucket is empty when it puts the first entry there, the entry it links a new one
\* behind is the last and its key is not in the chain, the entry whose value it
\* copies has its key.  Another thread in the bucket would change each of these.
EntryValid ==
  \A t \in Threads :
    /\ at[t] = "first" => Chain(t) = <<>>
    /\ at[t] \in {"walk", "link", "copy"} => entry[t] \in 1..(Len(Chain(t)) + 1)
    /\ at[t] = "link" => /\ entry[t] = Len(Chain(t))
                         /\ Lookup(req[t].key) = NULL
    /\ at[t] = "copy" => /\ entry[t] <= Len(Chain(t))
                         /\ Chain(t)[entry[t]].key = req[t].key

\* Every key is in the chain of its own bucket, and there once: no two inserts
\* of a key both find it absent.
OneEntryPerKey ==
  \A b \in Buckets : \A i, j \in 1..Len(table[b]) :
    /\ Bucket(table[b][i].key) = b
    /\ table[b][i].key = table[b][j].key => i = j

\* The map implements the atomic map: no insert is lost or half visible, no find
\* returns a value that was not current at some moment of the call.
Map == INSTANCE AtomicMap WITH map <- [k \in Keys |-> Lookup(k)]
ImplementsAtomicMap == Map!Spec

\* The map uses its array of locks as the array of locks is meant to be used.
ImplementsLockSpec == LockSpec
=============================================================================
