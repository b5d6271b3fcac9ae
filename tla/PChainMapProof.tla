--------------------------- MODULE PChainMapProof ---------------------------
(***************************************************************************)
(* Proofs about the array of one-bit locks and about the thread-safe map   *)
(* over it, for any threads, locks, keys and buckets.                      *)
(***************************************************************************)
EXTENDS PChainMap, SequenceTheorems, TLAPS

-----------------------------------------------------------------------------
(* The array of locks, from UsedAssumption alone.  MutualExclusion is not  *)
(* inductive by itself: a thread takes a lock because it sees the bit      *)
(* clear, so the invariant also says whose bits are set (BitIffOwned).     *)
(* Nothing is needed about the byte a thread has read: what counts is the  *)
(* byte at the moment of the compare-and-swap.                             *)

LockInv == LockTypeOK /\ MutualExclusion /\ BitIffOwned /\ NoForeignUnlock

Positions == 0..(BufLen - 1)

\* A position is its byte and its offset, both within bounds.
LEMMA PositionType == ASSUME NEW p \in Positions
                      PROVE  Word(p) \in Words /\ Offset(p) \in 0..7
  BY UsedAssumption DEF Positions, Word, Offset, Words

\* Two positions with the same byte and the same offset are equal.
LEMMA PositionUnique == ASSUME NEW p \in Positions, NEW q \in Positions,
                               Word(p) = Word(q), Offset(p) = Offset(q)
                        PROVE  p = q
  BY UsedAssumption DEF Positions, Word, Offset

\* The invariant holds when create has cleared every bit.
LEMMA LockInitInv == LockInit => LockInv
  <1> SUFFICES ASSUME LockInit PROVE LockInv
    OBVIOUS
  <1>1. LockTypeOK
    BY DEF LockInit, LockTypeOK, PCs, Calls
  <1>2. \A p \in Positions : ~ test_bit(p)
    BY PositionType DEF LockInit, test_bit
  <1>3. \A t \in Threads : ~ Owns(t) /\ pc[t] # "error"
    BY DEF LockInit, Owns
  <1> QED
    BY <1>1, <1>2, <1>3
       DEF LockInv, MutualExclusion, BitIffOwned, NoForeignUnlock, Positions

\* A step of t that takes and gives back no lock.
LEMMA SameOwners ==
  ASSUME LockInv, LockTypeOK', NEW t \in Threads, bits' = bits,
         pc' \in [Threads -> PCs], pc'[t] # "error",
         \A u \in Threads : Owns(u)' <=> Owns(u),
         \A u \in Threads : Owns(u) => pos'[u] = pos[u],
         \A u \in Threads \ {t} : pc'[u] = pc[u]
  PROVE  LockInv'
  <1>1. MutualExclusion'
    BY DEF LockInv, MutualExclusion
  <1>2. BitIffOwned'
    <2>1. \A p \in Positions : test_bit(p)' <=> test_bit(p)
      BY DEF test_bit
    <2> QED
      BY <2>1 DEF LockInv, BitIffOwned, Positions
  <1>3. NoForeignUnlock'
    BY DEF LockInv, NoForeignUnlock
  <1> QED
    BY <1>1, <1>2, <1>3 DEF LockInv

\* The compare-and-swap of thread t changes the bit of its own lock and no other.
LEMMA CasBits ==
  ASSUME LockInv, NEW t \in Threads, CasDone(t)
  PROVE  /\ pos[t] \in Positions
         /\ Sets(t) => ~ test_bit(pos[t]) /\ test_bit(pos[t])'
         /\ ~ Sets(t) => ~ test_bit(pos[t])'
         /\ \A p \in Positions \ {pos[t]} : test_bit(p)' <=> test_bit(p)
  <1> DEFINE w == Word(pos[t])
             o == Offset(pos[t])
  <1>1. pos[t] \in Positions
    BY UsedAssumption DEF CasDone, LockInv, LockTypeOK, Positions
  <1>2. w \in Words /\ o \in 0..7
    BY <1>1, PositionType
  <1>3. /\ Sets(t) => o \notin bits[w] /\ bits'[w] = bits[w] \cup {o}
        /\ ~ Sets(t) => bits'[w] = bits[w] \ {o}
    BY <1>2 DEF CasDone, Expect, Desire, LockInv, LockTypeOK
  <1>4. \A v \in Words \ {w} : bits'[v] = bits[v]
    BY <1>2 DEF CasDone, LockInv, LockTypeOK
  <1>5. pos' = pos
    BY DEF CasDone
  <1>6. ASSUME NEW p \in Positions \ {pos[t]}
        PROVE  test_bit(p)' <=> test_bit(p)
    <2>1. CASE Word(p) = w
      <3>1. Offset(p) # o
        BY <1>1, <2>1, PositionUnique
      <3> QED
        BY <1>3, <2>1, <3>1 DEF test_bit
    <2>2. CASE Word(p) # w
      BY <1>4, <2>2, PositionType DEF test_bit
    <2> QED
      BY <2>1, <2>2
  <1> QED
    BY <1>1, <1>3, <1>5, <1>6 DEF test_bit

\* A successful compare-and-swap changes one owner and that owner's bit.
LEMMA CasStep == ASSUME LockInv, NEW t \in Threads, CasDone(t), LockTypeOK'
                 PROVE  LockInv'
  <1>1. \A u \in Threads \ {t} : pc'[u] = pc[u] /\ (Owns(u)' <=> Owns(u))
    BY DEF CasDone, LockInv, LockTypeOK, Owns, Sets
  <1>2. /\ Sets(t) => ~ Owns(t) /\ Owns(t)'
        /\ ~ Sets(t) => Owns(t) /\ ~ Owns(t)'
    BY DEF CasDone, LockInv, LockTypeOK, Owns, Sets
  <1>3. pos' = pos
    BY DEF CasDone
  <1>4. MutualExclusion'
    <2>1. Sets(t) => \A u \in Threads : Owns(u) => pos[u] # pos[t]
      BY CasBits DEF LockInv, BitIffOwned, Positions
    <2> QED
      BY <1>1, <1>2, <1>3, <2>1 DEF LockInv, MutualExclusion
  <1>5. BitIffOwned'
    <2> SUFFICES ASSUME NEW p \in Positions
                 PROVE  test_bit(p)' <=> \E u \in Threads : Owns(u)' /\ pos'[u] = p
      BY DEF BitIffOwned, Positions
    <2>1. CASE p # pos[t]
      BY <1>1, <1>3, <2>1, CasBits DEF LockInv, BitIffOwned, Positions
    <2>2. CASE p = pos[t] /\ Sets(t)
      BY <1>2, <1>3, <2>2, CasBits
    <2>3. CASE p = pos[t] /\ ~ Sets(t)
      <3>1. \A u \in Threads \ {t} : Owns(u) => pos[u] # p
        BY <1>2, <2>3 DEF LockInv, MutualExclusion
      <3> QED
        BY <1>1, <1>2, <1>3, <2>3, <3>1, CasBits
    <2> QED
      BY <2>1, <2>2, <2>3
  <1>6. NoForeignUnlock'
    BY <1>1 DEF LockInv, NoForeignUnlock, CasDone, LockTypeOK
  <1> QED
    BY <1>4, <1>5, <1>6 DEF LockInv

LEMMA LockTypeStep == LockInv /\ [LockNext]_lockVars => LockTypeOK'
  <1> SUFFICES ASSUME LockInv, [LockNext]_lockVars
               PROVE  LockTypeOK'
    OBVIOUS
  <1> USE DEF LockInv, LockTypeOK, PCs, Calls
  <1>1. ASSUME NEW t \in Threads, NEW p \in Used, CallLock(t, p) \/ CallTrySet(t, p)
        PROVE  LockTypeOK'
    BY <1>1 DEF CallLock, CallTrySet
  <1>2. ASSUME NEW t \in Threads, CallUnlock(t) \/ CallTryClear(t) PROVE LockTypeOK'
    BY <1>2 DEF CallUnlock, CallTryClear
  <1>3. ASSUME NEW t \in Threads, Spin(t) \/ UnlockTest(t) PROVE LockTypeOK'
    BY <1>3 DEF Spin, UnlockTest
  <1>4. ASSUME NEW t \in Threads, Test(t) PROVE LockTypeOK'
    BY <1>4 DEF Test, AfterFailure
  <1>5. ASSUME NEW t \in Threads, Load(t) PROVE LockTypeOK'
    <2>1. Word(pos[t]) \in Words
      BY <1>5, UsedAssumption, PositionType DEF Load, Positions
    <2> QED
      BY <1>5, <2>1 DEF Load
  <1>6. ASSUME NEW t \in Threads, CasDone(t) PROVE LockTypeOK'
    <2>1. Word(pos[t]) \in Words /\ Offset(pos[t]) \in 0..7
      BY <1>6, UsedAssumption, PositionType DEF CasDone, Positions
    <2>2. Desire(t) \in SUBSET (0..7)
      BY <2>1 DEF Desire
    <2> QED
      BY <1>6, <2>1, <2>2 DEF CasDone
  <1>7. ASSUME NEW t \in Threads, CasFails(t) PROVE LockTypeOK'
    BY <1>7 DEF CasFails, AfterFailure
  <1>8. CASE UNCHANGED lockVars
    BY <1>8 DEF lockVars
  <1> QED
    BY <1>1, <1>2, <1>3, <1>4, <1>5, <1>6, <1>7, <1>8 DEF LockNext, LockStep
\* Every step preserves the invariant.
LEMMA LockInvStep == LockInv /\ [LockNext]_lockVars => LockInv'
  <1> SUFFICES ASSUME LockInv, [LockNext]_lockVars
               PROVE  LockInv'
    OBVIOUS
  <1>0. LockTypeOK'
    BY LockTypeStep
  <1> USE DEF LockTypeOK, Owns, Sets, Calls, PCs
  <1>1. ASSUME NEW t \in Threads, NEW p \in Used, CallLock(t, p) \/ CallTrySet(t, p)
        PROVE  LockInv'
    BY <1>0, <1>1, SameOwners DEF LockInv, CallLock, CallTrySet
  <1>2. ASSUME NEW t \in Threads, CallUnlock(t) \/ CallTryClear(t) PROVE LockInv'
    BY <1>0, <1>2, SameOwners DEF LockInv, CallUnlock, CallTryClear
  <1>3. ASSUME NEW t \in Threads, Spin(t) PROVE LockInv'
    BY <1>0, <1>3, SameOwners DEF LockInv, Spin
  <1>4. ASSUME NEW t \in Threads, UnlockTest(t) PROVE LockInv'
    \* The owner finds its bit set.
    <2>1. Owns(t) /\ pos[t] \in Positions
      BY <1>4, UsedAssumption DEF LockInv, UnlockTest, Positions
    <2>2. test_bit(pos[t])
      BY <2>1 DEF LockInv, BitIffOwned, Positions
    <2> QED
      BY <1>0, <1>4, <2>2, SameOwners DEF LockInv, UnlockTest
  <1>5. ASSUME NEW t \in Threads, Test(t) PROVE LockInv'
    <2>1. pc'[t] = "load" \/ pc'[t] = AfterFailure[op[t]]
      BY <1>5 DEF LockInv, Test
    <2> QED
      BY <1>0, <1>5, <2>1, SameOwners DEF LockInv, Test, AfterFailure
  <1>6. ASSUME NEW t \in Threads, Load(t) PROVE LockInv'
    BY <1>0, <1>6, SameOwners DEF LockInv, Load
  <1>7. ASSUME NEW t \in Threads, CasDone(t) PROVE LockInv'
    BY <1>0, <1>7, CasStep
  <1>8. ASSUME NEW t \in Threads, CasFails(t) PROVE LockInv'
    BY <1>0, <1>8, SameOwners DEF LockInv, CasFails, AfterFailure
  <1>9. CASE UNCHANGED lockVars
    BY <1>9 DEF lockVars, LockInv, MutualExclusion, BitIffOwned, NoForeignUnlock, test_bit
  <1> QED
    BY <1>1, <1>2, <1>3, <1>4, <1>5, <1>6, <1>7, <1>8, <1>9 DEF LockNext, LockStep

\* The invariant holds in every state of every run of the array of locks.
THEOREM ArrayLockInvariant == LockSpec => []LockInv
  BY LockInitInv, LockInvStep, PTL DEF LockSpec

\* Type correctness: no byte outside the buffer is read or written.
THEOREM ArrayLockTypeOK == LockSpec => []LockTypeOK
  BY ArrayLockInvariant, PTL DEF LockInv

\* lock() of src/util/array_lock.h gives a lock to one thread at a time.
THEOREM ArrayLockMutualExclusion == LockSpec => []MutualExclusion
  BY ArrayLockInvariant, PTL DEF LockInv

\* The bits that are set are those of the locks that are owned.
THEOREM ArrayLockBitIffOwned == LockSpec => []BitIffOwned
  BY ArrayLockInvariant, PTL DEF LockInv

\* The fatal error of unlock() is never met by an owner.
THEOREM ArrayLockNoForeignUnlock == LockSpec => []NoForeignUnlock
  BY ArrayLockInvariant, PTL DEF LockInv

-----------------------------------------------------------------------------
(* The map uses its locks properly, and implements the atomic map.  Every  *)
(* step of the map is a step of the array of locks or leaves it alone, so  *)
(* LockInv, proved for that array, holds here too.  From it follows that   *)
(* two threads inside the table work on different chains (Apart), so that  *)
(* what a thread has found out about its chain stays true until it acts on *)
(* it.                                                                     *)

Entries == [key : Keys, val : Values]

MapTypeOK == /\ table \in [Buckets -> Seq(Entries)]
             /\ req \in [Threads -> Requests \cup {NULL}]
             /\ at \in [Threads -> {"out", "look", "first", "walk", "link", "copy"}]
             /\ entry \in [Threads -> Nat]
             /\ res \in [Threads -> Values \cup {NULL, "pending", "true", "false"}]

\* The places from which a thread acts on the table.
AtTable == {"first", "walk", "link", "copy"}

\* How the places of a thread in the map and in its lock belong together: it is in
\* the table only as the owner of the lock of its bucket, and has a result from when
\* it leaves the table to its return.
InCall ==
  \A t \in Threads :
    /\ req[t] = NULL => pc[t] = "idle" /\ at[t] = "out"
    /\ req[t] # NULL => /\ pos[t] = Bucket(req[t].key)
                        /\ pc[t] = "idle" => at[t] = "out"
                        /\ pc[t] # "idle" => op[t] = IF at[t] = "out" /\ pc[t] # "held"
                                                     THEN "unlock" ELSE "lock"
                        /\ res[t] = "pending" <=> at[t] # "out"
    /\ req[t] = NULL => res[t] = "pending"
    /\ at[t] \in AtTable => pc[t] = "held"
    /\ at[t] = "link" => req[t].op = "insert"
    /\ at[t] = "copy" => req[t].op = "find"

\* What thread t has found out about its chain: of the entries it has passed none has
\* its key, and the place it has reached is the one from which it may act.
Valid(t) ==
  /\ at[t] = "first" => Chain(t) = <<>>
  /\ at[t] = "walk" => /\ entry[t] \in 1..(Len(Chain(t)) + 1)
                       /\ \A i \in 1..(entry[t] - 1) : Chain(t)[i].key # req[t].key
                       /\ req[t].op = "insert" => entry[t] <= Len(Chain(t))
  /\ at[t] = "link" => /\ entry[t] = Len(Chain(t)) /\ entry[t] > 0
                       /\ \A i \in 1..Len(Chain(t)) : Chain(t)[i].key # req[t].key
  /\ at[t] = "copy" => entry[t] \in 1..Len(Chain(t)) /\ Chain(t)[entry[t]].key = req[t].key

AllValid == \A t \in Threads : Valid(t)

MapInv == MapTypeOK /\ LockInv /\ InCall /\ AllValid /\ OneEntryPerKey

-----------------------------------------------------------------------------
(* The locks.                                                              *)

\* Every key has a bucket, and the bucket a lock.
LEMMA BucketType == ASSUME NEW k \in Keys PROVE Bucket(k) \in Buckets /\ LockOf(k) \in Used
  BY MapAssumption, UsedAssumption DEF Bucket, Buckets, LockOf

\* A step of the map calls lock or unlock, or is a step inside them, or leaves the
\* locks alone.
LEMMA LockRefines == [Next]_allVars => [LockNext]_lockVars
  <1> SUFFICES ASSUME [Next]_allVars PROVE [LockNext]_lockVars
    OBVIOUS
  <1>1. ASSUME NEW t \in Threads, Call(t) PROVE LockNext
    <2>1. PICK r \in Requests : CallLock(t, LockOf(r.key))
      BY <1>1 DEF Call
    <2>2. LockOf(r.key) \in Used
      BY BucketType DEF Requests
    <2> QED
      BY <2>1, <2>2 DEF LockNext
  <1>2. ASSUME NEW t \in Threads, Unlock(t) \/ (LockStep(t) /\ UNCHANGED mapVars)
        PROVE  LockNext
    BY <1>2 DEF Unlock, LockNext
  <1>3. ASSUME NEW t \in Threads,
               \/ Return(t) \/ Look(t) \/ InsertFirst(t) \/ InsertOver(t) \/ InsertWalk(t)
               \/ InsertLink(t) \/ FindNothing(t) \/ FindWalk(t) \/ FindCopy(t)
        PROVE  UNCHANGED lockVars
    BY <1>3 DEF Return, Look, InsertFirst, InsertOver, InsertWalk, InsertLink, FindNothing,
                FindWalk, FindCopy, Answer, lockVars
  <1>4. CASE UNCHANGED allVars
    BY <1>4 DEF allVars, lockVars
  <1> QED
    BY <1>1, <1>2, <1>3, <1>4 DEF Next

\* The map keeps to the protocol of its array of locks: it gives back what it has
\* taken, and only that, and never locks beyond the buffer.
THEOREM MapImplementsLockSpec == Spec => ImplementsLockSpec
  BY LockRefines, PTL DEF Spec, Init, ImplementsLockSpec, LockSpec

-----------------------------------------------------------------------------
(* The invariant.                                                          *)

LEMMA MapInit == Init => MapInv
  <1> SUFFICES ASSUME Init PROVE MapInv
    OBVIOUS
  <1>1. LockInv
    BY LockInitInv DEF Init
  <1>2. MapTypeOK
    BY DEF Init, MapTypeOK
  <1>3. InCall
    BY DEF Init, InCall, LockInit, AtTable
  <1>4. AllValid
    BY DEF Init, AllValid, Valid
  <1>5. OneEntryPerKey
    BY DEF Init, OneEntryPerKey
  <1> QED
    BY <1>1, <1>2, <1>3, <1>4, <1>5 DEF MapInv

\* A thread in a call has a key, and with it a chain.
LEMMA InTable ==
  ASSUME MapInv, NEW t \in Threads, req[t] # NULL
  PROVE  /\ req[t] \in Requests /\ req[t].key \in Keys
         /\ Bucket(req[t].key) \in Buckets /\ Chain(t) \in Seq(Entries)
  <1>1. req[t] \in Requests /\ req[t].key \in Keys
    BY DEF MapInv, MapTypeOK, Requests
  <1> QED
    BY <1>1, BucketType DEF MapInv, MapTypeOK, Chain

\* Two threads inside the table work on different chains.
LEMMA Apart ==
  ASSUME MapInv, NEW t \in Threads, NEW u \in Threads, t # u,
         pc[t] = "held", at[u] \in AtTable, req[t] # NULL
  PROVE  Bucket(req[t].key) # Bucket(req[u].key)
  BY DEF MapInv, InCall, LockInv, MutualExclusion, Owns, AtTable

\* A step of t that changes at most its own chain does not disturb what others know.
LEMMA OthersValid ==
  ASSUME MapInv, NEW t \in Threads,
         \A u \in Threads \ {t} :
            req'[u] = req[u] /\ at'[u] = at[u] /\ entry'[u] = entry[u],
         table' = table \/ /\ pc[t] = "held" /\ req[t] # NULL
                           /\ \A b \in Buckets \ {Bucket(req[t].key)} : table'[b] = table[b],
         NEW u \in Threads \ {t}
  PROVE  Valid(u)'
  <1>1. Valid(u)
    BY DEF MapInv, AllValid
  <1>2. CASE at[u] \in AtTable
    <2>1. req[u] # NULL
      BY <1>2 DEF MapInv, InCall, AtTable
    <2>2. Chain(u)' = Chain(u)
      BY <1>2, <2>1, InTable, Apart DEF Chain
    <2> QED
      BY <1>1, <2>2 DEF Valid
  <1>3. CASE at[u] \notin AtTable
    BY <1>3 DEF Valid, AtTable
  <1> QED
    BY <1>2, <1>3

\* The entry for the insert of t, which overwriting an entry of the same key yields too.
LEMMA Overwrites ==
  ASSUME MapInv, NEW t \in Threads, InsertOver(t)
  PROVE  /\ entry[t] \in 1..Len(Chain(t)) /\ Chain(t)[entry[t]].key = req[t].key
         /\ table' = [table EXCEPT ![Bucket(req[t].key)] = [@ EXCEPT ![entry[t]] = NewEntry(t)]]
  <1> DEFINE e == entry[t]
             b == Bucket(req[t].key)
  <1>1. req[t] # NULL /\ at[t] = "walk" /\ req[t].op = "insert"
    BY DEF InsertOver, Inside, MapInv, InCall
  <1>2. e \in 1..Len(Chain(t)) /\ Chain(t) \in Seq(Entries)
    BY <1>1, InTable DEF MapInv, AllValid, Valid
  <1>3. Chain(t)[e].key = req[t].key /\ Chain(t)[e] \in Entries
    BY <1>2 DEF InsertOver, OtherKey
  <1>4. [table[b][e] EXCEPT !.val = req[t].val] = NewEntry(t)
    BY <1>3 DEF Entries, NewEntry, Chain
  <1> QED
    BY <1>2, <1>3, <1>4 DEF InsertOver

\* A new entry for the insert of t.
LEMMA NewEntryType == ASSUME MapInv, NEW t \in Threads, req[t] # NULL, req[t].op = "insert"
                      PROVE  NewEntry(t) \in Entries
  BY InTable DEF NewEntry, Entries, Requests

\* What the three actions that write the table make of the chain.
LEMMA TableStep ==
  ASSUME MapInv, NEW t \in Threads,
         InsertFirst(t) \/ InsertOver(t) \/ InsertLink(t), table' # table \/ res'[t] = "true"
  PROVE  /\ req[t] # NULL /\ NewEntry(t) \in Entries
         /\ \/ /\ at[t] = "first" /\ Chain(t) = <<>>
               /\ table' = [table EXCEPT ![Bucket(req[t].key)] = <<NewEntry(t)>>]
            \/ /\ at[t] = "walk" /\ entry[t] \in 1..Len(Chain(t))
               /\ Chain(t)[entry[t]].key = req[t].key
               /\ table' = [table EXCEPT ![Bucket(req[t].key)] =
                              [@ EXCEPT ![entry[t]] = NewEntry(t)]]
            \/ /\ at[t] = "link" /\ \A i \in 1..Len(Chain(t)) : Chain(t)[i].key # req[t].key
               /\ table' = [table EXCEPT ![Bucket(req[t].key)] = Append(@, NewEntry(t))]
  <1>1. req[t] # NULL /\ req[t].op = "insert"
    BY DEF InsertFirst, InsertOver, InsertLink, Inside, MapInv, InCall, AtTable
  <1>2. NewEntry(t) \in Entries
    BY <1>1, NewEntryType
  <1>3. CASE InsertFirst(t)
    BY <1>1, <1>2, <1>3 DEF InsertFirst, Inside, Answer, MapInv, MapTypeOK, AllValid, Valid
  <1>4. CASE InsertOver(t)
    BY <1>1, <1>2, <1>4, Overwrites DEF InsertOver, Inside
  <1>5. CASE InsertLink(t)
    <2>1. at[t] = "link" /\ entry[t] = Len(Chain(t)) /\ Chain(t) \in Seq(Entries)
      BY <1>1, <1>5, InTable DEF InsertLink, Inside, MapInv, AllValid, Valid
    <2>2. SubSeq(Chain(t), 1, entry[t]) = Chain(t)
      BY <2>1, SubSeqFull
    <2> QED
      BY <1>1, <1>2, <1>5, <2>1, <2>2
         DEF InsertLink, Chain, Answer, MapInv, MapTypeOK, AllValid, Valid
  <1> QED
    BY <1>3, <1>4, <1>5

\* Every step keeps the types.
LEMMA MapTypeStep == MapInv /\ [Next]_allVars => MapTypeOK'
  <1> SUFFICES ASSUME MapInv, [Next]_allVars PROVE MapTypeOK'
    OBVIOUS
  <1> USE DEF MapInv, MapTypeOK
  <1>1. ASSUME NEW t \in Threads, Call(t) PROVE MapTypeOK'
    BY <1>1 DEF Call
  <1>2. ASSUME NEW t \in Threads, Unlock(t) \/ (LockStep(t) /\ UNCHANGED mapVars)
        PROVE  MapTypeOK'
    BY <1>2 DEF Unlock, mapVars
  <1>3. ASSUME NEW t \in Threads, Return(t) PROVE MapTypeOK'
    BY <1>3 DEF Return
  <1>4. ASSUME NEW t \in Threads, InsertFirst(t) \/ InsertOver(t) \/ InsertLink(t)
        PROVE  MapTypeOK'
    <2>1. table' \in [Buckets -> Seq(Entries)]
      <3>1. CASE table' = table
        BY <3>1
      <3>2. CASE table' # table
        <4> DEFINE b == Bucket(req[t].key)
        <4>1. b \in Buckets /\ table[b] \in Seq(Entries) /\ NewEntry(t) \in Entries
          BY <1>4, <3>2, TableStep, InTable DEF Chain
        <4>2. /\ <<NewEntry(t)>> \in Seq(Entries) /\ Append(table[b], NewEntry(t)) \in Seq(Entries)
              /\ \A i \in 1..Len(table[b]) :
                   [table[b] EXCEPT ![i] = NewEntry(t)] \in Seq(Entries)
          BY <4>1, ExceptSeq
        <4>3. PICK c \in Seq(Entries) : table' = [table EXCEPT ![b] = c]
          BY <1>4, <3>2, <4>1, <4>2, TableStep, Zenon DEF Chain
        <4> QED
          BY <4>1, <4>3
      <3> QED
        BY <3>1, <3>2
    <2>2. PICK x \in {"true", "false"} : Answer(t, x)
      BY <1>4, Zenon DEF InsertFirst, InsertOver, InsertLink
    <2> QED
      BY <2>1, <2>2 DEF Answer
  <1>5. ASSUME NEW t \in Threads, Look(t) \/ InsertWalk(t) \/ FindNothing(t) \/ FindWalk(t)
        PROVE  MapTypeOK'
    BY <1>5 DEF Look, InsertWalk, FindNothing, FindWalk, Answer
  <1>6. ASSUME NEW t \in Threads, FindCopy(t) PROVE MapTypeOK'
    <2>1. req[t] # NULL /\ entry[t] \in 1..Len(Chain(t))
      BY <1>6 DEF FindCopy, Inside, InCall, AllValid, Valid
    <2>2. Chain(t)[entry[t]] \in Entries
      BY <2>1, InTable
    <2> QED
      BY <1>6, <2>2 DEF FindCopy, Answer, Entries
  <1>7. CASE UNCHANGED allVars
    BY <1>7 DEF allVars
  <1> QED
    BY <1>1, <1>2, <1>3, <1>4, <1>5, <1>6, <1>7 DEF Next

\* Every step keeps the places of the threads together.
LEMMA InCallStep == MapInv /\ [Next]_allVars => InCall'
  <1> SUFFICES ASSUME MapInv, [Next]_allVars PROVE InCall'
    OBVIOUS
  <1> USE DEF MapInv, MapTypeOK, InCall, AtTable
  <1>1. ASSUME NEW t \in Threads, Call(t) PROVE InCall'
    <2>1. PICK r \in Requests : /\ CallLock(t, LockOf(r.key)) /\ req[t] = NULL
                                /\ req' = [req EXCEPT ![t] = r]
                                /\ at' = [at EXCEPT ![t] = "look"]
                                /\ UNCHANGED <<table, res, entry>>
      BY <1>1 DEF Call
    <2>2. r # NULL
      BY MapAssumption
    <2> QED
      BY <2>1, <2>2 DEF CallLock, LockOf, LockInv, LockTypeOK
  <1>2. ASSUME NEW t \in Threads, Unlock(t) PROVE InCall'
    BY <1>2 DEF Unlock, CallUnlock, mapVars, LockInv, LockTypeOK
  <1>3. ASSUME NEW t \in Threads, LockStep(t), UNCHANGED mapVars PROVE InCall'
    <2>1. /\ pc[t] \notin {"idle", "held", "error"}
          /\ \A u \in Threads \ {t} : pc'[u] = pc[u]
          /\ op' = op /\ pos' = pos
      BY <1>3 DEF LockInv, LockTypeOK, LockStep, Spin, UnlockTest, Test, Load, CasDone, CasFails
    <2>2. /\ pc'[t] # "idle" \/ op[t] = "unlock"
          /\ pc'[t] = "held" => op[t] = "lock"
      BY <1>3, <2>1 DEF LockInv, LockTypeOK, LockStep, Spin, UnlockTest, Test, Load, CasDone,
                        CasFails, AfterFailure, Sets
    <2>3. req[t] # NULL /\ at[t] \notin AtTable /\ (at[t] = "out" <=> op[t] = "unlock")
      BY <2>1
    <2>4. UNCHANGED <<req, at, res>>
      BY <1>3 DEF mapVars
    <2>5. \A u \in Threads \ {t} : pc'[u] = pc[u] /\ op'[u] = op[u] /\ pos'[u] = pos[u]
      BY <2>1
    <2> QED
      BY <2>1, <2>2, <2>3, <2>4, <2>5
  <1>4. ASSUME NEW t \in Threads, Return(t) PROVE InCall'
    BY <1>4 DEF Return
  <1>5. ASSUME NEW t \in Threads, NEW x, x # "pending", Answer(t, x),
               req[t] # NULL, pc[t] = "held"
        PROVE  InCall'
    BY <1>5 DEF Answer
  <1>6. ASSUME NEW t \in Threads, InsertFirst(t) \/ InsertOver(t) \/ InsertLink(t)
        PROVE  InCall'
    <2>1. PICK x \in {"true", "false"} : Answer(t, x)
      BY <1>6, Zenon DEF InsertFirst, InsertOver, InsertLink
    <2>2. pc[t] = "held"
      BY <1>6, Zenon DEF InsertFirst, InsertOver, InsertLink, Inside
    <2> QED
      BY <1>5, <2>1, <2>2
  <1>7. ASSUME NEW t \in Threads, FindNothing(t) PROVE InCall'
    BY <1>5, <1>7, MapAssumption DEF FindNothing, Inside
  <1>8. ASSUME NEW t \in Threads, FindCopy(t) PROVE InCall'
    <2>1. req[t] # NULL /\ entry[t] \in 1..Len(Chain(t)) /\ pc[t] = "held"
      BY <1>8 DEF FindCopy, Inside, AllValid, Valid
    <2>2. Chain(t)[entry[t]].val # "pending"
      <3>1. Chain(t)[entry[t]] \in Entries
        BY <2>1, InTable
      <3> QED
        BY <3>1, MapAssumption DEF Entries
    <2> QED
      BY <1>5, <1>8, <2>1, <2>2 DEF FindCopy
  <1>9. ASSUME NEW t \in Threads, Look(t) \/ InsertWalk(t) \/ FindWalk(t) PROVE InCall'
    BY <1>9 DEF Look, InsertWalk, FindWalk, Inside
  <1>10. CASE UNCHANGED allVars
    BY <1>10 DEF allVars
  <1> QED
    BY <1>1, <1>2, <1>3, <1>4, <1>6, <1>7, <1>8, <1>9, <1>10 DEF Next

\* What every thread knows of its chain stays true.
LEMMA ValidStep == MapInv /\ [Next]_allVars => AllValid'
  <1> SUFFICES ASSUME MapInv, [Next]_allVars PROVE AllValid'
    OBVIOUS
  <1> USE DEF MapInv, MapTypeOK
  <1>1. ASSUME NEW t \in Threads, Call(t) PROVE AllValid'
    <2>1. Valid(t)'
      BY <1>1 DEF Call, Valid
    <2> QED
      BY <1>1, <2>1, OthersValid DEF Call, AllValid
  <1>2. ASSUME NEW t \in Threads, Unlock(t) \/ (LockStep(t) /\ UNCHANGED mapVars)
        PROVE  AllValid'
    BY <1>2 DEF Unlock, mapVars, AllValid, Valid, Chain
  <1>3. ASSUME NEW t \in Threads, Return(t) PROVE AllValid'
    <2>1. Valid(t)'
      BY <1>3 DEF Return, Valid, InCall
    <2> QED
      BY <1>3, <2>1, OthersValid DEF Return, AllValid
  <1>4. ASSUME NEW t \in Threads, InsertFirst(t) \/ InsertOver(t) \/ InsertLink(t)
        PROVE  AllValid'
    <2>1. PICK x \in {"true", "false"} : Answer(t, x)
      BY <1>4, Zenon DEF InsertFirst, InsertOver, InsertLink
    <2>2. Valid(t)'
      BY <2>1 DEF Answer, Valid
    <2>3. pc[t] = "held"
      BY <1>4, Zenon DEF InsertFirst, InsertOver, InsertLink, Inside
    <2>4. table' # table => /\ req[t] # NULL
                            /\ \A b \in Buckets \ {Bucket(req[t].key)} : table'[b] = table[b]
      BY <1>4, TableStep
    <2> QED
      BY <2>1, <2>2, <2>3, <2>4, OthersValid DEF Answer, AllValid
  <1>5. ASSUME NEW t \in Threads, FindNothing(t) \/ FindCopy(t) PROVE AllValid'
    <2>1. Valid(t)'
      BY <1>5 DEF FindNothing, FindCopy, Answer, Valid
    <2> QED
      BY <1>5, <2>1, OthersValid DEF FindNothing, FindCopy, Answer, AllValid
  <1>6. ASSUME NEW t \in Threads, Look(t) \/ InsertWalk(t) \/ FindWalk(t) PROVE AllValid'
    <2>1. req[t] # NULL /\ UNCHANGED <<table, req>> /\ Chain(t) \in Seq(Entries)
      BY <1>6, InTable DEF Look, InsertWalk, FindWalk, Inside, InCall
    <2>2. Chain(t)' = Chain(t) /\ Valid(t) /\ Len(Chain(t)) \in Nat
      BY <2>1 DEF Chain, AllValid
    <2>3. ASSUME Look(t) PROVE Valid(t)'
      <3>1. \/ at'[t] = "first" /\ Chain(t) = <<>>
            \/ at'[t] = "walk" /\ entry'[t] = 1 /\ Chain(t) # <<>>
        BY <2>3 DEF Look
      <3>2. Chain(t) # <<>> => Len(Chain(t)) > 0
        BY <2>1
      <3> QED
        BY <2>2, <3>1, <3>2 DEF Valid
    <2>4. ASSUME InsertWalk(t) PROVE Valid(t)'
      <3>1. /\ at[t] = "walk" /\ req[t].op = "insert" /\ Chain(t)[entry[t]].key # req[t].key
            /\ \/ at'[t] = "link" /\ entry'[t] = entry[t] /\ entry[t] = Len(Chain(t))
               \/ at'[t] = "walk" /\ entry'[t] = entry[t] + 1 /\ entry[t] # Len(Chain(t))
        BY <2>4 DEF InsertWalk, Inside, OtherKey
      <3>2. /\ entry[t] \in 1..Len(Chain(t))
            /\ \A i \in 1..entry[t] : i = entry[t] \/ i \in 1..(entry[t] - 1)
            /\ \A i \in 1..(entry[t] - 1) : Chain(t)[i].key # req[t].key
        BY <2>2, <3>1 DEF Valid
      <3>3. \A i \in 1..entry[t] : Chain(t)[i].key # req[t].key
        BY <3>1, <3>2
      <3> QED
        BY <2>1, <2>2, <3>1, <3>2, <3>3 DEF Valid
    <2>5. ASSUME FindWalk(t) PROVE Valid(t)'
      <3>1. /\ at[t] = "walk" /\ req[t].op = "find" /\ entry[t] <= Len(Chain(t))
            /\ \/ /\ Chain(t)[entry[t]].key = req[t].key
                  /\ at'[t] = "copy" /\ entry'[t] = entry[t]
               \/ /\ Chain(t)[entry[t]].key # req[t].key
                  /\ at'[t] = "walk" /\ entry'[t] = entry[t] + 1
        BY <2>5 DEF FindWalk, Inside
      <3>2. /\ entry[t] \in 1..Len(Chain(t))
            /\ \A i \in 1..(entry[t] - 1) : Chain(t)[i].key # req[t].key
        BY <2>2, <3>1 DEF Valid
      <3> QED
        BY <2>1, <2>2, <3>1, <3>2 DEF Valid
    <2> QED
      BY <1>6, <2>1, <2>3, <2>4, <2>5, OthersValid DEF Look, InsertWalk, FindWalk, AllValid
  <1>7. CASE UNCHANGED allVars
    BY <1>7 DEF allVars, AllValid, Valid, Chain
  <1> QED
    BY <1>1, <1>2, <1>3, <1>4, <1>5, <1>6, <1>7 DEF Next

\* No step gives a key a second entry or puts it into a foreign chain.
LEMMA OneEntryStep == MapInv /\ [Next]_allVars => OneEntryPerKey'
  <1> SUFFICES ASSUME MapInv, [Next]_allVars PROVE OneEntryPerKey'
    OBVIOUS
  <1> USE DEF MapInv, MapTypeOK
  <1>1. CASE table' = table
    BY <1>1 DEF OneEntryPerKey
  <1>2. ASSUME NEW t \in Threads, InsertFirst(t) \/ InsertOver(t) \/ InsertLink(t),
               table' # table
        PROVE  OneEntryPerKey'
    <2> DEFINE b == Bucket(req[t].key)
               n == NewEntry(t)
    <2>1. /\ b \in Buckets /\ n \in Entries /\ n.key = req[t].key
          /\ Chain(t) = table[b] /\ table[b] \in Seq(Entries)
      BY <1>2, TableStep, InTable DEF Chain, NewEntry
    <2>2. \A c \in Buckets \ {b} : table'[c] = table[c]
      BY <1>2, TableStep
    <2>3. \A i \in 1..Len(table[b]) : Bucket(table[b][i].key) = b
      BY <2>1 DEF OneEntryPerKey
    <2>4. \A i, j \in 1..Len(table'[b]) :
            /\ Bucket(table'[b][i].key) = b
            /\ table'[b][i].key = table'[b][j].key => i = j
      <3>1. CASE table' = [table EXCEPT ![b] = <<n>>]
        BY <2>1, <3>1
      <3>2. CASE /\ entry[t] \in 1..Len(Chain(t)) /\ Chain(t)[entry[t]].key = req[t].key
                 /\ table' = [table EXCEPT ![b] = [@ EXCEPT ![entry[t]] = n]]
        <4>1. table'[b] = [table[b] EXCEPT ![entry[t]] = n]
          BY <2>1, <3>2
        <4>2. /\ Len(table'[b]) = Len(table[b])
              /\ \A i \in 1..Len(table[b]) : table'[b][i].key = table[b][i].key
          BY <2>1, <3>2, <4>1
        <4> QED
          BY <2>1, <2>3, <4>2 DEF OneEntryPerKey
      <3>3. CASE /\ \A i \in 1..Len(Chain(t)) : Chain(t)[i].key # req[t].key
                 /\ table' = [table EXCEPT ![b] = Append(@, n)]
        <4>1. /\ Len(table'[b]) = Len(table[b]) + 1 /\ table'[b][Len(table[b]) + 1] = n
              /\ \A i \in 1..Len(table[b]) : table'[b][i] = table[b][i]
          BY <2>1, <3>3
        <4> QED
          BY <2>1, <2>3, <3>3, <4>1 DEF OneEntryPerKey
      <3> QED
        BY <1>2, <3>1, <3>2, <3>3, TableStep, Zenon
    <2>5. ASSUME NEW c \in Buckets, NEW i \in 1..Len(table'[c]), NEW j \in 1..Len(table'[c])
          PROVE  /\ Bucket(table'[c][i].key) = c
                 /\ table'[c][i].key = table'[c][j].key => i = j
      <3>1. CASE c = b
        BY <2>4, <3>1
      <3>2. CASE c # b
        BY <2>2, <3>2 DEF OneEntryPerKey
      <3> QED
        BY <3>1, <3>2
    <2> QED
      BY <2>5 DEF OneEntryPerKey, Bucket
  <1> QED
    BY <1>1, <1>2 DEF Next, allVars, mapVars, Call, Unlock, Return, Look, InsertWalk, FindNothing,
                      FindWalk, FindCopy

LEMMA MapStep == MapInv /\ [Next]_allVars => MapInv'
  BY MapTypeStep, InCallStep, ValidStep, OneEntryStep, LockRefines, LockInvStep DEF MapInv

\* The invariant holds in every state of the map.
THEOREM MapInvariant == Spec => []MapInv
  BY MapInit, MapStep, PTL DEF Spec

-----------------------------------------------------------------------------
(* What callers see.                                                       *)

\* A chain without the key has no value for it.
LEMMA ValueNone ==
  ASSUME NEW c, NEW k, \A i \in 1..Len(c) : c[i].key # k PROVE ValueIn(c, k) = NULL
  BY DEF ValueIn

\* A chain with one entry for the key has its value.
LEMMA ValueAt ==
  ASSUME NEW c, NEW k, NEW i \in 1..Len(c), c[i].key = k,
         \A j \in 1..Len(c) : c[j].key = k => j = i
  PROVE  ValueIn(c, k) = c[i].val
  <1>1. {j \in 1..Len(c) : c[j].key = k} = {i}
    OBVIOUS
  <1>2. (CHOOSE j \in {i} : \A h \in {i} : j <= h) = i
    OBVIOUS
  <1> QED
    BY <1>1, <1>2 DEF ValueIn

\* What a thread that is about to act knows about the map.
LEMMA ValidLookup ==
  ASSUME MapInv, NEW t \in Threads
  PROVE  /\ at[t] = "first" => Lookup(req[t].key) = NULL
         /\ at[t] = "link" => Lookup(req[t].key) = NULL
         /\ at[t] = "walk" /\ entry[t] > Len(Chain(t)) => Lookup(req[t].key) = NULL
         /\ at[t] = "copy" => Lookup(req[t].key) = Chain(t)[entry[t]].val
  <1>1. Valid(t)
    BY DEF MapInv, AllValid
  <1>2. at[t] # "out" => Chain(t) \in Seq(Entries) /\ Bucket(req[t].key) \in Buckets
    BY InTable DEF MapInv, InCall
  <1>3. Lookup(req[t].key) = ValueIn(Chain(t), req[t].key)
    BY DEF Lookup, Chain
  <1>4. CASE at[t] = "first" \/ at[t] = "link" \/ (at[t] = "walk" /\ entry[t] > Len(Chain(t)))
    <2>1. \A i \in 1..Len(Chain(t)) : Chain(t)[i].key # req[t].key
      BY <1>1, <1>2, <1>4 DEF Valid, MapInv, MapTypeOK
    <2> QED
      BY <1>3, <1>4, <2>1, ValueNone
  <1>5. CASE at[t] = "copy"
    <2>1. entry[t] \in 1..Len(Chain(t)) /\ Chain(t)[entry[t]].key = req[t].key
      BY <1>1, <1>5 DEF Valid
    <2>2. \A j \in 1..Len(Chain(t)) : Chain(t)[j].key = req[t].key => j = entry[t]
      BY <1>2, <1>5, <2>1 DEF MapInv, OneEntryPerKey, Chain
    <2> QED
      BY <1>3, <1>5, <2>1, <2>2, ValueAt
  <1> QED
    BY <1>4, <1>5

\* What a thread found out about its chain in ChainHashMap still holds when it acts.
THEOREM MapEntryValid == Spec => []EntryValid
  <1>1. MapInv => EntryValid
    <2> SUFFICES ASSUME MapInv, NEW t \in Threads
                 PROVE  /\ at[t] = "first" => Chain(t) = <<>>
                        /\ at[t] \in {"walk", "link", "copy"}
                             => entry[t] \in 1..(Len(Chain(t)) + 1)
                        /\ at[t] = "link" => /\ entry[t] = Len(Chain(t))
                                             /\ Lookup(req[t].key) = NULL
                        /\ at[t] = "copy" => /\ entry[t] <= Len(Chain(t))
                                             /\ Chain(t)[entry[t]].key = req[t].key
      BY DEF EntryValid
    <2>1. at[t] # "out" => Chain(t) \in Seq(Entries)
      BY InTable DEF MapInv, InCall
    <2>2. Valid(t)
      BY DEF MapInv, AllValid
    <2> QED
      BY <2>1, <2>2, ValidLookup DEF Valid
  <1> QED
    BY <1>1, MapInvariant, PTL

\* ChainHashMap::insert never gives a key a second entry.
THEOREM MapOneEntryPerKey == Spec => []OneEntryPerKey
  BY MapInvariant, PTL DEF MapInv

-----------------------------------------------------------------------------
(* The map implements the atomic map.                                      *)

LEMMA MapRefinesInit == Init => Map!Init
  <1> SUFFICES ASSUME Init PROVE Map!Init
    OBVIOUS
  <1>1. ASSUME NEW k \in Keys PROVE Lookup(k) = NULL
    BY BucketType, ValueNone DEF Init, Lookup
  <1> QED
    BY <1>1 DEF Init, Map!Init

\* A step that leaves the table alone leaves the abstract map alone.
LEMMA SameMap == table' = table => [k \in Keys |-> Lookup(k)]' = [k \in Keys |-> Lookup(k)]
  BY DEF Lookup

\* A successful insert changes the value of its key and of no other.
LEMMA InsertLookup ==
  ASSUME MapInv, OneEntryPerKey', MapTypeOK', NEW t \in Threads,
         InsertFirst(t) \/ InsertOver(t) \/ InsertLink(t), res'[t] = "true",
         NEW k \in Keys
  PROVE  Lookup(k)' = IF k = req[t].key THEN req[t].val ELSE Lookup(k)
  <1> DEFINE b == Bucket(req[t].key)
             n == NewEntry(t)
             c == table[b]
             d == table'[b]
  <1>1. /\ req[t] # NULL /\ b \in Buckets /\ Chain(t) = c /\ c \in Seq(Entries)
        /\ n \in Entries /\ n.key = req[t].key /\ n.val = req[t].val
    BY TableStep, InTable DEF Chain, NewEntry
  <1>2. d \in Seq(Entries) /\ \A a \in Buckets \ {b} : table'[a] = table[a]
    BY <1>1, TableStep DEF MapTypeOK
  <1>3. PICK i \in 1..Len(d) :
          /\ d[i] = n
          /\ \A j \in 1..Len(d) \ {i} : j \in 1..Len(c) /\ d[j] = c[j]
          /\ \A j \in 1..Len(c) \ {i} : j \in 1..Len(d) /\ d[j] = c[j]
          /\ i \in 1..Len(c) => c[i].key = req[t].key
    <2>1. CASE c = <<>> /\ table' = [table EXCEPT ![b] = <<n>>]
      <3>1. d = <<n>> /\ MapTypeOK
        BY <1>1, <2>1 DEF MapInv, MapTypeOK
      <3> QED
        BY <2>1, <3>1
    <2>2. CASE /\ entry[t] \in 1..Len(c) /\ c[entry[t]].key = req[t].key
               /\ table' = [table EXCEPT ![b] = [@ EXCEPT ![entry[t]] = n]]
      <3>1. d = [c EXCEPT ![entry[t]] = n]
        BY <1>1, <2>2 DEF MapInv, MapTypeOK
      <3>2. /\ Len(d) = Len(c) /\ d[entry[t]] = n
            /\ \A j \in 1..Len(c) \ {entry[t]} : d[j] = c[j]
        BY <1>1, <2>2, <3>1
      <3> QED
        BY <2>2, <3>2
    <2>3. CASE table' = [table EXCEPT ![b] = Append(@, n)]
      <3>1. d = Append(c, n)
        BY <1>1, <2>3 DEF MapInv, MapTypeOK
      <3>2. /\ Len(d) = Len(c) + 1 /\ d[Len(c) + 1] = n /\ Len(c) \in Nat
            /\ \A j \in 1..Len(c) : d[j] = c[j]
        BY <1>1, <3>1
      <3>3. Len(c) + 1 \in 1..Len(d) /\ Len(c) + 1 \notin 1..Len(c)
        BY <3>2
      <3> QED
        BY <3>2, <3>3
    <2> QED
      BY <1>1, <2>1, <2>2, <2>3, TableStep, Zenon
  <1>4. CASE k = req[t].key
    <2>1. \A j \in 1..Len(d) : d[j].key = k => j = i
      BY <1>1, <1>3, <1>4 DEF OneEntryPerKey
    <2>2. ValueIn(d, k) = n.val
      BY <1>1, <1>3, <1>4, <2>1, ValueAt
    <2> QED
      BY <1>1, <1>4, <2>2 DEF Lookup
  <1>5. CASE k # req[t].key /\ Bucket(k) = b
    <2>1. CASE \A j \in 1..Len(c) : c[j].key # k
      <3>1. \A j \in 1..Len(d) : d[j].key # k
        BY <1>1, <1>3, <1>5, <2>1
      <3> QED
        BY <1>5, <2>1, <3>1, ValueNone DEF Lookup
    <2>2. CASE \E j \in 1..Len(c) : c[j].key = k
      <3>1. PICK j \in 1..Len(c) : c[j].key = k
        BY <2>2
      <3>2. j # i
        BY <1>3, <1>5, <3>1
      <3>3. j \in 1..Len(d) /\ d[j] = c[j]
        BY <1>3, <3>2
      <3>4. /\ \A h \in 1..Len(c) : c[h].key = k => h = j
            /\ \A h \in 1..Len(d) : d[h].key = k => h = j
        BY <1>1, <3>1, <3>3 DEF MapInv, OneEntryPerKey
      <3>5. ValueIn(c, k) = c[j].val /\ ValueIn(d, k) = d[j].val
        BY <3>1, <3>3, <3>4, ValueAt
      <3> QED
        BY <1>5, <3>3, <3>5 DEF Lookup
    <2> QED
      BY <2>1, <2>2
  <1>6. CASE k # req[t].key /\ Bucket(k) # b
    BY <1>2, <1>6, BucketType DEF Lookup
  <1> QED
    BY <1>4, <1>5, <1>6

\* Every step of the map is a step of the atomic map or changes nothing that a caller
\* can see: an insert takes effect where it writes the table, a find where it has its
\* answer.
LEMMA MapRefinesNext == MapInv /\ MapInv' /\ [Next]_allVars => [Map!Next]_(Map!vars)
  <1> SUFFICES ASSUME MapInv, MapInv', [Next]_allVars
               PROVE  Map!Next \/ UNCHANGED Map!vars
    BY DEF Map!vars
  <1> DEFINE map == [k \in Keys |-> Lookup(k)]
  <1>1. ASSUME NEW t \in Threads, Call(t) PROVE Map!Next
    <2>1. Map!Call(t)
      BY <1>1, SameMap DEF Call, Map!Call, Map!Requests, Requests
    <2> QED
      BY <2>1 DEF Map!Next
  <1>2. ASSUME NEW t \in Threads, Return(t) PROVE Map!Next
    <2>1. Map!Return(t)
      BY <1>2, SameMap DEF Return, Map!Return, MapInv, InCall
    <2> QED
      BY <2>1 DEF Map!Next
  <1>3. ASSUME NEW t \in Threads,
               \/ Unlock(t) \/ (LockStep(t) /\ UNCHANGED mapVars)
               \/ Look(t) \/ InsertWalk(t) \/ FindWalk(t)
        PROVE  UNCHANGED Map!vars
    BY <1>3, SameMap DEF Unlock, mapVars, Look, InsertWalk, FindWalk, Map!vars
  <1>4. ASSUME NEW t \in Threads, InsertFirst(t) \/ InsertOver(t) \/ InsertLink(t)
        PROVE  Map!Next
    <2>1. PICK x \in {"true", "false"} : Answer(t, x)
      BY <1>4, Zenon DEF InsertFirst, InsertOver, InsertLink
    <2>2. /\ req[t] # NULL /\ req[t].op = "insert" /\ res[t] = "pending"
      BY <1>4 DEF InsertFirst, InsertOver, InsertLink, Inside, MapInv, InCall, AtTable
    <2>3. req[t].key \in Keys
      BY <2>2, InTable
    <2>4. res' = [res EXCEPT ![t] = x] /\ res'[t] = x /\ req' = req
      BY <2>1 DEF Answer, MapInv, MapTypeOK
    <2>5. CASE x = "true"
      <3>1. map' = [map EXCEPT ![req[t].key] = req[t].val]
        BY <1>4, <2>3, <2>4, <2>5, InsertLookup DEF MapInv
      <3>2. Map!Insert(t)
        BY <2>2, <2>4, <2>5, <3>1 DEF Map!Insert, Map!Pending
      <3> QED
        BY <3>2 DEF Map!Next
    <2>6. CASE x = "false"
      <3>1. table' = table /\ at[t] \in {"first", "link"}
        BY <1>4, <2>4, <2>6 DEF InsertFirst, InsertOver, InsertLink, Inside, Answer, MapInv, MapTypeOK
      <3>2. Map!InsertFails(t)
        BY <2>2, <2>3, <2>4, <2>6, <3>1, SameMap, ValidLookup DEF Map!InsertFails, Map!Pending
      <3> QED
        BY <3>2 DEF Map!Next
    <2> QED
      BY <2>5, <2>6
  <1>5. ASSUME NEW t \in Threads, FindNothing(t) \/ FindCopy(t) PROVE Map!Next
    <2>1. /\ req[t] # NULL /\ req[t].op = "find" /\ res[t] = "pending"
      BY <1>5 DEF FindNothing, FindCopy, Inside, MapInv, InCall, AtTable
    <2>2. req[t].key \in Keys
      BY <2>1, InTable
    <2>3. res' = [res EXCEPT ![t] = Lookup(req[t].key)]
      BY <1>5, ValidLookup DEF FindNothing, FindCopy, Inside, Answer
    <2>4. req' = req /\ table' = table
      BY <1>5 DEF FindNothing, FindCopy, Answer
    <2>5. Map!Find(t)
      BY <2>1, <2>2, <2>3, <2>4, SameMap DEF Map!Find, Map!Pending
    <2> QED
      BY <2>5 DEF Map!Next
  <1>6. CASE UNCHANGED allVars
    BY <1>6, SameMap DEF allVars, Map!vars
  <1> QED
    BY <1>1, <1>2, <1>3, <1>4, <1>5, <1>6 DEF Next

\* To its callers PChainMap is an atomic map, for any threads, keys and buckets.
THEOREM MapImplementsAtomicMap == Spec => ImplementsAtomicMap
  BY MapInvariant, MapRefinesInit, MapRefinesNext, PTL DEF Spec, ImplementsAtomicMap, Map!Spec
=============================================================================
