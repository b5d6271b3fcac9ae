------------------------------ MODULE ArrayLock ------------------------------
(***************************************************************************)
(* The array of one-bit spinlocks of src/util/array_lock.h over the bits   *)
(* of src/util/bit_array.h, one action per access to a shared byte.        *)
(*                                                                         *)
(* Eight locks share a byte, and a byte is only ever written by a          *)
(* compare-and-swap of the whole byte, so a thread that takes or gives     *)
(* back one lock competes with the users of the seven others.  A byte is   *)
(* modelled as the set of its offsets whose bit is set.                    *)
(***************************************************************************)
EXTENDS Integers

CONSTANTS
  Threads,
  BufLen,   \* BitArray::_buf_len, the number of locks
  Used      \* the locks that the threads use

ASSUME UsedAssumption == BufLen \in Nat /\ Used \subseteq 0..(BufLen - 1)

VARIABLES
  bits,     \* bits[w] is the byte _bits_buf[w]
  pc,       \* pc[t] is where thread t is in lock, unlock or try_op
  op,       \* op[t] is the call thread t is in
  pos,      \* pos[t] is the lock that call is about
  old       \* old[t] is the byte try_op has read; {} outside try_op

lockVars == <<bits, pc, op, pos, old>>

\* Broken variant: the position within the byte is not masked.
OffsetUnmasked(p) == p

\* get_position: sizeof(TYPE) * 8 = 8 bits to a byte.
Word(p)   == p \div 8
Offset(p) == p % 8
Words     == 0..(BufLen \div 8)

Calls == {"lock", "try_set", "unlock", "try_clear"}
PCs   == {"idle", "spin", "test", "load", "cas", "held", "utest", "error"}

test_bit(p) == Offset(p) \in bits[Word(p)]

\* Whether the try_op that thread t is in sets the bit or clears it.
Sets(t) == op[t] \in {"lock", "try_set"}

-----------------------------------------------------------------------------
\* create: bzero leaves every lock free.
LockInit == /\ bits = [w \in Words |-> {}]
            /\ pc = [t \in Threads |-> "idle"]
            /\ op = [t \in Threads |-> "none"]
            /\ pos = [t \in Threads |-> 0]
            /\ old = [t \in Threads |-> {}]

\* lock(p) starts to spin.
CallLock(t, p) == /\ pc[t] = "idle"
                  /\ pc' = [pc EXCEPT ![t] = "spin"]
                  /\ op' = [op EXCEPT ![t] = "lock"]
                  /\ pos' = [pos EXCEPT ![t] = p]
                  /\ UNCHANGED <<bits, old>>

\* try_op(p, true): one attempt to take the lock.
CallTrySet(t, p) == /\ pc[t] = "idle"
                    /\ pc' = [pc EXCEPT ![t] = "test"]
                    /\ op' = [op EXCEPT ![t] = "try_set"]
                    /\ pos' = [pos EXCEPT ![t] = p]
                    /\ UNCHANGED <<bits, old>>

\* unlock(pos) and try_op(pos, false) are called by the owner of the lock.
CallUnlock(t) == /\ pc[t] = "held"
                 /\ pc' = [pc EXCEPT ![t] = "utest"]
                 /\ op' = [op EXCEPT ![t] = "unlock"]
                 /\ UNCHANGED <<bits, pos, old>>

CallTryClear(t) == /\ pc[t] = "held"
                   /\ pc' = [pc EXCEPT ![t] = "test"]
                   /\ op' = [op EXCEPT ![t] = "try_clear"]
                   /\ UNCHANGED <<bits, pos, old>>

\* lock leaves its inner loop when it sees the bit clear.
Spin(t) == /\ pc[t] = "spin"
           /\ ~ test_bit(pos[t])
           /\ pc' = [pc EXCEPT ![t] = "test"]
           /\ UNCHANGED <<bits, op, pos, old>>

\* unlock tests the bit before each attempt; a clear bit is its fatal error
\* "lock is unlocked by other thread".
UnlockTest(t) == /\ pc[t] = "utest"
                 /\ pc' = [pc EXCEPT ![t] = IF test_bit(pos[t]) THEN "test" ELSE "error"]
                 /\ UNCHANGED <<bits, op, pos, old>>

\* Broken variant: unlock makes a single attempt.
AfterFailureOnce == [lock |-> "spin", try_set |-> "idle",
                     unlock |-> "idle", try_clear |-> "held"]

\* Where a failed try_op leads: the caller's loop, or its return.
AfterFailure == [lock |-> "spin", try_set |-> "idle",
                 unlock |-> "utest", try_clear |-> "held"]

\* try_op: test_bit(pos), and give up when the bit already is what it would be.
Test(t) ==
  /\ pc[t] = "test"
  /\ pc' = [pc EXCEPT ![t] = IF test_bit(pos[t]) = Sets(t)
                             THEN AfterFailure[op[t]] ELSE "load"]
  /\ UNCHANGED <<bits, op, pos, old>>

\* try_op: old = *lock
Load(t) == /\ pc[t] = "load"
           /\ old' = [old EXCEPT ![t] = bits[Word(pos[t])]]
           /\ pc' = [pc EXCEPT ![t] = "cas"]
           /\ UNCHANGED <<bits, op, pos>>

\* Broken variant: to take a lock, the byte is compared as it was read.
ExpectAsRead(t) == old[t]

\* Broken variant: the bit is set in the byte compared, not in the new one.
ExpectSwapped(t) == IF Sets(t) THEN old[t] \cup {Offset(pos[t])} ELSE old[t]

\* The byte that try_op expects.  To take the lock its bit must be clear, even
\* if another thread took it between the test and the load.
Expect(t) == IF Sets(t) THEN old[t] \ {Offset(pos[t])} ELSE old[t]

\* Broken variant: to give a lock back, the whole byte is cleared.
DesireZero(t) == IF Sets(t) THEN old[t] \cup {Offset(pos[t])} ELSE {}

\* The byte that try_op puts in its place.
Desire(t) == IF Sets(t) THEN old[t] \cup {Offset(pos[t])}
                        ELSE old[t] \ {Offset(pos[t])}

\* The compare-and-swap of try_op succeeds, and with it the call.
CasDone(t) ==
  /\ pc[t] = "cas"
  /\ bits[Word(pos[t])] = Expect(t)
  /\ bits' = [bits EXCEPT ![Word(pos[t])] = Desire(t)]
  /\ pc' = [pc EXCEPT ![t] = IF Sets(t) THEN "held" ELSE "idle"]
  /\ old' = [old EXCEPT ![t] = {}]
  /\ UNCHANGED <<op, pos>>

\* The byte has changed: this lock or one of its neighbours was taken or freed.
CasFails(t) ==
  /\ pc[t] = "cas"
  /\ bits[Word(pos[t])] # Expect(t)
  /\ pc' = [pc EXCEPT ![t] = AfterFailure[op[t]]]
  /\ old' = [old EXCEPT ![t] = {}]
  /\ UNCHANGED <<bits, op, pos>>

\* A step inside one of the methods.
LockStep(t) == \/ Spin(t) \/ UnlockTest(t) \/ Test(t) \/ Load(t)
               \/ CasDone(t) \/ CasFails(t)

LockNext == \E t \in Threads :
              \/ \E p \in Used : CallLock(t, p) \/ CallTrySet(t, p)
              \/ CallUnlock(t) \/ CallTryClear(t)
              \/ LockStep(t)

LockSpec == LockInit /\ [][LockNext]_lockVars

\* The scheduler runs every thread inside a method, and an owner gives its lock
\* back: it calls unlock if not try_op.
FairLockSpec == /\ LockSpec
                /\ \A t \in Threads : /\ WF_lockVars(LockStep(t))
                                      /\ WF_lockVars(CallUnlock(t) \/ CallTryClear(t))
-----------------------------------------------------------------------------
(* Properties.                                                             *)

\* The variables keep their types: no byte beyond the buffer is touched.
LockTypeOK == /\ bits \in [Words -> SUBSET (0..7)]
              /\ pc \in [Threads -> PCs]
              /\ op \in [Threads -> Calls \cup {"none"}]
              /\ pos \in [Threads -> Used \cup {0}]
              /\ \A t \in Threads : pc[t] # "idle" => op[t] \in Calls /\ pos[t] \in Used
              /\ \A t \in Threads : /\ pc[t] = "spin" => op[t] = "lock"
                                    /\ pc[t] = "utest" => op[t] = "unlock"
              /\ old \in [Threads -> SUBSET (0..7)]

\* Thread t owns lock pos[t]: from the compare-and-swap that takes it to the one
\* that gives it back.
Owns(t) == \/ pc[t] = "held"
           \/ pc[t] \in {"utest", "test", "load", "cas"} /\ ~ Sets(t)

\* No two threads own the same lock, however the users of the eight locks in a
\* byte interleave.
MutualExclusion ==
  \A t, u \in Threads : t # u /\ Owns(t) /\ Owns(u) => pos[t] # pos[u]

\* A bit is set exactly while some thread owns its lock: no compare-and-swap
\* loses the bit of a neighbour, or resurrects one.
BitIffOwned ==
  \A p \in 0..(BufLen - 1) : test_bit(p) <=> \E t \in Threads : Owns(t) /\ pos[t] = p

\* unlock never finds its lock "unlocked by other thread".
NoForeignUnlock == \A t \in Threads : pc[t] # "error"

\* The locks do not jam: as long as threads are waiting for, hold or are giving
\* back locks, some lock is taken or given back.  (One waiter, or one owner that
\* gives its lock back, may be overtaken for ever by the users of the byte.)
LockProgress == \/ []<>(\A t \in Threads : pc[t] = "idle")
                \/ []<><<bits' # bits>>_lockVars

=============================================================================
