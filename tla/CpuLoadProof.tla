---------------------------- MODULE CpuLoadProof ----------------------------
(***************************************************************************)
(* Proof that the process singleton has one instance, for any number of    *)
(* threads and objects, while its methods are used by the load monitor.    *)
(***************************************************************************)
EXTENDS CpuLoad, TLAPS

\* The types that the proof needs.
Types == /\ instance \in Objects \cup Outside \cup {NULL}
         /\ news \subseteq Objects
         /\ obj \in [Threads -> Objects \cup {NULL}]
         /\ todo \in [Threads -> SUBSET {"construct", "publish"}]
         /\ pc \in [Threads -> {"idle", "check", "lock", "recheck", "new", "create", "unlock",
                                "return", "got"}]
         /\ NULL \notin handed

\* Between Lock and Unlock the mutex is the thread's.
Locked == \A t \in Threads : pc[t] \in {"recheck", "new", "create", "unlock"} => mutex = t

\* A thread that has passed both tests still finds _instance NULL when it allocates and
\* when it publishes, and an object it has in hand is published or in its way there.
Creating ==
  \A t \in Threads :
    /\ pc[t] = "new" => instance = NULL
    /\ pc[t] # "create" => obj[t] = NULL
    /\ pc[t] = "create" => /\ obj[t] # NULL
                           /\ instance = IF "publish" \in todo[t] THEN NULL ELSE obj[t]

SingletonInv == Types /\ Locked /\ Creating /\ OneInstance

USE SingletonAssumption

\* The first state satisfies the invariant.
LEMMA InitInv == Init => SingletonInv
  BY DEF Init, SingletonInit, SingletonInv, Types, Locked, Creating, OneInstance

\* The unlocked test.
LEMMA CheckInv == ASSUME SingletonInv, NEW t \in Threads, Check(t) PROVE SingletonInv'
  <1>1. Types'
    BY DEF SingletonInv, Types, Creating, Check, Goto
  <1>2. Locked'
    BY DEF SingletonInv, Types, Locked, Check, Goto
  <1>3. Creating'
    BY DEF SingletonInv, Types, Locked, Creating, Check, Goto
  <1>4. OneInstance'
    BY DEF SingletonInv, Types, Locked, Creating, OneInstance, Check, Goto
  <1> QED BY <1>1, <1>2, <1>3, <1>4 DEF SingletonInv

\* Taking the mutex.
LEMMA LockInv == ASSUME SingletonInv, NEW t \in Threads, Lock(t) PROVE SingletonInv'
  <1>1. Types'
    BY DEF SingletonInv, Types, Creating, Lock, Goto
  <1>2. Locked'
    BY DEF SingletonInv, Types, Locked, Lock, Goto
  <1>3. Creating'
    BY DEF SingletonInv, Types, Locked, Creating, Lock, Goto
  <1>4. OneInstance'
    BY DEF SingletonInv, Types, Locked, Creating, OneInstance, Lock, Goto
  <1> QED BY <1>1, <1>2, <1>3, <1>4 DEF SingletonInv

\* The test under the lock is what lets the thread allocate.
LEMMA RecheckInv == ASSUME SingletonInv, NEW t \in Threads, Recheck(t) PROVE SingletonInv'
  <1>1. Types'
    BY DEF SingletonInv, Types, Creating, Recheck, StillNone, Goto
  <1>2. Locked'
    BY DEF SingletonInv, Types, Locked, Recheck, StillNone, Goto
  <1>3. Creating'
    BY DEF SingletonInv, Types, Locked, Creating, Recheck, StillNone, Goto
  <1>4. OneInstance'
    BY DEF SingletonInv, Types, Locked, Creating, OneInstance, Recheck, StillNone, Goto
  <1> QED BY <1>1, <1>2, <1>3, <1>4 DEF SingletonInv

\* An allocated object is in its thread's hands.
LEMMA NewInv == ASSUME SingletonInv, NEW t \in Threads, New(t) PROVE SingletonInv'
  <1>1. Types'
    BY DEF SingletonInv, Types, Creating, New, Goto
  <1>2. Locked'
    BY DEF SingletonInv, Types, Locked, New, Goto
  <1>3. Creating'
    BY DEF SingletonInv, Types, Locked, Creating, New, Goto
  <1>4. OneInstance'
    BY DEF SingletonInv, Types, Locked, Creating, OneInstance, New, Goto
  <1> QED BY <1>1, <1>2, <1>3, <1>4 DEF SingletonInv

\* No memory.
LEMMA NewFailsInv == ASSUME SingletonInv, NEW t \in Threads, NewFails(t) PROVE SingletonInv'
  <1>1. Types'
    BY DEF SingletonInv, Types, Creating, NewFails, Goto
  <1>2. Locked'
    BY DEF SingletonInv, Types, Locked, NewFails, Goto
  <1>3. Creating'
    BY DEF SingletonInv, Types, Locked, Creating, NewFails, Goto
  <1>4. OneInstance'
    BY DEF SingletonInv, Types, Locked, Creating, OneInstance, NewFails, Goto
  <1> QED BY <1>1, <1>2, <1>3, <1>4 DEF SingletonInv

\* The constructor.
LEMMA ConstructInv == ASSUME SingletonInv, NEW t \in Threads, Construct(t) PROVE SingletonInv'
  <1>1. Types'
    BY DEF SingletonInv, Types, Creating, Construct, Goto
  <1>2. Locked'
    BY DEF SingletonInv, Types, Locked, Construct, Goto
  <1>3. Creating'
    BY DEF SingletonInv, Types, Locked, Creating, Construct, Goto
  <1>4. OneInstance'
    BY DEF SingletonInv, Types, Locked, Creating, OneInstance, Construct, Goto
  <1> QED BY <1>1, <1>2, <1>3, <1>4 DEF SingletonInv

\* _instance is NULL when it is stored, whatever bind and other threads did.
LEMMA PublishInv == ASSUME SingletonInv, NEW t \in Threads, Publish(t) PROVE SingletonInv'
  <1>1. Types'
    BY DEF SingletonInv, Types, Creating, Publish, Goto
  <1>2. Locked'
    BY DEF SingletonInv, Types, Locked, Publish, Goto
  <1>3. Creating'
    BY DEF SingletonInv, Types, Locked, Creating, Publish, Goto
  <1>4. OneInstance'
    BY DEF SingletonInv, Types, Locked, Creating, OneInstance, Publish, Goto
  <1> QED BY <1>1, <1>2, <1>3, <1>4 DEF SingletonInv

\* What is dropped from the hand is published.
LEMMA UnlockInv == ASSUME SingletonInv, NEW t \in Threads, Unlock(t) PROVE SingletonInv'
  <1>1. Types'
    BY DEF SingletonInv, Types, Creating, Unlock, Goto
  <1>2. Locked'
    BY DEF SingletonInv, Types, Locked, Unlock, Goto
  <1>3. Creating'
    BY DEF SingletonInv, Types, Locked, Creating, Unlock, Goto
  <1>4. OneInstance'
    BY DEF SingletonInv, Types, Locked, Creating, OneInstance, Unlock, Goto
  <1> QED BY <1>1, <1>2, <1>3, <1>4 DEF SingletonInv

\* What is returned is the instance, which does not change any more.
LEMMA ReturnInv == ASSUME SingletonInv, NEW t \in Threads, Return(t) PROVE SingletonInv'
  <1>1. Types'
    BY DEF SingletonInv, Types, Creating, Return, Goto
  <1>2. Locked'
    BY DEF SingletonInv, Types, Locked, Return, Goto
  <1>3. Creating'
    BY DEF SingletonInv, Types, Locked, Creating, Return, Goto
  <1>4. OneInstance'
    BY DEF SingletonInv, Types, Locked, Creating, OneInstance, Return, Goto
  <1> QED BY <1>1, <1>2, <1>3, <1>4 DEF SingletonInv

\* bind needs the mutex, so it does not come between the test and the store.
LEMMA BindInv == ASSUME SingletonInv, NEW t \in Threads, NEW o \in Outside, Bind(t, o) PROVE SingletonInv'
  <1>1. Types'
    BY DEF SingletonInv, Types, Creating, Bind, Goto
  <1>2. Locked'
    BY DEF SingletonInv, Types, Locked, Bind, Goto
  <1>3. Creating'
    BY DEF SingletonInv, Types, Locked, Creating, Bind, Goto
  <1>4. OneInstance'
    BY DEF SingletonInv, Types, Locked, Creating, OneInstance, Bind, Goto
  <1> QED BY <1>1, <1>2, <1>3, <1>4 DEF SingletonInv

\* A method is called.
LEMMA CallInv == ASSUME SingletonInv, NEW t \in Threads, Call(t) PROVE SingletonInv'
  <1>1. Types'
    BY DEF SingletonInv, Types, Creating, Call, Goto
  <1>2. Locked'
    BY DEF SingletonInv, Types, Locked, Call, Goto
  <1>3. Creating'
    BY DEF SingletonInv, Types, Locked, Creating, Call, Goto
  <1>4. OneInstance'
    BY DEF SingletonInv, Types, Locked, Creating, OneInstance, Call, Goto
  <1> QED BY <1>1, <1>2, <1>3, <1>4 DEF SingletonInv

\* A method ends.
LEMMA EndsInv == ASSUME SingletonInv, NEW t \in Threads, NEW m, Ends(t, m) PROVE SingletonInv'
  <1>1. Types'
    BY DEF SingletonInv, Types, Ends, Goto
  <1>2. Locked' /\ Creating' /\ OneInstance'
    BY DEF SingletonInv, Types, Locked, Creating, OneInstance, Ends, Goto
  <1> QED BY <1>1, <1>2 DEF SingletonInv

\* The samplers do not touch the singleton.
LEMMA FrameInv == SingletonInv /\ UNCHANGED singletonVars => SingletonInv'
  BY DEF SingletonInv, Types, Locked, Creating, OneInstance, singletonVars

\* Every step of the monitor keeps the invariant.
LEMMA NextInv == SingletonInv /\ [Next]_vars => SingletonInv'
  <1> SUFFICES ASSUME SingletonInv, [Next]_vars PROVE SingletonInv'
    OBVIOUS
  <1>1. CASE UNCHANGED vars
    BY <1>1, FrameInv DEF vars
  <1>2. CASE Next
    <2>1. ASSUME NEW t \in Threads, Call(t) PROVE SingletonInv'
      BY <2>1, CallInv
    <2>2. ASSUME NEW t \in Threads, GetInstance(t) PROVE SingletonInv'
      BY <2>2, CheckInv, LockInv, RecheckInv, NewFailsInv, PublishInv, UnlockInv, ReturnInv
      DEF GetInstance
    <2>3. ASSUME NEW t \in Threads, Create(t) PROVE SingletonInv'
      BY <2>3, NewInv, ConstructInv DEF Create
    <2>4. ASSUME NEW t \in Threads,
                 get_cpu_load(t) \/ start(t) \/ StartFails(t) \/ stop(t) \/ join(t)
          PROVE  SingletonInv'
      BY <2>4, EndsInv DEF get_cpu_load, start, StartFails, stop, join
    <2>5. ASSUME NEW t \in Threads, NEW o \in Outside, Bind(t, o) PROVE SingletonInv'
      BY <2>5, BindInv
    <2>6. ASSUME NEW s \in Samplers, SamplerStep(s) PROVE SingletonInv'
      BY <2>6, FrameInv DEF SamplerStep, SamplerTest, Sample
    <2> QED BY <1>2, <2>1, <2>2, <2>3, <2>4, <2>5, <2>6 DEF Next, ThreadStep
  <1> QED BY <1>1, <1>2

\* There is one instance for any number of threads that create, bind and use it, and
\* however the store of _instance and the constructor are ordered.
THEOREM CpuLoadOneInstance == FairSpec => []OneInstance
  <1>1. SingletonInv => OneInstance
    BY DEF SingletonInv
  <1> QED BY InitInv, NextInv, <1>1, PTL DEF FairSpec
=============================================================================
