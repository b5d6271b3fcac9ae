------------------------------ MODULE Singleton ------------------------------
(***************************************************************************)
(* ProcessSingleton of src/util/singleton.h: an object that is created the *)
(* first time it is asked for, with double-checked locking, or bound from  *)
(* outside.                                                                *)
(*                                                                         *)
(* _instance is neither volatile nor atomic.  The unlocked test races the  *)
(* store under the lock, and nothing orders that store and the stores of   *)
(* the constructor: a thread that has allocated the object does the two in *)
(* any order.                                                              *)
(*                                                                         *)
(* pc[t] is "check" when t calls get_instance and "got" when ret[t] is     *)
(* what get_instance has returned.                                         *)
(***************************************************************************)
EXTENDS Naturals, FiniteSets

CONSTANTS
  Threads,
  Objects,    \* the memory from which get_instance allocates
  Outside,    \* the objects that are made outside and bound
  NULL

ASSUME SingletonAssumption == Objects \cap Outside = {} /\ NULL \notin Threads \cup Objects \cup Outside

VARIABLES
  instance,   \* _instance
  mutex,      \* the thread that has the mutex of autolock<TYPE>, or NULL
  built,      \* the objects whose constructor has run
  news,       \* the objects that get_instance has allocated
  todo,       \* todo[t]: what t has still to do with the object it allocated
  obj,        \* obj[t] is that object, or NULL
  pc, ret,
  handed      \* history: the objects that get_instance has returned

singletonVars == <<instance, mutex, built, news, todo, obj, pc, ret, handed>>

Goto(t, l) == pc' = [pc EXCEPT ![t] = l]

SingletonInit ==
  /\ instance = NULL /\ mutex = NULL
  /\ built = Outside /\ news = {} /\ handed = {}
  /\ todo = [t \in Threads |-> {}]
  /\ obj = [t \in Threads |-> NULL] /\ ret = [t \in Threads |-> NULL]
  /\ pc = [t \in Threads |-> "idle"]

\* The test outside the lock.
Check(t) == /\ pc[t] = "check"
            /\ Goto(t, IF instance = NULL THEN "lock" ELSE "return")
            /\ UNCHANGED <<instance, mutex, built, news, todo, obj, ret, handed>>

Lock(t) == /\ pc[t] = "lock" /\ mutex = NULL
           /\ mutex' = t
           /\ Goto(t, "recheck")
           /\ UNCHANGED <<instance, built, news, todo, obj, ret, handed>>

\* Broken variant: the test is not repeated.
StillNoneAssumed == TRUE

StillNone == instance = NULL

\* The test under the lock.
Recheck(t) == /\ pc[t] = "recheck"
              /\ Goto(t, IF StillNone THEN "new" ELSE "unlock")
              /\ UNCHANGED <<instance, mutex, built, news, todo, obj, ret, handed>>

New(t) == /\ pc[t] = "new"
          /\ \E o \in Objects \ news : news' = news \cup {o} /\ obj' = [obj EXCEPT ![t] = o]
          /\ todo' = [todo EXCEPT ![t] = {"construct", "publish"}]
          /\ Goto(t, "create")
          /\ UNCHANGED <<instance, mutex, built, ret, handed>>

\* There is no memory: _instance stays NULL, and a later call tries again.
NewFails(t) == /\ pc[t] = "new"
               /\ Goto(t, "unlock")
               /\ UNCHANGED <<instance, mutex, built, news, todo, obj, ret, handed>>

Construct(t) == /\ pc[t] = "create" /\ "construct" \in todo[t]
                /\ built' = built \cup {obj[t]}
                /\ todo' = [todo EXCEPT ![t] = @ \ {"construct"}]
                /\ UNCHANGED <<instance, mutex, news, obj, pc, ret, handed>>

Publish(t) == /\ pc[t] = "create" /\ "publish" \in todo[t]
              /\ instance' = obj[t]
              /\ todo' = [todo EXCEPT ![t] = @ \ {"publish"}]
              /\ UNCHANGED <<mutex, built, news, obj, pc, ret, handed>>

\* The end of the block, and with it of autolock.
Unlock(t) == /\ \/ pc[t] = "create" /\ todo[t] = {}
                \/ pc[t] = "unlock"
             /\ mutex' = NULL
             /\ obj' = [obj EXCEPT ![t] = NULL]
             /\ Goto(t, "return")
             /\ UNCHANGED <<instance, built, news, todo, ret, handed>>

\* return _instance, which is read once more.
Return(t) == /\ pc[t] = "return"
             /\ ret' = [ret EXCEPT ![t] = instance]
             /\ handed' = handed \cup ({instance} \ {NULL})
             /\ Goto(t, "got")
             /\ UNCHANGED <<instance, mutex, built, news, todo, obj>>

\* bind: the object is ignored, without a word to the caller, if there is an
\* instance already.
Bind(t, o) == /\ pc[t] = "idle" /\ mutex = NULL
              /\ instance' = IF instance = NULL THEN o ELSE instance
              /\ UNCHANGED <<mutex, built, news, todo, obj, pc, ret, handed>>

\* The steps that do not depend on what the object is.
GetInstance(t) == \/ Check(t) \/ Lock(t) \/ Recheck(t) \/ NewFails(t)
                  \/ Publish(t) \/ Unlock(t) \/ Return(t)

-----------------------------------------------------------------------------
\* There is one instance: every call of get_instance that has returned an object
\* returned this one, whichever threads raced to create or to bind it, and no
\* object was allocated that is not the instance or about to become it.
OneInstance ==
  /\ handed \subseteq {instance}
  /\ \A o \in news : instance = o \/ \E t \in Threads : obj[t] = o
=============================================================================
