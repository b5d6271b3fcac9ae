------------------------------- MODULE CpuLoad -------------------------------
(***************************************************************************)
(* The load monitor of src/monitor/cpu_switch_monitor.h, an object of the  *)
(* process singleton.  A sampling thread goes round its loop as long as    *)
(* _run is true.  The times it measures are left out.                      *)
(*                                                                         *)
(* Any thread may call get_cpu_load; one thread controls the monitor, as   *)
(* main does in monitor/test, and joins a sampler only if it has started   *)
(* one that it has not joined.                                             *)
(***************************************************************************)
EXTENDS Singleton

CONSTANTS
  Main,       \* the thread that calls start, stop and join
  Samplers,   \* the threads that pthread_create may create
  MaxStarts   \* bound: the number of calls of start

ASSUME CpuLoadAssumption == Main \in Threads /\ MaxStarts \in Nat

VARIABLES
  op,         \* op[t] is the method that t is in, once it has called one
  run,        \* run[o] is the _run of object o
  tid,        \* tid[o] is its _tid, NULL until it is first written
  sampler,    \* sampler[s] is where sampling thread s is
  arg,        \* arg[s] is the object it was started with
  starts,     \* the calls of start so far
  unjoined    \* the samplers that have been started and may be joined

loadVars == <<op, run, tid, sampler, arg, starts, unjoined>>
vars == <<singletonVars, loadVars>>

Instances == Objects \cup Outside

\* Memory has some value of _run before the constructor; an object from outside
\* has been constructed.
Init == /\ SingletonInit
        /\ op = [t \in Threads |-> "none"]
        /\ run \in {f \in [Instances -> BOOLEAN] : \A o \in Outside : f[o]}
        /\ tid = [o \in Instances |-> NULL]
        /\ sampler = [s \in Samplers |-> "none"]
        /\ arg = [s \in Samplers |-> NULL]
        /\ starts = 0 /\ unjoined = {}

\* The calls a thread may make.  join of no thread, or of one joined before, is
\* undefined.
Methods(t) == {"get_cpu_load"}
              \cup (IF t = Main THEN {"stop"} ELSE {})
              \cup (IF t = Main /\ starts < MaxStarts THEN {"start"} ELSE {})
              \cup (IF t = Main /\ \E o \in Instances : tid[o] \in unjoined THEN {"join"} ELSE {})

\* Every method starts with get_instance.
Call(t) == /\ pc[t] = "idle"
           /\ \E m \in Methods(t) : /\ op' = [op EXCEPT ![t] = m]
                                    /\ starts' = IF m = "start" THEN starts + 1 ELSE starts
           /\ Goto(t, "check")
           /\ UNCHANGED <<instance, mutex, built, news, todo, obj, ret, handed,
                          run, tid, sampler, arg, unjoined>>

\* The method of t goes on, with what get_instance has returned, and ends.
Ends(t, m) == /\ pc[t] = "got" /\ op[t] = m
              /\ Goto(t, "idle")
              /\ op' = [op EXCEPT ![t] = "none"]
              /\ ret' = [ret EXCEPT ![t] = NULL]
              /\ UNCHANGED <<instance, mutex, built, news, todo, obj, handed, starts>>

get_cpu_load(t) == Ends(t, "get_cpu_load") /\ UNCHANGED <<run, tid, sampler, arg, unjoined>>

\* A second start overwrites _tid.  start does not set _run.
start(t) == /\ Ends(t, "start")
            /\ ret[t] # NULL
            /\ \E s \in Samplers : /\ sampler[s] = "none"
                                   /\ sampler' = [sampler EXCEPT ![s] = "loop"]
                                   /\ arg' = [arg EXCEPT ![s] = ret[t]]
                                   /\ tid' = [tid EXCEPT ![ret[t]] = s]
                                   /\ unjoined' = unjoined \cup {s}
            /\ UNCHANGED run

\* There is no instance, or pthread_create fails.
StartFails(t) == Ends(t, "start") /\ UNCHANGED <<run, tid, sampler, arg, unjoined>>

stop(t) == /\ Ends(t, "stop")
           /\ run' = IF ret[t] = NULL THEN run ELSE [run EXCEPT ![ret[t]] = FALSE]
           /\ UNCHANGED <<tid, sampler, arg, unjoined>>

\* join waits for the thread of the last start.
join(t) == /\ Ends(t, "join")
           /\ sampler[tid[ret[t]]] = "ended"
           /\ unjoined' = unjoined \ {tid[ret[t]]}
           /\ UNCHANGED <<run, tid, sampler, arg>>

\* The constructor: init sets _run.
Create(t) == \/ New(t) /\ UNCHANGED loadVars
             \/ /\ Construct(t)
                /\ run' = [run EXCEPT ![obj[t]] = TRUE]
                /\ UNCHANGED <<op, tid, sampler, arg, starts, unjoined>>

\* Broken variant: _run is read once, before the loop.
RunsAlways(s) == TRUE

Runs(s) == run[arg[s]]

\* start_routine: while (cl->run()).  The calls in the loop make the compiler read
\* _run each time.
SamplerTest(s) == /\ sampler[s] = "loop"
                  /\ sampler' = [sampler EXCEPT ![s] = IF Runs(s) THEN "sample" ELSE "ended"]
                  /\ UNCHANGED <<singletonVars, op, run, tid, arg, starts, unjoined>>

\* The thread sleeps, measures how late it woke, and publishes an average every
\* ARR_LEN rounds.
Sample(s) == /\ sampler[s] = "sample"
             /\ sampler' = [sampler EXCEPT ![s] = "loop"]
             /\ UNCHANGED <<singletonVars, op, run, tid, arg, starts, unjoined>>

ThreadStep(t) == \/ GetInstance(t) /\ UNCHANGED loadVars
                 \/ Create(t)
                 \/ get_cpu_load(t) \/ start(t) \/ StartFails(t) \/ stop(t) \/ join(t)
SamplerStep(s) == SamplerTest(s) \/ Sample(s)

Next == \/ \E t \in Threads : \/ Call(t) \/ ThreadStep(t)
                              \/ \E o \in Outside : Bind(t, o) /\ UNCHANGED loadVars
        \/ \E s \in Samplers : SamplerStep(s)

\* Threads inside a method and samplers are scheduled; nobody has to call.
FairSpec == /\ Init /\ [][Next]_vars
            /\ \A t \in Threads : WF_vars(ThreadStep(t))
            /\ \A s \in Samplers : WF_vars(SamplerStep(s))

-----------------------------------------------------------------------------
\* Once the constructor of the instance has run, stop is for good: every sampler
\* ends, the ones of an earlier or a later start too, whether _tid still names them
\* or not, and a join that waits for one returns.
StopEnds ==
  (\E o \in built : instance = o /\ ~ run[o])
    ~> /\ \A s \in Samplers : sampler[s] \in {"none", "ended"}
       /\ ~ (pc[Main] = "got" /\ op[Main] = "join")
=============================================================================
