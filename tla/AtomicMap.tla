----------------------------- MODULE AtomicMap -----------------------------
(***************************************************************************)
(* What a PChainMap (src/container/pchain_map.h) promises to the threads   *)
(* that share it: a map whose insert and find each take effect in one      *)
(* indivisible step between the call and the return.                       *)
(***************************************************************************)
CONSTANTS Threads, Keys, Values, NULL

VARIABLES
  map,   \* map[k] is the value of key k, or NULL
  req,   \* req[t] is the call thread t is in, or NULL
  res    \* res[t] is what that call will return, "pending" until it takes effect

vars == <<map, req, res>>

Requests == [op : {"insert"}, key : Keys, val : Values]
            \cup [op : {"find"}, key : Keys, val : {NULL}]

Init == /\ map = [k \in Keys |-> NULL]
        /\ req = [t \in Threads |-> NULL]
        /\ res = [t \in Threads |-> "pending"]

Call(t) == /\ req[t] = NULL
           /\ \E r \in Requests : req' = [req EXCEPT ![t] = r]
           /\ UNCHANGED <<map, res>>

\* The effect of the call that thread t is in.
Pending(t, m) == req[t] # NULL /\ req[t].op = m /\ res[t] = "pending"

Insert(t) == /\ Pending(t, "insert")
             /\ map' = [map EXCEPT ![req[t].key] = req[t].val]
             /\ res' = [res EXCEPT ![t] = "true"]
             /\ UNCHANGED req

\* There is no memory for a new entry: insert returns false and has no effect.
InsertFails(t) == /\ Pending(t, "insert")
                  /\ map[req[t].key] = NULL
                  /\ res' = [res EXCEPT ![t] = "false"]
                  /\ UNCHANGED <<map, req>>

Find(t) == /\ Pending(t, "find")
           /\ res' = [res EXCEPT ![t] = map[req[t].key]]
           /\ UNCHANGED <<map, req>>

Return(t) == /\ res[t] # "pending"
             /\ req' = [req EXCEPT ![t] = NULL]
             /\ res' = [res EXCEPT ![t] = "pending"]
             /\ UNCHANGED map

Next == \E t \in Threads : \/ Call(t) \/ Return(t)
                           \/ Insert(t) \/ InsertFails(t) \/ Find(t)

Spec == Init /\ [][Next]_vars
=============================================================================
