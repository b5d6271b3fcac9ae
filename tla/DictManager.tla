---------------------------- MODULE DictManager ----------------------------
(***************************************************************************)
(* The manager of dictionaries of src/framework/dict_manager.h and         *)
(* dict_manager.cpp: dictionaries are registered, then one thread loads    *)
(* them all and from time to time reloads those that have changed, while   *)
(* other threads read them.  The results of init and reload are ignored.   *)
(*                                                                         *)
(* Keys are not repeated and all are registered before load is called; the *)
(* readers are done before the manager is destroyed.                       *)
(***************************************************************************)
EXTENDS DictContainer

VARIABLES
  info,       \* info[d] is the registered dict_info_t of d, or NULL
  keys,       \* _dict_key
  loaded,     \* _loaded
  action,     \* the action dict_process is called with
  todo        \* the keys dict_process has still to go through

mgrVars == <<info, keys, loaded, action, todo>>
dictMgrVars == <<gen, mtime, present, gens, released, fore, back, initialized, watching,
                 last_ts, holding, pc, cur, b_f, failed>>
vars == <<dictMgrVars, mgrVars>>

Init == /\ DictInit
        /\ info = [d \in Dicts |-> NULL]
        /\ keys = <<>>
        /\ loaded = FALSE
        /\ action = "none"
        /\ todo = <<>>

\* set_dict_property(d, ...).  Without memory for the dict_info_t nothing happens; when there
\* is none for the dictionary or for its action, the key stays registered without one.
set_dict_property(d) ==
  /\ pc = "setup"
  /\ info[d] = NULL
  /\ \E x \in Properties : info' = [info EXCEPT ![d] = x]
  /\ keys' = Append(keys, d)
  /\ UNCHANGED <<dictMgrVars, loaded, action, todo>>

\* dict_process(a) starts to go through _dict_key.
Process(a) == /\ action' = a
              /\ todo' = keys
              /\ pc' = "next"
              /\ UNCHANGED <<gen, mtime, present, gens, released, dictVars, holding,
                             cur, b_f, failed, info, keys>>

load == /\ pc = "setup"
        /\ Process("LOAD")
        /\ UNCHANGED loaded

\* reload does nothing before load.
reload == /\ pc = "idle"
          /\ loaded
          /\ Process("RELOAD")
          /\ UNCHANGED loaded

\* ~DictManager, when the readers have finished.
destroy == /\ pc = "idle"
           /\ \A r \in Readers : holding[r] = NULL
           /\ loaded
           /\ Process("DEL")
           /\ UNCHANGED loaded

\* Where ActionInstance::process takes the loading thread, for a dictionary with
\* properties x: an invalid one is skipped, and so is the reload of one without.  The
\* call through an action that is not there is undefined, and nothing is said of what
\* comes after it.
Enter(x) == CASE ~ x.valid -> "next"
              [] x.valid /\ ~ x.has_action -> "crashed"
              [] x.valid /\ x.has_action /\ action = "LOAD" -> "init"
              [] x.valid /\ x.has_action /\ action = "RELOAD" -> IF x.with_reload THEN "check" ELSE "next"
              [] x.valid /\ x.has_action /\ action = "DEL" -> "delete"

ProcessNext == /\ pc = "next"
               /\ todo # <<>>
               /\ cur' = Head(todo)
               /\ todo' = Tail(todo)
               /\ pc' = Enter(info[Head(todo)])
               /\ UNCHANGED <<gen, mtime, present, gens, released, dictVars, holding,
                              b_f, failed, info, keys, loaded, action>>

\* delete _dict, whose destructor calls release_all.
Delete == /\ pc = "delete"
          /\ released' = released \cup Releases(cur)
          /\ info' = [info EXCEPT ![cur] = NULL]
          /\ pc' = "next"
          /\ UNCHANGED <<gen, mtime, present, gens, dictVars, holding, cur, b_f, failed,
                         keys, loaded, action, todo>>

\* dict_process returns 0 in any case; load then sets _loaded, and destroy clears it.
ProcessEnd == /\ pc = "next"
              /\ todo = <<>>
              /\ loaded' = CASE action = "LOAD" -> TRUE
                             [] action = "RELOAD" -> loaded
                             [] action = "DEL" -> FALSE
              /\ pc' = IF action = "DEL" THEN "destroyed" ELSE "idle"
              /\ cur' = NULL
              /\ action' = "none"
              /\ UNCHANGED <<gen, mtime, present, gens, released, dictVars, holding,
                             b_f, failed, info, keys, todo>>

\* get_dict(key): a reader may come as soon as the dictionaries are registered.
get_dict_handle(r, d) == /\ pc \notin {"setup", "destroyed", "crashed"}
                         /\ action # "DEL"
                         /\ info[d] # NULL
                         /\ holding' = [holding EXCEPT ![r] = get_dict(d)]
                         /\ UNCHANGED <<gen, mtime, present, gens, released, dictVars,
                                        pc, cur, b_f, failed, mgrVars>>

\* A reader has finished with what get_dict returned.
Drop(r) == /\ holding[r] # NULL
           /\ holding' = [holding EXCEPT ![r] = NULL]
           /\ UNCHANGED <<gen, mtime, present, gens, released, dictVars, pc, cur, b_f,
                          failed, mgrVars>>

ManagerStep == \/ ProcessNext \/ Delete \/ ProcessEnd
               \/ DictStep /\ UNCHANGED mgrVars

Next == \/ load \/ reload \/ destroy \/ ManagerStep
        \/ \E d \in Dicts : \/ set_dict_property(d)
                            \/ Rewrite(d) /\ UNCHANGED mgrVars
                            \/ Remove(d) /\ UNCHANGED mgrVars
        \/ \E r \in Readers : Drop(r) \/ \E d \in Dicts : get_dict_handle(r, d)

Spec == Init /\ [][Next]_vars

\* The loading thread runs, and calls reload again and again until the end.
FairSpec == Spec /\ WF_vars(ManagerStep) /\ WF_vars(reload)

-----------------------------------------------------------------------------
(* Properties.                                                             *)

\* What a reader has in its hands is a dictionary that has been loaded and not
\* released, however often it has been reloaded since.
ReadersSafe == \A r \in Readers :
                 holding[r] # NULL => holding[r] \in (1..Len(gens)) \ released

\* Every pointer of a container points to what is loaded and not released, and no
\* two are equal: release_all releases nothing twice.
Owned ==
  /\ \A d \in Dicts : info[d] # NULL =>
       /\ Releases(d) \subseteq (1..Len(gens)) \ released
       /\ fore[d] = back[d] => fore[d] = NULL
  /\ \A d, e \in Dicts : d # e => Releases(d) \cap Releases(e) = {}

\* Once a dictionary is initialized get_dict never returns NULL, and never a content
\* older than it has returned before, whatever reload and the file do in between.
NeverBack ==
  [][\A d \in Dicts : initialized[d] => /\ get_dict(d)' # NULL
                                        /\ gens'[get_dict(d)'] >= gens[get_dict(d)]]_vars

\* The loading thread is to serve content g of d: the file has it, with a time
\* later than the watcher has seen.
Due(d, g) == /\ loaded /\ initialized[d] /\ info[d] # NULL
             /\ info[d].valid /\ info[d].with_reload
             /\ gen[d] = g /\ present[d] /\ mtime[d] > last_ts[d]

\* An update that the watcher can see reaches the readers, unless it cannot be
\* loaded, is itself replaced or removed, or the manager is destroyed before.
UpdateServed ==
  \A d \in Dicts : \A g \in 1..MaxGen :
    Due(d, g) ~> \/ fore[d] # NULL /\ gens[fore[d]] >= g
                 \/ <<d, g>> \in failed
                 \/ gen[d] > g \/ ~ present[d]
                 \/ ~ loaded
=============================================================================
