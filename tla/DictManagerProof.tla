-------------------------- MODULE DictManagerProof --------------------------
(***************************************************************************)
(* Proofs about the dictionaries and their manager, for any number of      *)
(* dictionaries and readers.                                               *)
(*                                                                         *)
(* The thread that loads is one, but the file may change and the readers   *)
(* may come between any two of its steps.  The invariant says what that    *)
(* thread knows at each of its places.                                     *)
(***************************************************************************)
EXTENDS DictManager, TLAPS

Busy == {"init", "create", "watch", "check", "reload", "set_back", "flip", "delete", "crashed"}
Places == Busy \cup {"setup", "next", "idle", "destroyed"}
Loads == 1..Len(gens)

DictTypeOK ==
  /\ gen \in [Dicts -> Nat] /\ mtime \in [Dicts -> Nat] /\ present \in [Dicts -> BOOLEAN]
  /\ gens \in Seq(Nat) /\ released \subseteq Nat
  /\ fore \in [Dicts -> Nat \cup {NULL}] /\ back \in [Dicts -> Nat \cup {NULL}]
  /\ initialized \in [Dicts -> BOOLEAN]
  /\ last_ts \in [Dicts -> Nat]
  /\ holding \in [Readers -> Nat \cup {NULL}]
  /\ pc \in Places
  /\ cur \in Dicts \cup {NULL} /\ b_f \in Nat \cup {NULL}
  /\ info \in [Dicts -> Properties \cup {NULL}]
  /\ keys \in Seq(Dicts) /\ todo \in Seq(Dicts)
  /\ action \in {"none", "LOAD", "RELOAD", "DEL"}

\* The manager is being destroyed.
Ending == action = "DEL" \/ pc = "destroyed"

\* The action that dict_process is called with is that of the place it is at, and
\* no dictionary is gone through twice.
Control ==
  /\ pc \in {"init", "create", "watch"} => action = "LOAD"
  /\ pc \in {"check", "reload", "set_back", "flip"} => action = "RELOAD"
  /\ pc = "delete" => action = "DEL"
  /\ pc = "next" <=> action # "none" /\ pc \notin Busy
  /\ pc \in Busy => cur \in Dicts /\ \A i \in 1..Len(todo) : todo[i] # cur
  /\ \A i, j \in 1..Len(todo) : todo[i] = todo[j] => i = j
  /\ \A i, j \in 1..Len(keys) : keys[i] = keys[j] => i = j
  /\ \A i \in 1..Len(todo) : info[todo[i]] # NULL
  /\ ~ Ending => \A i \in 1..Len(keys) : info[keys[i]] # NULL

\* init is for the uninitialized, reload for the initialized.
Loading ==
  /\ watching = {d \in Dicts : initialized[d]}
  /\ pc = "setup" => \A d \in Dicts : ~ initialized[d]
  /\ action = "LOAD" => /\ \A i \in 1..Len(todo) : ~ initialized[todo[i]]
                        /\ pc \in Busy \ {"crashed"} => ~ initialized[cur]
  /\ pc \in {"reload", "set_back", "flip"} => initialized[cur]

\* No load has two pointers to it, and nothing is released before the end, when
\* the readers are gone.
References ==
  /\ \A d \in Dicts : fore[d] \in Loads \cup {NULL} /\ back[d] \in Loads \cup {NULL}
  /\ b_f # NULL <=> pc \in {"create", "set_back"}
  /\ b_f # NULL => b_f \in Loads /\ \A d \in Dicts : b_f # fore[d] /\ b_f # back[d]
  /\ \A r \in Readers : holding[r] \in Loads \cup {NULL}
  /\ released # {} => Ending
  /\ Ending => \A r \in Readers : holding[r] = NULL
  /\ \A d \in Dicts : info[d] # NULL => fore[d] \notin released /\ back[d] \notin released
  /\ \A d \in Dicts : fore[d] = back[d] => fore[d] = NULL
  /\ \A d, e \in Dicts : d # e => /\ fore[d] # NULL => fore[d] # fore[e] /\ fore[d] # back[e]
                                  /\ back[d] # NULL => back[d] # fore[e] /\ back[d] # back[e]

\* What was loaded is no newer than the file, and what is about to be served no
\* older than what is served.
Contents ==
  /\ \A d \in Dicts : fore[d] # NULL => gens[fore[d]] <= gen[d]
  /\ \A d \in Dicts : initialized[d] => fore[d] # NULL
  /\ pc = "watch" => fore[cur] # NULL
  /\ pc \in {"create", "set_back"} => gens[b_f] <= gen[cur]
  /\ pc = "set_back" => gens[fore[cur]] <= gens[b_f]
  /\ pc = "flip" => /\ back[cur] # NULL /\ gens[back[cur]] <= gen[cur]
                    /\ gens[fore[cur]] <= gens[back[cur]]

DictInv == DictTypeOK /\ Control /\ Loading /\ References /\ Contents

\* dict_process has taken the next key.
LEMMA Entered ==
  ASSUME DictInv, ProcessNext
  PROVE  /\ pc = "next" /\ cur' \in Dicts /\ cur' = todo[1] /\ info[cur'] # NULL
         /\ pc' \in {"next", "init", "check", "delete", "crashed"}
         /\ pc' = "init" => action = "LOAD"
         /\ pc' = "check" => action = "RELOAD"
         /\ pc' = "delete" => action = "DEL"
         /\ todo' \in Seq(Dicts) /\ Len(todo') = Len(todo) - 1 /\ Len(todo) \in Nat \ {0}
         /\ \A i \in 1..Len(todo') : todo'[i] = todo[i + 1] /\ i + 1 \in 1..Len(todo)
         /\ \A i \in 1..Len(todo') : todo'[i] # cur' /\ info[todo'[i]] # NULL
         /\ \A i, j \in 1..Len(todo') : todo'[i] = todo'[j] => i = j
         /\ UNCHANGED <<dictVars, fileVars, gens, released, holding, b_f, failed, info, keys,
                        loaded, action>>
  <1>1. todo \in Seq(Dicts) /\ todo # <<>>
    BY DEF DictInv, DictTypeOK, ProcessNext
  <1>2. /\ todo' \in Seq(Dicts) /\ Len(todo') = Len(todo) - 1 /\ Len(todo) \in Nat \ {0}
        /\ \A i \in 1..Len(todo') : todo'[i] = todo[i + 1] /\ i + 1 \in 1..Len(todo)
        /\ Head(todo) = todo[1] /\ todo[1] \in Dicts /\ 1 \in 1..Len(todo)
    BY <1>1 DEF ProcessNext
  <1>3. /\ pc = "next" /\ cur' = todo[1] /\ pc' = Enter(info[cur'])
        /\ UNCHANGED <<dictVars, fileVars, gens, released, holding, b_f, failed, info, keys,
                       loaded, action>>
    BY <1>2 DEF ProcessNext, fileVars
  <1>4. info[cur'] # NULL
    BY <1>2, <1>3 DEF DictInv, Control
  <1>5. info[cur'] \in Properties
    BY <1>2, <1>3, <1>4 DEF DictInv, DictTypeOK
  <1>6. action \in {"LOAD", "RELOAD", "DEL"}
    BY <1>3 DEF DictInv, Control, DictTypeOK
  <1>7. /\ pc' \in {"next", "init", "check", "delete", "crashed"}
        /\ pc' = "init" => action = "LOAD"
        /\ pc' = "check" => action = "RELOAD"
        /\ pc' = "delete" => action = "DEL"
    BY <1>3, <1>5, <1>6 DEF Enter, Properties
  <1>8. /\ \A i, j \in 1..Len(todo) : todo[i] = todo[j] => i = j
        /\ \A i \in 1..Len(todo) : info[todo[i]] # NULL
    BY DEF DictInv, Control
  <1>9. \A i \in 1..Len(todo') : todo'[i] # cur' /\ info[todo'[i]] # NULL
    <2> TAKE i \in 1..Len(todo')
    <2>1. i + 1 \in 1..Len(todo) /\ i + 1 # 1 /\ todo'[i] = todo[i + 1]
      BY <1>2
    <2> QED
      BY <1>2, <1>3, <1>8, <2>1
  <1>10. ASSUME NEW i \in 1..Len(todo'), NEW j \in 1..Len(todo'), todo'[i] = todo'[j] PROVE i = j
    <2>1. i + 1 \in 1..Len(todo) /\ j + 1 \in 1..Len(todo) /\ todo[i + 1] = todo[j + 1]
      BY <1>2, <1>10
    <2>2. i + 1 = j + 1
      BY <1>8, <2>1
    <2> QED
      BY <2>2
  <1> QED
    BY <1>2, <1>3, <1>4, <1>7, <1>9, <1>10

\* A key that is registered was not registered before.
LEMMA Registered ==
  ASSUME DictInv, NEW d \in Dicts, set_dict_property(d)
  PROVE  /\ \A i, j \in 1..Len(keys') : keys'[i] = keys'[j] => i = j
         /\ \A i \in 1..Len(keys') : info'[keys'[i]] # NULL
         /\ \A e \in Dicts : info[e] # NULL => info'[e] # NULL
         /\ pc = "setup" /\ UNCHANGED <<dictMgrVars, loaded, action, todo>>
         /\ action = "none" /\ released = {}
  <1>1. /\ keys \in Seq(Dicts) /\ keys' = Append(keys, d)
        /\ pc = "setup" /\ UNCHANGED <<dictMgrVars, loaded, action, todo>> /\ action = "none"
    BY DEF DictInv, DictTypeOK, Control, Busy, set_dict_property
  <1>2. /\ Len(keys') = Len(keys) + 1 /\ Len(keys) \in Nat /\ keys'[Len(keys) + 1] = d
        /\ \A i \in 1..Len(keys) : keys'[i] = keys[i] /\ keys[i] \in Dicts
    BY <1>1
  <1>3. \A i \in 1..Len(keys') : i \in 1..Len(keys) \/ i = Len(keys) + 1
    BY <1>2
  <1>4. /\ \A i, j \in 1..Len(keys) : keys[i] = keys[j] => i = j
        /\ \A i \in 1..Len(keys) : info[keys[i]] # NULL /\ keys[i] # d
    BY <1>1 DEF DictInv, Control, Ending, set_dict_property
  <1>5. PICK x \in Properties : info' = [info EXCEPT ![d] = x]
    BY DEF set_dict_property
  <1>6. x # NULL
    BY DictAssumption
  <1>7. info'[d] # NULL /\ \A e \in Dicts : info[e] # NULL => info'[e] # NULL
    BY <1>5, <1>6 DEF DictInv, DictTypeOK
  <1>8. \A i, j \in 1..Len(keys') : keys'[i] = keys'[j] => i = j
    BY <1>2, <1>3, <1>4
  <1>9. \A i \in 1..Len(keys') : info'[keys'[i]] # NULL
    BY <1>2, <1>3, <1>4, <1>7
  <1>10. released = {}
    BY <1>1 DEF DictInv, References, Ending
  <1> QED
    BY <1>1, <1>7, <1>8, <1>9, <1>10

\* A load adds one to the loads, and disturbs none of them.
LEMMA Loaded ==
  ASSUME DictInv, NEW at, NEW l, LoadDone(at, l), cur \in Dicts
  PROVE  /\ gens' \in Seq(Nat) /\ Len(gens') = Len(gens) + 1 /\ Len(gens) \in Nat
         /\ b_f' = Len(gens) + 1 /\ gens'[b_f'] = gen[cur]
         /\ \A i \in Loads : gens'[i] = gens[i]
         /\ \A i \in Loads : i \in Nat /\ i \in Loads' /\ i # b_f'
  <1>1. gens \in Seq(Nat) /\ gen[cur] \in Nat /\ gens' = Append(gens, gen[cur])
    BY DEF DictInv, DictTypeOK, LoadDone
  <1>2. b_f' = Len(gens) + 1
    BY DEF LoadDone
  <1> QED
    BY <1>1, <1>2 DEF Loads

\* The types.
LEMMA DictTypeStep == DictInv /\ Next => DictTypeOK'
  <1> SUFFICES ASSUME DictInv, Next PROVE DictTypeOK'
    OBVIOUS
  <1> USE DictAssumption DEF DictTypeOK, Places, Busy, dictMgrVars, mgrVars, dictVars, fileVars
  <1> DictTypeOK /\ Control
    BY DEF DictInv
  <1>1. CASE load
    BY <1>1 DEF load, Process
  <1>2. CASE reload
    BY <1>2 DEF reload, Process
  <1>3. CASE destroy
    BY <1>3 DEF destroy, Process
  <1>4. CASE ProcessNext
    BY <1>4, Entered
  <1>5. CASE Delete
    BY <1>5 DEF Delete, Control, Releases
  <1>6. CASE ProcessEnd
    BY <1>6 DEF ProcessEnd
  <1>7. CASE InitLoad /\ UNCHANGED mgrVars
    BY <1>7, Loaded DEF InitLoad, LoadDone, Control
  <1>8. CASE InitFails /\ UNCHANGED mgrVars
    BY <1>8 DEF InitFails
  <1>9. CASE InitCreate /\ UNCHANGED mgrVars
    BY <1>9 DEF InitCreate
  <1>10. CASE InitWatch /\ UNCHANGED mgrVars
    BY <1>10 DEF InitWatch
  <1>11. CASE Check /\ UNCHANGED mgrVars
    BY <1>11 DEF Check, Newer
  <1>12. CASE ReloadLoad /\ UNCHANGED mgrVars
    BY <1>12, Loaded DEF ReloadLoad, LoadDone, Control
  <1>13. CASE ReloadFails /\ UNCHANGED mgrVars
    BY <1>13 DEF ReloadFails
  <1>14. CASE SetBack /\ UNCHANGED mgrVars
    BY <1>14 DEF SetBack
  <1>15. CASE Flip /\ UNCHANGED mgrVars
    BY <1>15 DEF Flip, FlippedBack
  <1>16. ASSUME NEW d \in Dicts, set_dict_property(d) PROVE DictTypeOK'
    BY <1>16 DEF set_dict_property
  <1>17. ASSUME NEW d \in Dicts, (Rewrite(d) \/ Remove(d)) /\ UNCHANGED mgrVars PROVE DictTypeOK'
    <2>1. CASE Rewrite(d)
      <3>1. PICK m \in Times : mtime' = [mtime EXCEPT ![d] = m]
        BY <2>1 DEF Rewrite
      <3>2. gen' \in [Dicts -> Nat] /\ mtime' \in [Dicts -> Nat] /\ present' \in [Dicts -> BOOLEAN]
        BY <2>1, <3>1 DEF Rewrite
      <3> QED
        BY <1>17, <2>1, <3>2 DEF Rewrite
    <2>2. CASE Remove(d)
      BY <1>17, <2>2 DEF Remove
    <2> QED
      BY <1>17, <2>1, <2>2
  <1>18. ASSUME NEW r \in Readers, Drop(r) PROVE DictTypeOK'
    BY <1>18 DEF Drop
  <1>19. ASSUME NEW r \in Readers, NEW d \in Dicts, get_dict_handle(r, d) PROVE DictTypeOK'
    BY <1>19 DEF get_dict_handle, get_dict
  <1> QED
    BY <1>1, <1>2, <1>3, <1>4, <1>5, <1>6, <1>7, <1>8, <1>9, <1>10,
       <1>11, <1>12, <1>13, <1>14, <1>15, <1>16, <1>17, <1>18, <1>19
    DEF Next, ManagerStep, DictStep

\* dict_process goes through every key once.
LEMMA ControlStep == DictInv /\ Next => Control'
  <1> SUFFICES ASSUME DictInv, Next PROVE Control'
    OBVIOUS
  <1> USE DictAssumption DEF DictTypeOK, Control, Busy, Ending, dictMgrVars, mgrVars, dictVars, fileVars
  <1> DictTypeOK /\ Control
    BY DEF DictInv
  <1>1. CASE load
    BY <1>1 DEF load, Process
  <1>2. CASE reload
    BY <1>2 DEF reload, Process
  <1>3. CASE destroy
    BY <1>3 DEF destroy, Process
  <1>4. CASE ProcessNext
    <2>1. /\ pc = "next" /\ pc' \in {"next", "init", "check", "delete", "crashed"} /\ cur' \in Dicts
          /\ UNCHANGED <<info, keys, action>>
      BY <1>4, Entered
    <2>2. /\ pc' = "init" => action = "LOAD"
          /\ pc' = "check" => action = "RELOAD"
          /\ pc' = "delete" => action = "DEL"
      BY <1>4, Entered
    <2>3. \A i \in 1..Len(todo') : todo'[i] # cur' /\ info[todo'[i]] # NULL
      BY <1>4, Entered
    <2>4. \A i, j \in 1..Len(todo') : todo'[i] = todo'[j] => i = j
      BY <1>4, Entered
    <2> HIDE DEF DictTypeOK
    <2> QED
      BY <2>1, <2>2, <2>3, <2>4
  <1>5. CASE Delete
    <2>1. cur \in Dicts /\ pc = "delete" /\ pc' = "next" /\ action = "DEL"
          /\ UNCHANGED <<keys, action, todo, cur>>
      BY <1>5 DEF Delete
    <2>2. \A i \in 1..Len(todo) : todo[i] # cur /\ todo[i] \in Dicts
      BY <2>1
    <2>3. \A d \in Dicts : d # cur => info'[d] = info[d]
      BY <1>5 DEF Delete
    <2>4. \A i \in 1..Len(todo') : info'[todo'[i]] # NULL
      BY <2>1, <2>2, <2>3
    <2> HIDE DEF DictTypeOK
    <2> QED
      BY <2>1, <2>4
  <1>6. CASE ProcessEnd
    BY <1>6 DEF ProcessEnd
  <1>7. CASE InitLoad /\ UNCHANGED mgrVars
    BY <1>7 DEF InitLoad, LoadDone
  <1>8. CASE InitFails /\ UNCHANGED mgrVars
    BY <1>8 DEF InitFails
  <1>9. CASE InitCreate /\ UNCHANGED mgrVars
    BY <1>9 DEF InitCreate
  <1>10. CASE InitWatch /\ UNCHANGED mgrVars
    BY <1>10 DEF InitWatch
  <1>11. CASE Check /\ UNCHANGED mgrVars
    BY <1>11 DEF Check, Newer
  <1>12. CASE ReloadLoad /\ UNCHANGED mgrVars
    BY <1>12 DEF ReloadLoad, LoadDone
  <1>13. CASE ReloadFails /\ UNCHANGED mgrVars
    BY <1>13 DEF ReloadFails
  <1>14. CASE SetBack /\ UNCHANGED mgrVars
    BY <1>14 DEF SetBack
  <1>15. CASE Flip /\ UNCHANGED mgrVars
    BY <1>15 DEF Flip, FlippedBack
  <1>16. ASSUME NEW d \in Dicts, set_dict_property(d) PROVE Control'
    <2>1. \A i \in 1..Len(todo) : todo[i] \in Dicts
      OBVIOUS
    <2>2. \A i \in 1..Len(todo') : info'[todo'[i]] # NULL
      BY <1>16, <2>1, Registered
    <2>3. UNCHANGED <<pc, cur, action, todo>>
      BY <1>16, Registered
    <2> QED
      BY <1>16, <2>2, <2>3, Registered
  <1>17. ASSUME NEW d \in Dicts, (Rewrite(d) \/ Remove(d)) /\ UNCHANGED mgrVars PROVE Control'
    BY <1>17 DEF Rewrite, Remove
  <1>18. ASSUME NEW r \in Readers, Drop(r) PROVE Control'
    BY <1>18 DEF Drop
  <1>19. ASSUME NEW r \in Readers, NEW d \in Dicts, get_dict_handle(r, d) PROVE Control'
    BY <1>19 DEF get_dict_handle, get_dict
  <1> QED
    BY <1>1, <1>2, <1>3, <1>4, <1>5, <1>6, <1>7, <1>8, <1>9, <1>10,
       <1>11, <1>12, <1>13, <1>14, <1>15, <1>16, <1>17, <1>18, <1>19
    DEF Next, ManagerStep, DictStep

\* Who is initialized.
LEMMA LoadingStep == DictInv /\ Next => Loading'
  <1> SUFFICES ASSUME DictInv, Next PROVE Loading'
    OBVIOUS
  <1> USE DictAssumption DEF DictTypeOK, Loading, Busy, dictMgrVars, mgrVars, dictVars, fileVars
  <1> DictTypeOK /\ Control /\ Loading
    BY DEF DictInv
  <1>1. CASE load
    BY <1>1 DEF load, Process
  <1>2. CASE reload
    BY <1>2 DEF reload, Process
  <1>3. CASE destroy
    BY <1>3 DEF destroy, Process
  <1>4. CASE ProcessNext
    <2>1. pc' = "init" => ~ initialized[cur']
      BY <1>4, Entered
    <2>2. action = "LOAD" => \A i \in 1..Len(todo') : ~ initialized[todo'[i]]
      BY <1>4, Entered
    <2>3. pc' # "setup" /\ pc' \notin {"reload", "set_back", "flip"} /\ action' = action
      BY <1>4, Entered
    <2>4. UNCHANGED <<watching, initialized>>
      BY <1>4 DEF ProcessNext
    <2>5. action = "LOAD" => pc' \in {"init", "next", "crashed"}
      BY <1>4, Entered
    <2> QED
      BY <2>1, <2>2, <2>3, <2>4, <2>5
  <1>5. CASE Delete
    BY <1>5 DEF Delete
  <1>6. CASE ProcessEnd
    BY <1>6 DEF ProcessEnd
  <1>7. CASE InitLoad /\ UNCHANGED mgrVars
    BY <1>7 DEF InitLoad, LoadDone
  <1>8. CASE InitFails /\ UNCHANGED mgrVars
    BY <1>8 DEF InitFails
  <1>9. CASE InitCreate /\ UNCHANGED mgrVars
    BY <1>9 DEF InitCreate
  <1>10. CASE InitWatch /\ UNCHANGED mgrVars
    <2>1. cur \in Dicts /\ \A i \in 1..Len(todo) : todo[i] # cur /\ todo[i] \in Dicts
      BY <1>10 DEF InitWatch, Control
    <2>2. \A d \in Dicts : initialized'[d] = IF d = cur THEN TRUE ELSE initialized[d]
      BY <1>10 DEF InitWatch
    <2>3. watching' = {d \in Dicts : initialized'[d]}
      BY <1>10, <2>1, <2>2 DEF InitWatch
    <2> QED
      BY <1>10, <2>1, <2>2, <2>3 DEF InitWatch
  <1>11. CASE Check /\ UNCHANGED mgrVars
    BY <1>11 DEF Check, Newer
  <1>12. CASE ReloadLoad /\ UNCHANGED mgrVars
    BY <1>12 DEF ReloadLoad, LoadDone
  <1>13. CASE ReloadFails /\ UNCHANGED mgrVars
    BY <1>13 DEF ReloadFails
  <1>14. CASE SetBack /\ UNCHANGED mgrVars
    BY <1>14 DEF SetBack
  <1>15. CASE Flip /\ UNCHANGED mgrVars
    BY <1>15 DEF Flip, FlippedBack
  <1>16. ASSUME NEW d \in Dicts, set_dict_property(d) PROVE Loading'
    BY <1>16 DEF set_dict_property
  <1>17. ASSUME NEW d \in Dicts, (Rewrite(d) \/ Remove(d)) /\ UNCHANGED mgrVars PROVE Loading'
    <2>1. UNCHANGED <<watching, initialized, pc, cur, action, todo>>
      BY <1>17 DEF Rewrite, Remove
    <2> QED
      BY <2>1
  <1>18. ASSUME NEW r \in Readers, Drop(r) PROVE Loading'
    BY <1>18 DEF Drop
  <1>19. ASSUME NEW r \in Readers, NEW d \in Dicts, get_dict_handle(r, d) PROVE Loading'
    BY <1>19 DEF get_dict_handle, get_dict
  <1> QED
    BY <1>1, <1>2, <1>3, <1>4, <1>5, <1>6, <1>7, <1>8, <1>9, <1>10,
       <1>11, <1>12, <1>13, <1>14, <1>15, <1>16, <1>17, <1>18, <1>19
    DEF Next, ManagerStep, DictStep

\* Nothing is released while dictionaries are loaded.
LEMMA NothingReleased ==
  ASSUME DictInv, pc \in Busy \ {"delete", "crashed"}
  PROVE  released = {}
  BY DEF DictInv, Control, References, Ending, Busy

LEMMA SameReferences ==
  ASSUME References, UNCHANGED <<fore, back, gens, b_f, holding, released, info>>,
         Ending' <=> Ending,
         pc' \in {"create", "set_back"} <=> pc \in {"create", "set_back"}
  PROVE  References'
  BY DEF References, Loads

\* The pointers of two dictionaries are different, so what is deleted is nobody else's.
LEMMA DeletedApart ==
  ASSUME References, cur \in Dicts, NEW d \in Dicts, d # cur, info[d] # NULL
  PROVE  /\ fore[d] \notin released \cup ({fore[cur], back[cur]} \ {NULL})
         /\ back[d] \notin released \cup ({fore[cur], back[cur]} \ {NULL})
  <1>1. fore[d] \notin released /\ back[d] \notin released
    BY DEF References
  <1>2. /\ fore[d] # NULL => fore[d] # fore[cur] /\ fore[d] # back[cur]
        /\ back[d] # NULL => back[d] # fore[cur] /\ back[d] # back[cur]
    BY DEF References
  <1> QED
    BY <1>1, <1>2

\* A container gets the pointer that was loaded, or exchanges its two.
LEMMA NewPointers ==
  ASSUME DictInv, cur \in Dicts, pc \in {"create", "set_back", "flip"},
         pc' \in {"watch", "flip", "next"}, b_f' = NULL,
         UNCHANGED <<gens, holding, released, info, action>>,
         \/ /\ b_f # NULL
            /\ \A d \in Dicts : /\ fore'[d] = IF d = cur THEN b_f ELSE fore[d]
                                /\ back'[d] = IF d = cur THEN NULL ELSE back[d]
         \/ /\ b_f # NULL
            /\ \A d \in Dicts : /\ fore'[d] = fore[d]
                                /\ back'[d] = IF d = cur THEN b_f ELSE back[d]
         \/ \A d \in Dicts : /\ fore'[d] = IF d = cur THEN back[cur] ELSE fore[d]
                             /\ back'[d] = IF d = cur THEN fore[cur] ELSE back[d]
  PROVE  References'
  <1>1. References /\ Loads' = Loads
    BY DEF DictInv, Loads
  <1>2. released = {} /\ ~ Ending /\ ~ Ending'
    BY NothingReleased DEF DictInv, Control, Ending, Busy
  <1>3. \A d \in Dicts : fore'[d] \in Loads \cup {NULL} /\ back'[d] \in Loads \cup {NULL}
    BY <1>1 DEF References
  <1>4. \A d \in Dicts : fore'[d] = back'[d] => fore'[d] = NULL
    BY <1>1 DEF References
  <1>5. ASSUME NEW d \in Dicts, NEW e \in Dicts, d # e
        PROVE  /\ fore'[d] # NULL => fore'[d] # fore'[e] /\ fore'[d] # back'[e]
               /\ back'[d] # NULL => back'[d] # fore'[e] /\ back'[d] # back'[e]
    <2>1. \A x, y \in Dicts : x # y => /\ fore[x] # NULL => fore[x] # fore[y] /\ fore[x] # back[y]
                                       /\ back[x] # NULL => back[x] # fore[y] /\ back[x] # back[y]
      BY <1>1 DEF References
    <2>2. b_f # NULL => \A x \in Dicts : b_f # fore[x] /\ b_f # back[x]
      BY <1>1 DEF References
    <2>3. CASE d = cur
      BY <1>5, <2>1, <2>2, <2>3
    <2>4. CASE e = cur
      BY <1>5, <2>1, <2>2, <2>4
    <2>5. CASE d # cur /\ e # cur
      BY <1>5, <2>1, <2>5
    <2> QED
      BY <2>3, <2>4, <2>5
  <1> QED
    BY <1>1, <1>2, <1>3, <1>4, <1>5 DEF References

\* What a load returns is a pointer that nobody has.
LEMMA AfterLoad ==
  ASSUME DictInv, NEW at \in {"init", "reload"}, NEW l \in {"create", "set_back"}, LoadDone(at, l),
         UNCHANGED mgrVars
  PROVE  References'
  <1>1. cur \in Dicts /\ pc = at
    BY DEF LoadDone, DictInv, Control, Busy
  <1>2. released = {}
    BY <1>1, NothingReleased DEF Busy
  <1>3. /\ b_f' = Len(gens) + 1 /\ Len(gens) \in Nat
        /\ \A i \in Loads : i \in Loads' /\ i # b_f'
    BY <1>1, Loaded
  <1>4. b_f' \in Loads' /\ b_f' # NULL
    BY <1>1, <1>3, Loaded, DictAssumption DEF Loads
  <1>5. /\ UNCHANGED <<fore, back, holding, released, info, action>> /\ pc' = l
        /\ ~ Ending /\ ~ Ending'
    BY <1>1 DEF LoadDone, dictVars, mgrVars, DictInv, Control, Ending
  <1>6. \A d \in Dicts : b_f' # fore[d] /\ b_f' # back[d]
    BY <1>3, <1>4 DEF DictInv, References
  <1> QED
    BY <1>2, <1>3, <1>4, <1>5, <1>6 DEF DictInv, References

\* The pointers.
LEMMA ReferencesStep == DictInv /\ Next => References'
  <1> SUFFICES ASSUME DictInv, Next PROVE References'
    OBVIOUS
  <1> USE DictAssumption DEF DictTypeOK, References, Ending, dictMgrVars, mgrVars, dictVars, fileVars
  <1> DictTypeOK /\ Control /\ References
    BY DEF DictInv
  <1>1. CASE load
    <2>1. /\ UNCHANGED <<fore, back, gens, b_f, holding, released, info>>
          /\ ~ Ending /\ pc' = "next" /\ pc = "setup" /\ action' = "LOAD"
      BY <1>1 DEF load, Process, Control, Busy
    <2> QED
      BY <2>1, SameReferences
  <1>2. CASE reload
    <2>1. /\ UNCHANGED <<fore, back, gens, b_f, holding, released, info>>
          /\ ~ Ending /\ pc' = "next" /\ pc = "idle" /\ action' = "RELOAD"
      BY <1>2 DEF reload, Process, Control, Busy
    <2> QED
      BY <2>1, SameReferences
  <1>3. CASE destroy
    BY <1>3 DEF destroy, Process, Loads, Control
  <1>4. CASE ProcessNext
    <2>1. /\ UNCHANGED <<fore, back, gens, b_f, holding, released, info, action>>
          /\ pc = "next" /\ pc' \in {"next", "init", "check", "delete", "crashed"}
      BY <1>4, Entered
    <2> QED
      BY <2>1, SameReferences
  <1>5. CASE Delete
    <2>1. cur \in Dicts /\ action = "DEL" /\ pc = "delete" /\ pc' = "next" /\ Ending /\ Ending'
      BY <1>5 DEF Delete, Control, Busy
    <2>2. released' = released \cup ({fore[cur], back[cur]} \ {NULL})
      BY <1>5 DEF Delete, Releases
    <2>3. \A d \in Dicts : info'[d] = IF d = cur THEN NULL ELSE info[d]
      BY <1>5 DEF Delete
    <2>4. UNCHANGED <<fore, back, gens, b_f, holding>>
      BY <1>5 DEF Delete
    <2>5. \A d \in Dicts : info'[d] # NULL => fore[d] \notin released' /\ back[d] \notin released'
      BY <2>1, <2>2, <2>3, DeletedApart
    <2> QED
      BY <2>1, <2>4, <2>5 DEF Loads
  <1>6. CASE ProcessEnd
    BY <1>6 DEF ProcessEnd, Loads, Control
  <1>7. CASE InitLoad /\ UNCHANGED mgrVars
    BY <1>7, AfterLoad DEF InitLoad
  <1>8. CASE InitFails /\ UNCHANGED mgrVars
    BY <1>8 DEF InitFails, Loads
  <1>9. CASE InitCreate /\ UNCHANGED mgrVars
    <2>1. cur \in Dicts /\ b_f # NULL /\ b_f \in Loads /\ pc = "create"
      BY <1>9 DEF InitCreate, Control, Busy
    <2>2. \A d \in Dicts : /\ fore'[d] = IF d = cur THEN b_f ELSE fore[d]
                          /\ back'[d] = IF d = cur THEN NULL ELSE back[d]
      BY <1>9 DEF InitCreate
    <2>3. UNCHANGED <<gens, holding, released, info, action>> /\ b_f' = NULL /\ pc' = "watch"
      BY <1>9 DEF InitCreate
    <2> QED
      BY <2>1, <2>2, <2>3, NewPointers
  <1>10. CASE InitWatch /\ UNCHANGED mgrVars
    BY <1>10 DEF InitWatch, Loads
  <1>11. CASE Check /\ UNCHANGED mgrVars
    BY <1>11 DEF Check, Loads
  <1>12. CASE ReloadLoad /\ UNCHANGED mgrVars
    BY <1>12, AfterLoad DEF ReloadLoad
  <1>13. CASE ReloadFails /\ UNCHANGED mgrVars
    BY <1>13 DEF ReloadFails, Loads
  <1>14. CASE SetBack /\ UNCHANGED mgrVars
    <2>1. cur \in Dicts /\ b_f # NULL /\ b_f \in Loads /\ pc = "set_back"
      BY <1>14 DEF SetBack, Control, Busy
    <2>2. \A d \in Dicts : /\ fore'[d] = fore[d]
                          /\ back'[d] = IF d = cur THEN b_f ELSE back[d]
      BY <1>14 DEF SetBack
    <2>3. UNCHANGED <<gens, holding, released, info, action>> /\ b_f' = NULL /\ pc' = "flip"
      BY <1>14 DEF SetBack
    <2> QED
      BY <2>1, <2>2, <2>3, NewPointers
  <1>15. CASE Flip /\ UNCHANGED mgrVars
    <2>1. cur \in Dicts /\ pc = "flip"
      BY <1>15 DEF Flip, Control, Busy
    <2>2. \A d \in Dicts : /\ fore'[d] = IF d = cur THEN back[cur] ELSE fore[d]
                          /\ back'[d] = IF d = cur THEN fore[cur] ELSE back[d]
      BY <1>15 DEF Flip, FlippedBack
    <2>3. UNCHANGED <<gens, holding, released, info, action, b_f>> /\ pc' = "next"
      BY <1>15 DEF Flip
    <2> QED
      BY <2>1, <2>2, <2>3, NewPointers
  <1>16. ASSUME NEW d \in Dicts, set_dict_property(d) PROVE References'
    <2>1. /\ UNCHANGED <<fore, back, gens, b_f, holding, released, pc, action>>
          /\ released = {} /\ ~ Ending /\ ~ Ending'
      BY <1>16, Registered
    <2> QED
      BY <2>1 DEF Loads
  <1>17. ASSUME NEW d \in Dicts, (Rewrite(d) \/ Remove(d)) /\ UNCHANGED mgrVars PROVE References'
    <2>1. UNCHANGED <<fore, back, gens, b_f, holding, released, info, pc, action>>
      BY <1>17 DEF Rewrite, Remove
    <2> QED
      BY <2>1, SameReferences
  <1>18. ASSUME NEW r \in Readers, Drop(r) PROVE References'
    BY <1>18 DEF Drop, Loads
  <1>19. ASSUME NEW r \in Readers, NEW d \in Dicts, get_dict_handle(r, d) PROVE References'
    BY <1>19 DEF get_dict_handle, get_dict, Loads
  <1> QED
    BY <1>1, <1>2, <1>3, <1>4, <1>5, <1>6, <1>7, <1>8, <1>9, <1>10,
       <1>11, <1>12, <1>13, <1>14, <1>15, <1>16, <1>17, <1>18, <1>19
    DEF Next, ManagerStep, DictStep

\* The contents.
LEMMA ContentsStep == DictInv /\ Next => Contents'
  <1> SUFFICES ASSUME DictInv, Next PROVE Contents'
    OBVIOUS
  <1> USE DictAssumption DEF DictTypeOK, Contents, dictMgrVars, mgrVars, dictVars, fileVars
  <1> DictTypeOK /\ Control /\ Loading /\ References /\ Contents
    BY DEF DictInv
  <1>1. CASE load
    BY <1>1 DEF load, Process
  <1>2. CASE reload
    BY <1>2 DEF reload, Process
  <1>3. CASE destroy
    BY <1>3 DEF destroy, Process
  <1>4. CASE ProcessNext
    BY <1>4, Entered
  <1>5. CASE Delete
    BY <1>5 DEF Delete
  <1>6. CASE ProcessEnd
    BY <1>6 DEF ProcessEnd
  <1>7. CASE InitLoad /\ UNCHANGED mgrVars
    <2>1. cur \in Dicts
      BY <1>7 DEF InitLoad, LoadDone, Control, Busy
    <2>2. /\ gens'[b_f'] = gen[cur] /\ pc' = "create"
          /\ UNCHANGED <<gen, fore, back, initialized, cur>>
      BY <1>7, <2>1, Loaded DEF InitLoad, LoadDone
    <2>3. \A d \in Dicts : fore[d] # NULL => gens'[fore[d]] = gens[fore[d]]
      BY <1>7, <2>1, Loaded DEF InitLoad, References
    <2>4. gen[cur] \in Nat /\ pc' = "create" /\ (\A d \in Dicts : initialized[d] => fore[d] # NULL)
      BY <2>1, <2>2
    <2>5. \A d \in Dicts : fore[d] # NULL => gens[fore[d]] <= gen[d]
      OBVIOUS
    <2> HIDE DEF DictTypeOK
    <2> QED
      BY <2>1, <2>2, <2>3, <2>4, <2>5
  <1>8. CASE InitFails /\ UNCHANGED mgrVars
    BY <1>8 DEF InitFails
  <1>9. CASE InitCreate /\ UNCHANGED mgrVars
    <2>1. cur \in Dicts /\ b_f # NULL
      BY <1>9 DEF InitCreate, Control, Busy, References
    <2>2. \A d \in Dicts : fore'[d] = IF d = cur THEN b_f ELSE fore[d]
      BY <1>9 DEF InitCreate
    <2>3. pc = "create" /\ pc' = "watch" /\ UNCHANGED <<gens, gen, initialized, cur>>
      BY <1>9 DEF InitCreate
    <2> QED
      BY <2>1, <2>2, <2>3
  <1>10. CASE InitWatch /\ UNCHANGED mgrVars
    BY <1>10 DEF InitWatch
  <1>11. CASE Check /\ UNCHANGED mgrVars
    BY <1>11 DEF Check, Newer
  <1>12. CASE ReloadLoad /\ UNCHANGED mgrVars
    <2>1. cur \in Dicts /\ fore[cur] # NULL
      BY <1>12 DEF ReloadLoad, LoadDone, Control, Busy, Loading
    <2>2. /\ gens'[b_f'] = gen[cur] /\ pc' = "set_back"
          /\ UNCHANGED <<gen, fore, back, initialized, cur>>
      BY <1>12, <2>1, Loaded DEF ReloadLoad, LoadDone
    <2>3. \A d \in Dicts : fore[d] # NULL => gens'[fore[d]] = gens[fore[d]]
      BY <1>12, <2>1, Loaded DEF ReloadLoad, References
    <2>4. gen[cur] \in Nat /\ pc' = "set_back" /\ (\A d \in Dicts : initialized[d] => fore[d] # NULL)
      BY <2>1, <2>2
    <2>5. \A d \in Dicts : fore[d] # NULL => gens[fore[d]] <= gen[d]
      OBVIOUS
    <2> HIDE DEF DictTypeOK
    <2> QED
      BY <2>1, <2>2, <2>3, <2>4, <2>5
  <1>13. CASE ReloadFails /\ UNCHANGED mgrVars
    BY <1>13 DEF ReloadFails
  <1>14. CASE SetBack /\ UNCHANGED mgrVars
    <2>1. cur \in Dicts /\ b_f # NULL
      BY <1>14 DEF SetBack, Control, Busy, References
    <2>2. back'[cur] = b_f
      BY <1>14, <2>1 DEF SetBack
    <2>3. pc = "set_back" /\ pc' = "flip" /\ UNCHANGED <<gens, gen, initialized, cur, fore>>
      BY <1>14 DEF SetBack
    <2> QED
      BY <2>1, <2>2, <2>3
  <1>15. CASE Flip /\ UNCHANGED mgrVars
    <2>1. cur \in Dicts
      BY <1>15 DEF Flip, Control, Busy
    <2>2. \A d \in Dicts : fore'[d] = IF d = cur THEN back[cur] ELSE fore[d]
      BY <1>15 DEF Flip
    <2>3. pc = "flip" /\ pc' = "next" /\ UNCHANGED <<gens, gen, initialized>>
      BY <1>15 DEF Flip
    <2> QED
      BY <2>1, <2>2, <2>3
  <1>16. ASSUME NEW d \in Dicts, set_dict_property(d) PROVE Contents'
    BY <1>16 DEF set_dict_property
  <1>17. ASSUME NEW d \in Dicts, (Rewrite(d) \/ Remove(d)) /\ UNCHANGED mgrVars PROVE Contents'
    <2>1. \A e \in Dicts : gen'[e] \in Nat /\ gen[e] <= gen'[e]
      <3>1. CASE Rewrite(d)
        BY <3>1 DEF Rewrite
      <3>2. CASE Remove(d)
        BY <3>2 DEF Remove
      <3> QED
        BY <1>17, <3>1, <3>2
    <2>2. UNCHANGED <<gens, fore, back, initialized, pc, b_f, cur>>
      BY <1>17 DEF Rewrite, Remove
    <2>3. \A n \in Loads : gens[n] \in Nat
      BY DEF Loads
    <2>4. pc \in {"create", "set_back", "flip"} => cur \in Dicts
      BY DEF Control, Busy
    <2>5. \A n \in Loads, e \in Dicts : gens[n] <= gen[e] => gens[n] <= gen'[e]
      BY <2>1, <2>3
    <2> QED
      BY <2>2, <2>4, <2>5 DEF References
  <1>18. ASSUME NEW r \in Readers, Drop(r) PROVE Contents'
    BY <1>18 DEF Drop
  <1>19. ASSUME NEW r \in Readers, NEW d \in Dicts, get_dict_handle(r, d) PROVE Contents'
    BY <1>19 DEF get_dict_handle, get_dict
  <1> QED
    BY <1>1, <1>2, <1>3, <1>4, <1>5, <1>6, <1>7, <1>8, <1>9, <1>10,
       <1>11, <1>12, <1>13, <1>14, <1>15, <1>16, <1>17, <1>18, <1>19
    DEF Next, ManagerStep, DictStep

LEMMA DictInitInv == Init => DictInv
  <1> SUFFICES ASSUME Init PROVE DictInv
    OBVIOUS
  <1> USE DictAssumption DEF Init, DictInit
  <1>1. DictTypeOK
    <2>1. /\ gen \in [Dicts -> {0}] /\ last_ts \in [Dicts -> {0}] /\ mtime \in [Dicts -> Nat]
          /\ present \in [Dicts -> BOOLEAN] /\ initialized \in [Dicts -> BOOLEAN]
      OBVIOUS
    <2>2. /\ fore \in [Dicts -> {NULL}] /\ back \in [Dicts -> {NULL}]
          /\ holding \in [Readers -> {NULL}] /\ info \in [Dicts -> {NULL}]
      OBVIOUS
    <2>3. gens \in Seq(Nat) /\ keys \in Seq(Dicts) /\ todo \in Seq(Dicts) /\ pc = "setup"
      OBVIOUS
    <2> HIDE DEF Init, DictInit
    <2>4. /\ gen \in [Dicts -> Nat] /\ last_ts \in [Dicts -> Nat]
          /\ fore \in [Dicts -> Nat \cup {NULL}] /\ back \in [Dicts -> Nat \cup {NULL}]
          /\ holding \in [Readers -> Nat \cup {NULL}]
          /\ info \in [Dicts -> Properties \cup {NULL}]
      BY <2>1, <2>2
    <2> QED
      BY <2>1, <2>3, <2>4 DEF Init, DictInit, DictTypeOK, Places, Busy
  <1>2. Control /\ Loading
    BY DEF Control, Loading, Busy, Ending
  <1>3. References
    BY DEF References, Loads, Ending
  <1>4. Contents
    BY DEF Contents
  <1> QED
    BY <1>1, <1>2, <1>3, <1>4 DEF DictInv

\* What the loading thread knows at each of its places is true.
THEOREM DictInvariant == Spec => []DictInv
  <1>1. DictInv /\ [Next]_vars => DictInv'
    <2> SUFFICES ASSUME DictInv, [Next]_vars PROVE DictInv'
      OBVIOUS
    <2>1. CASE UNCHANGED vars
      BY <2>1 DEF vars, dictMgrVars, mgrVars, DictInv, DictTypeOK, Control, Loading, References,
         Contents, Loads, Ending
    <2>2. CASE Next
      BY <2>2, DictTypeStep, ControlStep, LoadingStep, ReferencesStep, ContentsStep DEF DictInv
    <2> QED
      BY <2>1, <2>2
  <1> QED
    BY <1>1, DictInitInv, PTL DEF Spec

\* dict_container.h, dict_manager.cpp: what get_dict has returned to a reader stays
\* loaded while the reader uses it, however often reload flips the two pointers.
THEOREM DictReadersSafe == Spec => []ReadersSafe
  <1>1. DictInv => ReadersSafe
    BY DEF DictInv, References, Ending, ReadersSafe, Loads
  <1> QED
    BY <1>1, DictInvariant, PTL

\* dict_container.h: release_all.  Each load is released once at most, and only by
\* the container that has it.
THEOREM DictOwned == Spec => []Owned
  <1>1. ASSUME DictInv PROVE Owned
    <2>1. References
      BY <1>1 DEF DictInv
    <2>2. \A d \in Dicts : info[d] # NULL =>
            /\ Releases(d) \subseteq (1..Len(gens)) \ released
            /\ fore[d] = back[d] => fore[d] = NULL
      BY <2>1 DEF References, Releases, Loads
    <2>3. ASSUME NEW d \in Dicts, NEW e \in Dicts, d # e PROVE Releases(d) \cap Releases(e) = {}
      <3>1. /\ fore[d] # NULL => fore[d] # fore[e] /\ fore[d] # back[e]
            /\ back[d] # NULL => back[d] # fore[e] /\ back[d] # back[e]
        BY <2>1, <2>3 DEF References
      <3> QED
        BY <3>1 DEF Releases
    <2> QED
      BY <2>2, <2>3 DEF Owned
  <1> QED
    BY <1>1, DictInvariant, PTL

\* The steps of the loading thread that a reader of d may notice.
LEMMA ServedStep ==
  ASSUME DictInv, Next, NEW d \in Dicts, initialized[d]
  PROVE  /\ initialized'[d]
         /\ fore'[d] = fore[d] \/ (pc = "flip" /\ cur = d /\ fore'[d] = back[d])
         /\ \A n \in Loads : gens'[n] = gens[n]
  <1> USE DictAssumption DEF dictMgrVars, mgrVars, dictVars, fileVars
  <1>1. /\ initialized \in [Dicts -> BOOLEAN] /\ fore \in [Dicts -> Nat \cup {NULL}]
        /\ gens \in Seq(Nat)
    BY DEF DictInv, DictTypeOK
  <1>2. CASE InitLoad \/ ReloadLoad
    <2>1. \E at \in {"init", "reload"} : \E l : LoadDone(at, l)
      BY <1>2 DEF InitLoad, ReloadLoad
    <2>2. cur \in Dicts
      BY <2>1 DEF LoadDone, DictInv, Control, Busy
    <2> QED
      BY <2>1, <2>2, Loaded DEF LoadDone
  <1>3. CASE InitCreate
    <2>1. cur \in Dicts /\ ~ initialized[cur]
      BY <1>3 DEF InitCreate, DictInv, Control, Loading, Busy
    <2> QED
      BY <1>1, <1>3, <2>1 DEF InitCreate
  <1>4. CASE InitWatch
    BY <1>1, <1>4 DEF InitWatch
  <1>5. CASE Flip
    BY <1>1, <1>5 DEF Flip
  <1>6. CASE UNCHANGED <<initialized, fore, gens>>
    BY <1>6
  <1>7. CASE load \/ reload \/ destroy \/ ProcessNext \/ Delete \/ ProcessEnd
    BY <1>6, <1>7 DEF load, reload, destroy, Process, ProcessNext, Delete, ProcessEnd
  <1>8. CASE InitFails \/ Check \/ ReloadFails \/ SetBack
    BY <1>6, <1>8 DEF InitFails, Check, ReloadFails, SetBack
  <1>9. ASSUME NEW e \in Dicts, set_dict_property(e) \/ Rewrite(e) \/ Remove(e)
        PROVE  UNCHANGED <<initialized, fore, gens>>
    BY <1>9 DEF set_dict_property, Rewrite, Remove
  <1>10. ASSUME NEW r \in Readers, Drop(r) \/ \E e \in Dicts : get_dict_handle(r, e)
         PROVE  UNCHANGED <<initialized, fore, gens>>
    BY <1>10 DEF Drop, get_dict_handle
  <1> QED
    BY <1>2, <1>3, <1>4, <1>5, <1>6, <1>7, <1>8, <1>9, <1>10 DEF Next, ManagerStep, DictStep

\* dict_container.h: init, reload and get_dict.  A dictionary that is initialized is
\* served from then on, and never an older content of it than before.
THEOREM DictNeverBack == Spec => NeverBack
  <1>1. ASSUME DictInv, [Next]_vars
        PROVE  [\A d \in Dicts : initialized[d] => /\ get_dict(d)' # NULL
                                                   /\ gens'[get_dict(d)'] >= gens[get_dict(d)]]_vars
    <2> SUFFICES ASSUME Next, NEW d \in Dicts, initialized[d]
                 PROVE  get_dict(d)' # NULL /\ gens'[get_dict(d)'] >= gens[get_dict(d)]
      BY <1>1
    <2>1. /\ get_dict(d) = fore[d] /\ get_dict(d)' = fore'[d]
          /\ fore'[d] = fore[d] \/ (pc = "flip" /\ cur = d /\ fore'[d] = back[d])
          /\ \A n \in Loads : gens'[n] = gens[n]
      BY <1>1, ServedStep DEF get_dict
    <2>2. fore[d] \in Loads /\ (back[d] # NULL => back[d] \in Loads)
      BY <1>1 DEF DictInv, References, Contents
    <2>3. pc = "flip" /\ cur = d => back[d] # NULL /\ gens[fore[d]] <= gens[back[d]]
      BY <1>1 DEF DictInv, Contents
    <2>4. \A n \in Loads : gens[n] \in Nat /\ n # NULL
      BY <1>1, DictAssumption DEF DictInv, DictTypeOK, Loads
    <2> QED
      BY <2>1, <2>2, <2>3, <2>4
  <1> QED
    BY <1>1, DictInvariant, PTL DEF Spec, NeverBack
=============================================================================
