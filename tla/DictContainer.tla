--------------------------- MODULE DictContainer ---------------------------
(***************************************************************************)
(* The dictionaries of src/container/dict_container.h, each loaded from a  *)
(* file that a FileWatcher (src/util/file_watcher.h) watches: init loads   *)
(* it, reload loads it anew behind the one in use and flips the two.       *)
(*                                                                         *)
(* A step is one access to the file or to the pair of pointers, so that    *)
(* the file may be rewritten and the readers may run in between.  pc is    *)
(* where the one thread that calls init and reload is, cur the dictionary  *)
(* it is about; l in a step is the place that thread returns to.           *)
(***************************************************************************)
EXTENDS Integers, Sequences

CONSTANTS
  Dicts,      \* the DictContainer objects, each with its file
  Readers,    \* the threads that use the dictionaries
  Rewritten,  \* the dictionaries whose files are rewritten
  MaxGen,     \* bound: each of those is rewritten at most so many times
  Times,      \* the modification times a file may get, in seconds
  NULL

\* What the manager registers of a dictionary; it is without an action if there was no
\* memory for one, or for the dictionary.
Properties == [with_reload : BOOLEAN, valid : BOOLEAN, has_action : BOOLEAN]

ASSUME DictAssumption == /\ MaxGen \in Nat /\ Rewritten \subseteq Dicts /\ Times \subseteq Nat
                         /\ NULL \notin Dicts /\ NULL \notin Nat
                         /\ NULL \notin Properties

VARIABLES
  gen, mtime, present, \* of each file: how often rewritten, when, and whether it is there
  gens,       \* gens[n] is the content of what the n-th load has allocated
  released,   \* the loads whose result has been released
  fore, back, \* the two pointers of each container's PointerFlipper
  initialized,
  watching,   \* the containers whose FileWatcher knows its file
  last_ts,    \* FileWatcher::_last_ts
  holding,    \* holding[r] is what get_dict has returned to reader r
  pc, cur, b_f, \* the loading thread: its place, its dictionary, what load returned
  failed      \* history: the contents <<d, g>> that a reload has failed to load

fileVars == <<gen, mtime, present>>
dictVars == <<fore, back, initialized, watching, last_ts>>

DictInit == /\ gen = [d \in Dicts |-> 0]
            /\ mtime \in [Dicts -> Times]
            /\ present = [d \in Dicts |-> TRUE]
            /\ gens = <<>> /\ released = {}
            /\ fore = [d \in Dicts |-> NULL]
            /\ back = [d \in Dicts |-> NULL]
            /\ initialized = [d \in Dicts |-> FALSE]
            /\ watching = {}
            /\ last_ts = [d \in Dicts |-> 0]
            /\ holding = [r \in Readers |-> NULL]
            /\ pc = "setup" /\ cur = NULL /\ b_f = NULL
            /\ failed = {}

\* --- The file, which others rewrite and remove ---------------------------
\* The new modification time may equal the old one, or be before it.
Rewrite(d) == /\ d \in Rewritten
              /\ gen[d] < MaxGen
              /\ gen' = [gen EXCEPT ![d] = @ + 1]
              /\ \E m \in Times : mtime' = [mtime EXCEPT ![d] = m]
              /\ present' = [present EXCEPT ![d] = TRUE]
              /\ UNCHANGED <<gens, released, dictVars, holding, pc, cur, b_f, failed>>

Remove(d) == /\ d \in Rewritten
             /\ present[d]
             /\ gen[d] < MaxGen
             /\ present' = [present EXCEPT ![d] = FALSE]
             /\ UNCHANGED <<gen, mtime, gens, released, dictVars, holding, pc, cur, b_f, failed>>

\* --- load, which each kind of dictionary defines -------------------------
LoadDone(at, l) == /\ pc = at
                   /\ present[cur]
                   /\ gens' = Append(gens, gen[cur])
                   /\ b_f' = Len(gens) + 1
                   /\ pc' = l
                   /\ UNCHANGED <<fileVars, released, dictVars, holding, cur, failed>>

\* --- init -----------------------------------------------------------------
InitLoad == LoadDone("init", "create")

\* init returns -1; the FileWatcher is left without a file.
InitFails == /\ pc = "init"
             /\ pc' = "next"
             /\ UNCHANGED <<fileVars, gens, released, dictVars, holding, cur, b_f, failed>>

\* _fs._bp.create(dict, NULL)
InitCreate == /\ pc = "create"
              /\ fore' = [fore EXCEPT ![cur] = b_f]
              /\ back' = [back EXCEPT ![cur] = NULL]
              /\ b_f' = NULL
              /\ pc' = "watch"
              /\ UNCHANGED <<fileVars, gens, released, initialized, watching, last_ts,
                             holding, cur, failed>>

\* _fs._fw.create(file), whose result is ignored: without a file to look at
\* _last_ts stays 0.  Then the container is initialized.
InitWatch == /\ pc = "watch"
             /\ watching' = watching \cup {cur}
             /\ last_ts' = [last_ts EXCEPT ![cur] = IF present[cur] THEN mtime[cur] ELSE @]
             /\ initialized' = [initialized EXCEPT ![cur] = TRUE]
             /\ pc' = "next"
             /\ UNCHANGED <<fileVars, gens, released, fore, back, holding, cur, b_f, failed>>

\* --- reload ---------------------------------------------------------------
\* Broken variant: an update is taken for none.
NewerReversed(d) == present[d] /\ d \in watching /\ mtime[d] < last_ts[d]

\* What check_and_update_timestamp returns.
Newer(d) == present[d] /\ d \in watching /\ mtime[d] > last_ts[d]

\* check_and_update_timestamp remembers the time of the file, later or not.
Check == /\ pc = "check"
         /\ last_ts' = [last_ts EXCEPT ![cur] = IF present[cur] /\ cur \in watching
                                                THEN mtime[cur] ELSE @]
         /\ pc' = IF Newer(cur) THEN "reload" ELSE "next"
         /\ UNCHANGED <<fileVars, gens, released, fore, back, initialized, watching,
                        holding, cur, b_f, failed>>

\* Broken variant: the new dictionary does not become the back one before the flip.
ReloadLoadUnset == LoadDone("reload", "flip")

ReloadLoad == LoadDone("reload", "set_back")

\* reload returns -1.
ReloadFails == /\ pc = "reload"
               /\ failed' = failed \cup {<<cur, gen[cur]>>}
               /\ pc' = "next"
               /\ UNCHANGED <<fileVars, gens, released, dictVars, holding, cur, b_f>>

\* Broken variant: what the back pointer pointed to is released.
SetBackReleases == /\ pc = "set_back"
                   /\ released' = released \cup ({back[cur]} \ {NULL})
                   /\ back' = [back EXCEPT ![cur] = b_f]
                   /\ b_f' = NULL
                   /\ pc' = "flip"
                   /\ UNCHANGED <<fileVars, gens, fore, initialized, watching, last_ts,
                                  holding, cur, failed>>

\* set_back_pointer(b_f): nobody remembers what the back pointer was.
SetBack == /\ pc = "set_back"
           /\ back' = [back EXCEPT ![cur] = b_f]
           /\ b_f' = NULL
           /\ pc' = "flip"
           /\ UNCHANGED <<fileVars, gens, released, fore, initialized, watching, last_ts,
                          holding, cur, failed>>

\* Broken variant: the new dictionary is in both places.
FlippedBackSame == back[cur]

\* What is behind after the flip.
FlippedBack == fore[cur]

Flip == /\ pc = "flip"
        /\ fore' = [fore EXCEPT ![cur] = back[cur]]
        /\ back' = [back EXCEPT ![cur] = FlippedBack]
        /\ pc' = "next"
        /\ UNCHANGED <<fileVars, gens, released, initialized, watching, last_ts,
                       holding, cur, b_f, failed>>

\* --- get_dict and release_all ----------------------------------------------
get_dict(d) == IF initialized[d] THEN fore[d] ELSE NULL

\* What release_all gives to release.
Releases(d) == {fore[d], back[d]} \ {NULL}

DictStep == \/ InitLoad \/ InitFails \/ InitCreate \/ InitWatch
            \/ Check \/ ReloadLoad \/ ReloadFails \/ SetBack \/ Flip
=============================================================================
