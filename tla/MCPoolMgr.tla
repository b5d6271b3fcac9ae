------------------------------ MODULE MCPoolMgr ------------------------------
(***************************************************************************)
(* The thread pool for TLC.  Which memory an allocation returns makes no   *)
(* difference to the pool, so only the behaviours are explored in which    *)
(* holders and elements are allocated in ascending order: every other one  *)
(* is such a behaviour with its memory renamed.  Nor does it matter which  *)
(* client has made its own elements: they start with one that is chosen.   *)
(* Nobody else gets them before start, when there are no workers.          *)
(***************************************************************************)
EXTENDS PoolMgr

Ascending(memory, used) == \A x \in used, y \in memory : y < x => y \in used

Maker == CHOOSE c \in Clients : TRUE

InOrder == /\ Ascending(Holders, made) /\ Ascending(Resources, produced)
           /\ main = "init" => \A c \in Clients \ {Maker} : mine[c] \cap Own = {}

=============================================================================
