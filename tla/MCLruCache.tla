----------------------------- MODULE MCLruCache -----------------------------
(***************************************************************************)
(* LruCache for TLC.  With capacity 4 the hash has 16 buckets; keys 1 and  *)
(* 17 share one, and key 1 is used with two raw keys.                      *)
(***************************************************************************)
EXTENDS LruCache

MCItems == {<<1, "a">>, <<1, "b">>, <<17, "a">>, <<2, "a">>}

\* Each item has one value, and those with different raw keys differ in it.
MCValues == [x \in MCItems |-> {x[2]}]
=============================================================================
