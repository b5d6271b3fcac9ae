---------------------------- MODULE MCLruRecent ----------------------------
(***************************************************************************)
(* LruCache for TLC with the history of which items were used last.        *)
(***************************************************************************)
EXTENDS MCLruCache

VARIABLE recent \* the last used items, as many as there is room for

\* The successful put or get of x makes it the last used item.
Use(x) == LET s == Append(SelectSeq(recent, LAMBDA y : y # x), x)
          IN  recent' = IF Len(s) = Capacity THEN Tail(s) ELSE s

RecentInit == Init /\ recent = <<>>

RecentNext == \E x \in Items :
                \/ get(x) /\ Use(x)
                \/ GetMiss(x) /\ UNCHANGED recent
                \/ \E overwrite \in Overwrites :
                     \/ PutFails(x, overwrite) /\ UNCHANGED recent
                     \/ \E v \in Values[x] : put(x, v, overwrite) /\ Use(x)

RecentSpec == RecentInit /\ [][RecentNext]_<<vars, recent>>

\* A least recently used cache keeps what was used last: as many of the last used
\* items as it has room for.
KeepsRecent == \A n \in 1..Len(recent) : get_probing_bucket(recent[n]) # INVALID_INDEX
=============================================================================
