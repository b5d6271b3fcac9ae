---------------------------- MODULE MCSequential ----------------------------
(***************************************************************************)
(* The sequential code: a client of the recorder appends and clears, and   *)
(* the algorithms are applied to the numbers that get_every gives it,      *)
(* which are all arrays of up to LEN numbers.                              *)
(***************************************************************************)
EXTENDS SequenceRecorder, Algorithms

MCNumbers == -1..2

-----------------------------------------------------------------------------
\* The array, as a tuple.
Array == <<>> \o get_every(LEN)

Count(a, x) == Cardinality({i \in DOMAIN a : a[i] = x})
IsPermutation(a, b) == Len(a) = Len(b) /\ \A x \in Numbers : Count(a, x) = Count(b, x)
Inversions(a) == {p \in (DOMAIN a) \X (DOMAIN a) : p[1] < p[2] /\ a[p[1]] > a[p[2]]}

\* Each sort of algo_sort.h returns its array in order, with every number as often as
\* before.
Sorted ==
  \A a \in {insert_sort(Array), merge_sort[Array]}
             \cup (IF Array = <<>> THEN {} ELSE {quick_sort_v1[Array]}) :
    IsPermutation(a, Array) /\ Inversions(a) = {}

\* In an array in order bin_find returns the index of a number that is there, however
\* often it has gone to the upper or to the lower part.
Found ==
  LET m == merge_sort[Array]
  IN  \A x \in Numbers : Count(m, x) > 0 => m[bin_find(m, x) + 1] = x

\* skip[i] of make_skip is the length of the longest proper border of the first i
\* characters, as the search needs it, for every pattern.
Borders ==
  LET skip == make_skip(Array)
      Border(i, k) == SubSeq(Array, 1, k) = SubSeq(Array, i - k + 1, i)
  IN  /\ \A i \in 1..(Len(Array) - 1) : skip[i + 1] = Max({k \in 0..(i - 1) : Border(i, k)})
      /\ skip[1] = -1
=============================================================================
