----------------------------- MODULE Algorithms -----------------------------
(***************************************************************************)
(* The algorithms of src/algorithm as operators.  An array is a sequence:  *)
(* element i of the C array is element i + 1 here, and an argument         *)
(* "ar + k, len - k" is a subsequence.  A loop is a function from the      *)
(* number of its rounds to its local variables, and a recursion is a       *)
(* recursive function.                                                     *)
(***************************************************************************)
EXTENDS Integers, Sequences, FiniteSetsExt

Arrays == Seq(Int)

Swap(a, i, j) == [a EXCEPT ![i] = a[j], ![j] = a[i]]
From(a, i) == SubSeq(a, i, Len(a))
Mid(a) == Len(a) \div 2

-----------------------------------------------------------------------------
(* algo_sort.h                                                             *)

\* The last element before i that is not greater than element i, or 0.
Place(arr, i) == Max({0} \cup {k \in 1..(i - 1) : arr[k] <= arr[i]})

\* A round of insert_sort: the elements behind the last one that is not greater
\* than the key move up, and the key takes the place behind that one.
InsertKey(arr, i) ==
  LET j == Place(arr, i)
  IN  [k \in 1..Len(arr) |-> IF k = j + 1 THEN arr[i]
                             ELSE IF k \in (j + 2)..i THEN arr[k - 1] ELSE arr[k]]

insert_sort(arr) ==
  LET rounds[i \in 0..Len(arr)] == IF i <= 1 THEN arr ELSE InsertKey(rounds[i - 1], i)
  IN  rounds[Len(arr)]

\* The loops of merge_sort that merge a1 and a2: taken[k] is what i is when k elements
\* are merged, and j is the rest of k.
Merge(a1, a2) ==
  LET n == Len(a1) + Len(a2)
      taken[k \in 0..n] ==
        IF k = 0 THEN 0
        ELSE LET i == taken[k - 1]
                 j == k - 1 - i
             IN  IF i < Len(a1) /\ (j < Len(a2) => a1[i + 1] < a2[j + 1]) THEN i + 1 ELSE i
  IN  [k \in 1..n |-> IF taken[k] = taken[k - 1] THEN a2[k - taken[k]] ELSE a1[taken[k]]]

merge_sort[arr \in Arrays] ==
  CASE Len(arr) < 2 -> arr
    [] Len(arr) = 2 -> IF arr[1] > arr[2] THEN Swap(arr, 1, 2) ELSE arr
    [] OTHER -> Merge(merge_sort[SubSeq(arr, 1, Mid(arr))], merge_sort[From(arr, Mid(arr) + 1)])

\* A round of the loop of quick_sort_v1.  There is a hole at low (on_high) or at
\* high, and the element next to the other end is tried for it.
QuickRound(s, pivot) ==
  LET h == s.high - 1
      l == s.low + 1
  IN  IF s.on_high
      THEN IF s.ar[h] < pivot
           THEN [ar |-> [s.ar EXCEPT ![s.low] = s.ar[h]], low |-> s.low, high |-> h, on_high |-> FALSE]
           ELSE [ar |-> s.ar, low |-> s.low, high |-> h, on_high |-> TRUE]
      ELSE IF s.ar[l] > pivot
           THEN [ar |-> [s.ar EXCEPT ![s.high] = s.ar[l]], low |-> l, high |-> s.high, on_high |-> TRUE]
           ELSE [ar |-> s.ar, low |-> l, high |-> s.high, on_high |-> FALSE]

\* Broken variant: the hole is taken to be at low whatever the last round has done.
QuickHoleLow(s) == s.low

\* Where the hole is.
QuickHole(s) == IF s.on_high THEN s.low ELSE s.high

\* The array after its loop, with the pivot at mid.
QuickSplit(ar) ==
  LET rounds[i \in 0..(Len(ar) - 1)] ==
        IF i = 0 THEN [ar |-> ar, low |-> 1, high |-> Len(ar) + 1, on_high |-> TRUE]
        ELSE QuickRound(rounds[i - 1], ar[1])
      s   == rounds[Len(ar) - 1]
      mid == QuickHole(s)
  IN  [ar |-> [s.ar EXCEPT ![mid] = ar[1]], mid |-> mid]

\* The lower part is sorted with the pivot, which is its greatest element; it has
\* the length of the whole array if the pivot was the greatest there.
quick_sort_v1[ar \in Arrays \ {<<>>}] ==
  LET s     == QuickSplit(ar)
      lower == SubSeq(s.ar, 1, s.mid)
      upper == From(s.ar, s.mid + 1)
  IN  (IF s.mid > 1 THEN quick_sort_v1[lower] ELSE lower)
      \o (IF Len(upper) > 1 THEN quick_sort_v1[upper] ELSE upper)

\* Broken variant: the middle element is not counted among those before the upper part.
PassedBelow(a) == Mid(a)

\* How many elements are before the upper part.
Passed(a) == Mid(a) + 1

\* The result is an index of the C array.  They are added to the result for the upper
\* part even when that is -1.
bin_find(arr, val) ==
  LET find[a \in Arrays] ==
        IF Len(a) < 1 THEN -1
        ELSE IF val = a[Mid(a) + 1] THEN Mid(a)
        ELSE IF val > a[Mid(a) + 1] THEN Passed(a) + find[From(a, Mid(a) + 2)]
        ELSE find[SubSeq(a, 1, Mid(a))]
  IN  find[arr]

-----------------------------------------------------------------------------
(* qsort.cpp                                                               *)

\* A round of the loop of partition, which ends when b and e meet.
PartitionRound(s, pivot) ==
  CASE s.b >= s.e -> s
    [] s.b < s.e /\ s.on_end /\ s.arr[s.e] < pivot ->
         [arr |-> [s.arr EXCEPT ![s.hole] = s.arr[s.e]], b |-> s.b, e |-> s.e, on_end |-> FALSE, hole |-> s.e]
    [] s.b < s.e /\ s.on_end /\ s.arr[s.e] >= pivot ->
         [arr |-> s.arr, b |-> s.b, e |-> s.e - 1, on_end |-> TRUE, hole |-> s.hole]
    [] s.b < s.e /\ ~ s.on_end /\ s.arr[s.b] > pivot ->
         [arr |-> [s.arr EXCEPT ![s.hole] = s.arr[s.b]], b |-> s.b, e |-> s.e, on_end |-> TRUE, hole |-> s.b]
    [] s.b < s.e /\ ~ s.on_end /\ s.arr[s.b] <= pivot ->
         [arr |-> s.arr, b |-> s.b + 1, e |-> s.e, on_end |-> FALSE, hole |-> s.hole]

\* The segment from beg to end, as an array of its own: the array and the place of the
\* pivot.  No element needs more than two rounds.
partition(arr) ==
  LET rounds[i \in 0..(2 * Len(arr))] ==
        IF i = 0 THEN [arr |-> arr, b |-> 1, e |-> Len(arr), on_end |-> TRUE, hole |-> 1]
        ELSE PartitionRound(rounds[i - 1], arr[1])
      s == rounds[2 * Len(arr)]
  IN  [arr |-> [s.arr EXCEPT ![s.b] = arr[1]], index |-> s.b]

\* end is the last element, so that a segment of two elements is left as it is.
qsort[a \in Arrays] ==
  IF Len(a) - 1 < 2 THEN a
  ELSE LET p == partition(a)
           l == SubSeq(p.arr, 1, p.index - 1)
           h == From(p.arr, p.index + 1)
       IN  (IF Len(l) - 1 > 1 THEN qsort[l] ELSE l)
           \o <<p.arr[p.index]>>
           \o (IF Len(h) - 1 > 1 THEN qsort[h] ELSE h)

-----------------------------------------------------------------------------
(* kmp.cpp and pro.cpp                                                     *)

\* Broken variant: the inner loop falls back only once.
SkipFromOnce(pattern, skip, j0, c) ==
  IF j0 >= 0 /\ pattern[j0 + 1] # c THEN skip[j0 + 1] ELSE j0

\* The inner loop of make_skip, from j0, for the character c.
SkipFrom(pattern, skip, j0, c) ==
  LET j[k \in -1..(Len(skip) - 1)] == IF k >= 0 /\ pattern[k + 1] # c THEN j[skip[k + 1]] ELSE k
  IN  j[j0]

make_skip(pattern) ==
  LET rounds[i \in 1..Len(pattern)] ==
        IF i = 1 THEN <<-1>>
        ELSE LET skip == rounds[i - 1]
             IN  Append(skip, 1 + SkipFrom(pattern, skip, skip[i - 1], pattern[i - 1]))
  IN  IF pattern = <<>> THEN <<-1>> ELSE rounds[Len(pattern)]

\* swap(p, beg, end) of pro.cpp reverses the characters from beg to end - 1.
ReverseRange(p, beg, end) ==
  [i \in 1..Len(p) |-> IF i - 1 \in beg..(end - 1) THEN p[beg + end + 1 - i] ELSE p[i]]

\* Where the next word starts after a blank.
WordAfter(beg) == beg + 1

\* A round of reverse_string: a blank ends the word that starts at last.
ReverseRound(s, beg, blank) ==
  IF s.p[beg + 1] # blank THEN s
  ELSE [p |-> IF s.last # beg THEN ReverseRange(s.p, s.last, beg) ELSE s.p, last |-> WordAfter(beg)]

\* After the loop beg = end, so that the branch for the word behind the last blank, which
\* asks for beg > end, is not taken.
reverse_string(p, blank) ==
  LET rounds[n \in 0..Len(p)] ==
        IF n = 0 THEN [p |-> ReverseRange(p, 0, Len(p)), last |-> 0]
        ELSE ReverseRound(rounds[n - 1], n - 1, blank)
  IN  rounds[Len(p)].p
=============================================================================
