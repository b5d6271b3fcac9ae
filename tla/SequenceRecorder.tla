-------------------------- MODULE SequenceRecorder --------------------------
(***************************************************************************)
(* The recorder of src/container/sequence_recorder.h: the last LEN numbers *)
(* in a circular buffer, with summaries.  It is sequential; a call is one  *)
(* step, and the methods that only read are operators.                     *)
(***************************************************************************)
EXTENDS Integers, Sequences, FiniteSetsExt

CONSTANTS
  LEN,        \* the template parameter
  Numbers,    \* the numbers that are recorded, those of the type TYPE
  MaxLen      \* bound: appends between two clears.  _len is an int that is never
              \* capped, so the code's own bound is 2^31 - 1

ASSUME RecorderAssumption == /\ LEN \in Nat \ {0} /\ MaxLen \in Nat
                             /\ Numbers \subseteq Int /\ IsFiniteSet(Numbers)

VARIABLES
  buf, beg, cur, len, started,
  appended    \* history: the numbers appended since the last clear

recorderVars == <<buf, beg, cur, len, started, appended>>

\* _buf is not initialized: it has any contents, none of which is ever read.
RecorderInit == /\ \E junk \in Numbers : buf = [i \in 0..(LEN - 1) |-> junk]
                /\ beg = 0 /\ cur = 0 /\ len = 0 /\ started = FALSE
                /\ appended = <<>>

\* Broken variant: the oldest number is not given up.
BegKept(c) == beg

\* _beg after a number was put at c.
Beg(c) == IF started /\ beg = c THEN (beg + 1) % LEN ELSE beg

append(in) == /\ len < MaxLen
              /\ cur' = IF started THEN (cur + 1) % LEN ELSE cur
              /\ buf' = [buf EXCEPT ![cur'] = in]
              /\ beg' = Beg(cur')
              /\ started' = TRUE
              /\ len' = len + 1
              /\ appended' = Append(appended, in)

\* The buffer goes on where it is.
clear == /\ beg' = cur
         /\ len' = 0
         /\ started' = FALSE
         /\ appended' = <<>>
         /\ UNCHANGED <<buf, cur>>

RecorderNext == clear \/ \E in \in Numbers : append(in)
RecorderSpec == RecorderInit /\ [][RecorderNext]_recorderVars

get_len == IF len >= LEN THEN LEN ELSE len

\* What get_every writes to out, which has room for n numbers.
get_every(n) == [i \in 1..(IF n < get_len THEN n ELSE get_len) |-> buf[(beg + i - 1) % LEN]]

\* The loops that add up: their variable after each round.
Added(s) == LET sum[i \in 0..Len(s)] == IF i = 0 THEN 0 ELSE sum[i - 1] + s[i]
            IN  sum[Len(s)]

get_sum == Added(get_every(LEN))

\* A division of integers truncates towards zero.
get_avg == CASE get_len = 0 -> 0
             [] get_sum >= 0 -> get_sum \div get_len
             [] OTHER -> - ((- get_sum) \div get_len)

get_count(e) == Added([i \in 1..get_len |-> IF get_every(LEN)[i] = e THEN 1 ELSE 0])

\* A double: the pair of what is divided.
get_density(e) == IF get_len = 0 THEN <<0, 1>> ELSE <<get_count(e), get_len>>

-----------------------------------------------------------------------------
\* The last LEN numbers since the last clear, and how often e is among them.
Last == LET n == Len(appended) IN SubSeq(appended, IF n > LEN THEN n - LEN + 1 ELSE 1, n)
Occurs(e) == Cardinality({i \in DOMAIN Last : Last[i] = e})

\* The recorder has the last LEN numbers since it was cleared, oldest first, however
\* often the buffer has come round and wherever it was cleared: get_every gives the
\* oldest n of them, and the summaries are about them.
RecordsLast ==
  /\ get_len = Len(Last)
  /\ \A k \in 0..(LEN + 1) : get_every(k) = SubSeq(Last, 1, IF k < get_len THEN k ELSE get_len)
  /\ get_sum = MapThenSumSet(LAMBDA e : e * Occurs(e), Numbers)
  /\ \A e \in Numbers : get_count(e) = Occurs(e)
  \* the average is the sum over the length, with the fraction cut off
  /\ Last # <<>> => LET r == get_sum - get_avg * get_len
                    IN  - get_len < r /\ r < get_len /\ r * get_sum >= 0
  /\ \A e \in Numbers : get_density(e)[1] * (IF Last = <<>> THEN 1 ELSE Len(Last))
                          = Occurs(e) * get_density(e)[2]
=============================================================================
