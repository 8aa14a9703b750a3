----------------------------- MODULE IpaPmTput -----------------------------
(***************************************************************************)
(* The algorithm of calculate_throughput, ipa_v3/ipa_pm.c:209-281: how the *)
(* throughputs of the active clients are aggregated.                       *)
(***************************************************************************)
EXTENDS Integers, Sequences

MaxIdxShort(arr) ==                     \* slip: the loop ends one element early
    LET seen == 1 .. Len(arr) - 1
        best == {i \in seen : arr[i] > 0 /\ \A j \in seen : arr[i] >= arr[j]}
    IN  IF best = {} THEN Len(arr)
        ELSE CHOOSE i \in best : \A j \in best : i <= j

\* pop_max_from_array: the first of the largest, or the last element if none
\* is positive; the last element takes its place.
MaxIdx(arr) ==
    LET best == {i \in DOMAIN arr : arr[i] > 0 /\ \A j \in DOMAIN arr : arr[i] >= arr[j]}
    IN  IF best = {} THEN Len(arr)
        ELSE CHOOSE i \in best : \A j \in best : i <= j

PopMax(arr) ==
    LET i == MaxIdx(arr)
        n == Len(arr) - 1
    IN  [max  |-> arr[i],
         rest |-> SubSeq(IF i > n THEN arr ELSE [arr EXCEPT ![i] = arr[n + 1]], 1, n)]

Aggregate[arr \in Seq(Int)] ==
    IF Len(arr) < 2 THEN 0
    ELSE LET first  == PopMax(arr)
             second == PopMax(first.rest)
         IN  second.max + Aggregate[Append(second.rest, first.max - second.max)]

SumSeq(s) == LET S[i \in 0 .. Len(s)] == IF i = 0 THEN 0 ELSE S[i - 1] + s[i] IN S[Len(s)]
=============================================================================
