--------------------------------- MODULE Sums ---------------------------------
(* The total of a sequence of integers, as a recursive function.           *)
EXTENDS Integers, Sequences

\* The running sums of s: sum[k] adds up its first k elements.
Sums(s) == LET sum[k \in 0..Len(s)] == IF k = 0 THEN 0 ELSE sum[k - 1] + s[k] IN sum

Total(s) == Sums(s)[Len(s)]
=============================================================================
