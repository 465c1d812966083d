------------------------------ MODULE RowSums ------------------------------
(* SQL's SUM over rows 1..n.  The code sums in aggregates (django's Sum    *)
(* and Coalesce); zero rows sum to zero.                                   *)
EXTENDS Integers

Total(f, n) ==
    LET S[k \in 0..n] == IF k = 0 THEN 0 ELSE S[k - 1] + f[k]
    IN  S[n]
=============================================================================
