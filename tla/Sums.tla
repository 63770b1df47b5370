-------------------------------- MODULE Sums --------------------------------
(* Sums over the first arguments of a function: f[0] + ... + f[n].           *)
EXTENDS Naturals

Sums(f, n) ==
    LET sum[k \in 0 .. n] == f[k] + (IF k = 0 THEN 0 ELSE sum[k - 1])
    IN  sum
Total(f, n) == Sums(f, n)[n]
=============================================================================
