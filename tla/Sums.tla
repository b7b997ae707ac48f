-------------------------------- MODULE Sums --------------------------------
(***************************************************************************)
(* Sums over the option ids 0 .. n-1.  Written as a recursive function, so *)
(* that the provers can reason about it.                                   *)
(***************************************************************************)
EXTENDS Integers

SumUpTo(f, n) ==
    LET s[k \in 0..n] == IF k = 0 THEN 0 ELSE s[k-1] + f[k-1]
    IN  s[n]
=============================================================================
