-------------------------------- MODULE Sums --------------------------------
(* The sum of a function over 1..n, as a recursive function so that it can  *)
(* be both evaluated and reasoned about.                                    *)
EXTENDS Integers

Sum(f, n) == LET s[i \in 0..n] == IF i = 0 THEN 0 ELSE s[i - 1] + f[i] IN s[n]
=============================================================================
