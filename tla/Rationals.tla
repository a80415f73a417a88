------------------------------ MODULE Rationals ------------------------------
(* Exact fractions <<numerator, denominator>> in lowest terms, for the code  *)
(* that works with quotients.                                                *)
LOCAL INSTANCE Integers
LOCAL INSTANCE Sequences
LOCAL INSTANCE FiniteSets
LOCAL INSTANCE Folds

\* The greatest common divisor of a pair.
Divisor[p \in Nat \X Nat] == IF p[2] = 0 THEN p[1] ELSE Divisor[<<p[2], p[1] % p[2]>>]
Magnitude(n) == IF n < 0 THEN -n ELSE n
\* n / d, with d not 0.
Ratio(n, d) ==
    LET g == Divisor[<<Magnitude(n), Magnitude(d)>>]
        s == IF d < 0 THEN -1 ELSE 1
    IN  <<(s * n) \div g, (s * d) \div g>>

Whole(n) == <<n, 1>>
QAdd(p, q) == Ratio(p[1] * q[2] + q[1] * p[2], p[2] * q[2])
QSub(p, q) == Ratio(p[1] * q[2] - q[1] * p[2], p[2] * q[2])
QMul(p, q) == Ratio(p[1] * q[1], p[2] * q[2])
QDiv(p, q) == Ratio(p[1] * q[2], p[2] * q[1])
QLeq(p, q) == p[1] * q[2] <= q[1] * p[2]
QLess(p, q) == p[1] * q[2] < q[1] * p[2]
QMax(p, q) == IF QLeq(p, q) THEN q ELSE p
QFloor(p) == p[1] \div p[2]
\* The sum of a sequence or function of fractions.
QSum(f) == MapThenFoldSet(QAdd, Whole(0), LAMBDA i : f[i], LAMBDA S : CHOOSE x \in S : TRUE, DOMAIN f)
==============================================================================
