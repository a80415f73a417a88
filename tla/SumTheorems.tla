---------------------------- MODULE SumTheorems ----------------------------
(*****************************************************************************)
(* Induction over the naturals, and what it gives about Sum of module Sums:   *)
(* the facts on which the proofs about totals of leases, shares and loads     *)
(* rest.                                                                      *)
(*****************************************************************************)
EXTENDS Sums, Functions, FiniteSetTheorems, TLAPS

\* Induction over Nat, stated for a set: the prover takes no predicate as a parameter, so it is
\* obtained from the well-foundedness of strict inclusion between the intervals 0..k.
LEMMA SetInduction ==
  ASSUME NEW S, 0 \in S, \A n \in Nat : n \in S => n + 1 \in S
  PROVE  \A n \in Nat : n \in S
<1> SUFFICES ASSUME NEW n \in Nat, n \notin S PROVE FALSE
  OBVIOUS
<1> DEFINE T == {k \in 0..n : k \notin S}
           F == {0..k : k \in T}
<1>1. F \subseteq FiniteSubsetsOf(Nat)
  <2> SUFFICES ASSUME NEW k \in T PROVE 0..k \in FiniteSubsetsOf(Nat)
    OBVIOUS
  <2>1. k \in Int /\ 0 \in Int
    OBVIOUS
  <2>2. IsFiniteSet(0..k)
    BY <2>1, FS_Interval, Zenon
  <2> QED BY <2>2 DEF FiniteSubsetsOf
<1>2. F # {}
  <2>1. n \in T
    OBVIOUS
  <2> QED BY <2>1
<1>3. PICK x \in F : \A y \in F : ~ (<<y, x>> \in StrictSubsetOrdering(Nat))
  BY <1>1, <1>2, FS_StrictSubsetOrderingWellFounded, WFMin, Zenon
<1>4. PICK m \in T : x = 0..m
  BY <1>3
<1>5. m # 0 /\ m - 1 \in T
  <2>1. m # 0
    OBVIOUS
  <2>2. m - 1 \in Nat /\ m - 1 <= n /\ m - 1 + 1 = m
    BY <2>1
  <2>3. m - 1 \notin S
    BY <2>2
  <2> QED BY <2>1, <2>2, <2>3
<1>6. <<0..(m-1), 0..m>> \in StrictSubsetOrdering(Nat)
  <2>1. 0..(m-1) \subseteq 0..m /\ m \in 0..m /\ m \notin 0..(m-1) /\ 0..m \subseteq Nat
    BY <1>5
  <2>2. 0..(m-1) # 0..m /\ 0..(m-1) \in SUBSET Nat /\ 0..m \in SUBSET Nat
    BY <2>1
  <2> QED BY <2>1, <2>2 DEF StrictSubsetOrdering
<1>7. 0..(m-1) \in F
  BY <1>5
<1> QED BY <1>3, <1>4, <1>6, <1>7

\* A non-empty set of naturals has a least element.
LEMMA LeastElement ==
  ASSUME NEW T \in SUBSET Nat, T # {}
  PROVE  \E x \in T : \A y \in T : x <= y
<1> SUFFICES ASSUME \A x \in T : \E y \in T : ~(x <= y) PROVE FALSE
  OBVIOUS
<1> DEFINE S == {k \in Nat : \A j \in 0..k : j \notin T}
<1>1. 0 \in S
  OBVIOUS
<1>2. ASSUME NEW k \in Nat, k \in S PROVE k + 1 \in S
  <2>1. \A y \in T : k + 1 <= y
    BY <1>2
  <2>2. k + 1 \notin T
    BY <2>1
  <2>3. \A j \in 0..(k + 1) : j = k + 1 \/ j \in 0..k
    OBVIOUS
  <2> QED BY <1>2, <2>2, <2>3
<1> HIDE DEF S
<1>3. \A k \in Nat : k \in S
  BY <1>1, <1>2, SetInduction
<1>4. \A k \in Nat : k \notin T
  BY <1>3 DEF S
<1> QED BY <1>4

----------------------------------------------------------------------------
(* Sum *)

SumFcn(f, n, s) == s = [i \in 0..n |-> IF i = 0 THEN 0 ELSE s[i - 1] + f[i]]

\* The function of partial sums, f[1] + ... + f[i] for each i in 0..n, exists.
LEMMA SumFcnExists == ASSUME NEW f, NEW n \in Nat PROVE \E s : SumFcn(f, n, s)
<1> DEFINE S == {m \in Nat : \E s : SumFcn(f, m, s)}
<1>1. 0 \in S
  <2> DEFINE z == [i \in 0..0 |-> 0]
  <2>1. z = [i \in 0..0 |-> IF i = 0 THEN 0 ELSE z[i - 1] + f[i]]
    OBVIOUS
  <2> QED BY <2>1 DEF SumFcn
<1>2. ASSUME NEW m \in Nat, m \in S PROVE m + 1 \in S
  <2>1. PICK s : SumFcn(f, m, s)
    BY <1>2
  <2> DEFINE t == [i \in 0..(m + 1) |-> IF i = m + 1 THEN s[m] + f[m + 1] ELSE s[i]]
  <2>2. ASSUME NEW i \in 0..(m + 1)
        PROVE t[i] = IF i = 0 THEN 0 ELSE t[i - 1] + f[i]
    <3>1. CASE i = m + 1
      <4>1. i # 0 /\ i - 1 = m /\ m \in 0..(m + 1) /\ m # m + 1
        BY <3>1
      <4>2. t[m] = s[m]
        BY <4>1
      <4> QED BY <3>1, <4>1, <4>2
    <3>2. CASE i # m + 1
      <4>1. i \in 0..m
        BY <3>2
      <4>2. s[i] = IF i = 0 THEN 0 ELSE s[i - 1] + f[i]
        BY <2>1, <4>1 DEF SumFcn
      <4>3. i # 0 => i - 1 \in 0..(m + 1) /\ i - 1 # m + 1
        BY <4>1
      <4> QED BY <3>2, <4>2, <4>3
    <3> QED BY <3>1, <3>2
  <2>3. t = [i \in 0..(m + 1) |-> IF i = 0 THEN 0 ELSE t[i - 1] + f[i]]
    BY <2>2
  <2>4. m + 1 \in Nat
    OBVIOUS
  <2> QED BY <2>3, <2>4 DEF SumFcn
<1> HIDE DEF S
<1>3. n \in S
  BY <1>1, <1>2, SetInduction
<1> QED BY <1>3 DEF S

\* Two functions of partial sums of the same f agree wherever both are defined.
LEMMA SumFcnUnique ==
  ASSUME NEW f, NEW m \in Nat, NEW n \in Nat, m <= n,
         NEW s, SumFcn(f, m, s), NEW t, SumFcn(f, n, t)
  PROVE  \A i \in 0..m : s[i] = t[i]
<1> DEFINE S == {i \in Nat : i <= m => s[i] = t[i]}
<1>1. 0 \in S
  BY DEF SumFcn
<1>2. ASSUME NEW i \in Nat, i \in S PROVE i + 1 \in S
  <2> SUFFICES ASSUME i + 1 <= m PROVE s[i + 1] = t[i + 1]
    OBVIOUS
  <2>1. i + 1 \in 0..m /\ i + 1 \in 0..n /\ i + 1 # 0 /\ i + 1 - 1 = i /\ i <= m
    OBVIOUS
  <2>2. s[i + 1] = s[i] + f[i + 1]
    BY <2>1 DEF SumFcn
  <2>3. t[i + 1] = t[i] + f[i + 1]
    BY <2>1 DEF SumFcn
  <2> QED BY <1>2, <2>1, <2>2, <2>3
<1> HIDE DEF S
<1>3. \A i \in Nat : i \in S
  BY <1>1, <1>2, SetInduction
<1> QED BY <1>3 DEF S

\* Sum(f, n) is the last value of the function of partial sums.
LEMMA SumIsLast ==
  ASSUME NEW f, NEW n \in Nat
  PROVE  \E s : SumFcn(f, n, s) /\ Sum(f, n) = s[n]
<1> DEFINE c == CHOOSE s : s = [i \in 0..n |-> IF i = 0 THEN 0 ELSE s[i - 1] + f[i]]
<1>1. SumFcn(f, n, c)
  BY SumFcnExists DEF SumFcn
<1>2. Sum(f, n) = c[n]
  BY DEF Sum
<1> QED BY <1>1, <1>2

\* The empty sum is 0.
LEMMA SumEmpty == \A f : Sum(f, 0) = 0
  BY SumIsLast DEF SumFcn

\* One more term adds that term.
LEMMA SumNext ==
  ASSUME NEW f, NEW n \in Nat
  PROVE  Sum(f, n + 1) = Sum(f, n) + f[n + 1]
<1>1. PICK s : SumFcn(f, n, s) /\ Sum(f, n) = s[n]
  BY SumIsLast
<1>2. PICK t : SumFcn(f, n + 1, t) /\ Sum(f, n + 1) = t[n + 1]
  BY SumIsLast
<1>3. s[n] = t[n]
  BY <1>1, <1>2, SumFcnUnique
<1>4. t[n + 1] = t[n] + f[n + 1]
  <2>1. n + 1 \in 0..(n + 1) /\ n + 1 # 0 /\ n + 1 - 1 = n
    OBVIOUS
  <2> QED BY <1>2, <2>1 DEF SumFcn
<1> QED BY <1>1, <1>2, <1>3, <1>4

\* A sum of integers is an integer.
LEMMA SumInt ==
  ASSUME NEW n \in Nat, NEW f, \A i \in 1..n : f[i] \in Int
  PROVE  Sum(f, n) \in Int
<1> DEFINE S == {m \in Nat : m <= n => Sum(f, m) \in Int}
<1>1. 0 \in S
  BY SumEmpty
<1>2. ASSUME NEW m \in Nat, m \in S PROVE m + 1 \in S
  <2> SUFFICES ASSUME m + 1 <= n PROVE Sum(f, m + 1) \in Int
    OBVIOUS
  <2>1. m + 1 \in 1..n /\ Sum(f, m) \in Int
    BY <1>2
  <2> QED BY <2>1, SumNext
<1> HIDE DEF S
<1>3. n \in S
  BY <1>1, <1>2, SetInduction
<1> QED BY <1>3 DEF S

\* A sum of naturals is a natural.
LEMMA SumNat ==
  ASSUME NEW n \in Nat, NEW f, \A i \in 1..n : f[i] \in Nat
  PROVE  Sum(f, n) \in Nat
<1> DEFINE S == {m \in Nat : m <= n => Sum(f, m) \in Nat}
<1>1. 0 \in S
  BY SumEmpty
<1>2. ASSUME NEW m \in Nat, m \in S PROVE m + 1 \in S
  <2> SUFFICES ASSUME m + 1 <= n PROVE Sum(f, m + 1) \in Nat
    OBVIOUS
  <2>1. m + 1 \in 1..n /\ Sum(f, m) \in Nat
    BY <1>2
  <2> QED BY <2>1, SumNext
<1> HIDE DEF S
<1>3. n \in S
  BY <1>1, <1>2, SetInduction
<1> QED BY <1>3 DEF S

\* A sum grows with its terms.
LEMMA SumMonotone ==
  ASSUME NEW n \in Nat, NEW f, NEW g,
         \A i \in 1..n : f[i] \in Int /\ g[i] \in Int /\ f[i] <= g[i]
  PROVE  Sum(f, n) <= Sum(g, n)
<1> DEFINE S == {m \in Nat : m <= n => Sum(f, m) <= Sum(g, m)}
<1>1. 0 \in S
  BY SumEmpty
<1>2. ASSUME NEW m \in Nat, m \in S PROVE m + 1 \in S
  <2> SUFFICES ASSUME m + 1 <= n PROVE Sum(f, m + 1) <= Sum(g, m + 1)
    OBVIOUS
  <2>1. m + 1 \in 1..n /\ Sum(f, m) <= Sum(g, m) /\ \A i \in 1..m : i \in 1..n
    BY <1>2
  <2>2. Sum(f, m) \in Int /\ Sum(g, m) \in Int
    BY <2>1, SumInt
  <2> QED BY <2>1, <2>2, SumNext
<1> HIDE DEF S
<1>3. n \in S
  BY <1>1, <1>2, SetInduction
<1> QED BY <1>3 DEF S

\* When one term changes, the sum changes by the difference.
LEMMA SumUpdate ==
  ASSUME NEW n \in Nat, NEW f, NEW g, NEW j \in 1..n,
         \A i \in 1..n : f[i] \in Int /\ g[i] \in Int,
         \A i \in 1..n : i # j => f[i] = g[i]
  PROVE  Sum(g, n) = Sum(f, n) - f[j] + g[j]
<1> DEFINE D(m) == IF j <= m THEN g[j] - f[j] ELSE 0
           S == {m \in Nat : m <= n => Sum(g, m) = Sum(f, m) + D(m)}
<1>1. 0 \in S
  BY SumEmpty
<1>2. ASSUME NEW m \in Nat, m \in S PROVE m + 1 \in S
  <2> SUFFICES ASSUME m + 1 <= n PROVE Sum(g, m + 1) = Sum(f, m + 1) + D(m + 1)
    OBVIOUS
  <2>1. m + 1 \in 1..n /\ Sum(g, m) = Sum(f, m) + D(m) /\ \A i \in 1..m : i \in 1..n
    BY <1>2
  <2>2. Sum(f, m) \in Int /\ Sum(g, m) \in Int
    BY <2>1, SumInt
  <2>3. Sum(g, m + 1) = Sum(g, m) + g[m + 1] /\ Sum(f, m + 1) = Sum(f, m) + f[m + 1]
    BY SumNext
  <2>4. CASE j = m + 1
    BY <2>1, <2>2, <2>3, <2>4
  <2>5. CASE j # m + 1
    <3>1. f[m + 1] = g[m + 1] /\ D(m + 1) = D(m)
      BY <2>1, <2>5
    <3>2. D(m) \in Int
      OBVIOUS
    <3> HIDE DEF D
    <3> QED BY <2>1, <2>2, <2>3, <3>1, <3>2
  <2> QED BY <2>4, <2>5
<1> HIDE DEF S
<1>3. n \in S
  BY <1>1, <1>2, SetInduction
<1>4. Sum(g, n) = Sum(f, n) + (g[j] - f[j])
  BY <1>3 DEF S
<1> QED BY <1>4, SumInt

\* Equal terms, equal sums.
LEMMA SumEqual ==
  ASSUME NEW n \in Nat, NEW f, NEW g,
         \A i \in 1..n : f[i] \in Int /\ f[i] = g[i]
  PROVE  Sum(f, n) = Sum(g, n)
<1>1. \A i \in 1..n : f[i] \in Int /\ g[i] \in Int /\ f[i] <= g[i] /\ g[i] <= f[i]
  OBVIOUS
<1>2. Sum(f, n) <= Sum(g, n) /\ Sum(g, n) <= Sum(f, n)
  BY <1>1, SumMonotone
<1> QED BY <1>1, <1>2, SumInt

\* The sum of term-wise sums is the sum of the two sums.
LEMMA SumPlus ==
  ASSUME NEW n \in Nat, NEW f, NEW g, NEW h,
         \A i \in 1..n : f[i] \in Int /\ g[i] \in Int /\ h[i] = f[i] + g[i]
  PROVE  Sum(h, n) = Sum(f, n) + Sum(g, n)
<1> DEFINE S == {m \in Nat : m <= n => Sum(h, m) = Sum(f, m) + Sum(g, m)}
<1>1. 0 \in S
  BY SumEmpty
<1>2. ASSUME NEW m \in Nat, m \in S PROVE m + 1 \in S
  <2> SUFFICES ASSUME m + 1 <= n PROVE Sum(h, m + 1) = Sum(f, m + 1) + Sum(g, m + 1)
    OBVIOUS
  <2>1. m + 1 \in 1..n /\ Sum(h, m) = Sum(f, m) + Sum(g, m) /\ \A i \in 1..m : i \in 1..n
    BY <1>2
  <2>2. Sum(f, m) \in Int /\ Sum(g, m) \in Int
    BY <2>1, SumInt
  <2> QED BY <2>1, <2>2, SumNext
<1> HIDE DEF S
<1>3. n \in S
  BY <1>1, <1>2, SetInduction
<1> QED BY <1>3 DEF S

\* A sum of zeros is 0.
LEMMA SumZero ==
  ASSUME NEW n \in Nat, NEW f, \A i \in 1..n : f[i] = 0
  PROVE  Sum(f, n) = 0
<1> DEFINE S == {m \in Nat : m <= n => Sum(f, m) = 0}
<1>1. 0 \in S
  BY SumEmpty
<1>2. ASSUME NEW m \in Nat, m \in S PROVE m + 1 \in S
  <2> SUFFICES ASSUME m + 1 <= n PROVE Sum(f, m + 1) = 0
    OBVIOUS
  <2>1. m + 1 \in 1..n /\ Sum(f, m) = 0
    BY <1>2
  <2> QED BY <2>1, SumNext
<1> HIDE DEF S
<1>3. n \in S
  BY <1>1, <1>2, SetInduction
<1> QED BY <1>3 DEF S

----------------------------------------------------------------------------
(* Sums over finite sets: SumFunctionOnSet and SumFunction of module Functions *)

\* Induction over the subsets of a finite set, stated for a set P of subsets: a subset is in
\* P when all its strict subsets are.
LEMMA SubsetInduction ==
  ASSUME NEW S, IsFiniteSet(S), NEW P,
         \A T \in SUBSET S : (\A U \in SUBSET T : U # T => U \in P) => T \in P
  PROVE  \A T \in SUBSET S : T \in P
<1> SUFFICES ASSUME NEW A \in SUBSET S, A \notin P PROVE FALSE
  OBVIOUS
<1> DEFINE F == {T \in SUBSET S : T \notin P}
<1>1. F \subseteq FiniteSubsetsOf(S)
  BY FS_Subset DEF FiniteSubsetsOf
<1>2. F # {}
  OBVIOUS
<1>3. PICK x \in F : \A y \in F : ~ (<<y, x>> \in StrictSubsetOrdering(S))
  <2>1. IsWellFoundedOn(StrictSubsetOrdering(S), FiniteSubsetsOf(S))
    BY FS_StrictSubsetOrderingWellFounded, Zenon
  <2> HIDE DEF F
  <2> QED BY <1>1, <1>2, <2>1, WFMin
<1>4. \A U \in SUBSET x : U # x => U \in P
  BY <1>3 DEF StrictSubsetOrdering
<1> QED BY <1>3, <1>4

\* Induction over the subsets of a finite set, one element at a time.
LEMMA AddOneInduction ==
  ASSUME NEW S, IsFiniteSet(S), NEW P, {} \in P,
         \A T \in SUBSET S, x \in S : T \in P /\ x \notin T => T \cup {x} \in P
  PROVE  S \in P
<1>1. ASSUME NEW T \in SUBSET S, \A U \in SUBSET T : U # T => U \in P PROVE T \in P
  <2>1. CASE T = {}
    BY <2>1
  <2>2. CASE T # {}
    <3>1. PICK x : x \in T
      BY <2>2
    <3> DEFINE U == T \ {x}
    <3>2. U \in SUBSET T /\ U # T /\ T = U \cup {x} /\ x \notin U
      BY <3>1
    <3>3. U \in P /\ U \in SUBSET S /\ x \in S
      BY <1>1, <3>1, <3>2
    <3> HIDE DEF U
    <3>4. U \cup {x} \in P
      BY <3>2, <3>3
    <3> QED BY <3>2, <3>4
  <2> QED BY <2>1, <2>2
<1> QED BY <1>1, SubsetInduction

\* The function of the sums of f over the subsets of S.
Chosen(s) == CHOOSE x \in s : TRUE
SetSumFcn(f, S, it) == it = [s \in SUBSET S |-> IF s = {} THEN 0 ELSE f[Chosen(s)] + it[s \ {Chosen(s)}]]

\* Two functions of sums of the same f agree wherever both are defined.
LEMMA SetSumFcnUnique ==
  ASSUME NEW f, NEW S, IsFiniteSet(S), NEW T, S \subseteq T,
         NEW a, SetSumFcn(f, S, a), NEW b, SetSumFcn(f, T, b)
  PROVE  \A s \in SUBSET S : a[s] = b[s]
<1> DEFINE P == {s \in SUBSET S : a[s] = b[s]}
<1>1. ASSUME NEW s \in SUBSET S, \A u \in SUBSET s : u # s => u \in P PROVE s \in P
  <2> DEFINE c == Chosen(s)
  <2>1. a[s] = (IF s = {} THEN 0 ELSE f[c] + a[s \ {c}]) /\ b[s] = IF s = {} THEN 0 ELSE f[c] + b[s \ {c}]
    BY DEF SetSumFcn
  <2>2. s # {} => c \in s
    BY DEF Chosen
  <2>3. s # {} => s \ {c} \in P
    BY <1>1, <2>2
  <2> QED BY <2>1, <2>3
<1> HIDE DEF P
<1>2. \A s \in SUBSET S : s \in P
  BY <1>1, SubsetInduction
<1> QED BY <1>2 DEF P

\* The function of sums over the subsets of a finite set exists.
LEMMA SetSumFcnExists ==
  ASSUME NEW f, NEW S, IsFiniteSet(S)
  PROVE  \E it : SetSumFcn(f, S, it)
<1> DEFINE W(u) == CHOOSE it : SetSumFcn(f, u, it)
           P == {T \in SUBSET S : SetSumFcn(f, T, W(T))}
<1>1. ASSUME NEW T \in SUBSET S, \A u \in SUBSET T : u # T => u \in P PROVE T \in P
  <2> DEFINE V(u) == W(u)[u]
             it == [s \in SUBSET T |-> IF s = {} THEN 0 ELSE f[Chosen(s)] + V(s \ {Chosen(s)})]
  <2>1. \A u \in SUBSET T : u # T => SetSumFcn(f, u, W(u)) /\ IsFiniteSet(u)
    BY <1>1, FS_Subset
  <2> HIDE DEF W
  <2>2. ASSUME NEW u \in SUBSET T, u # T PROVE it[u] = V(u)
    <3> DEFINE c == Chosen(u)
    <3>1. V(u) = IF u = {} THEN 0 ELSE f[c] + W(u)[u \ {c}]
      BY <2>1, <2>2 DEF SetSumFcn
    <3>2. u # {} => u \ {c} \in SUBSET u /\ u \ {c} # T
      BY <2>2
    <3>3. u # {} => W(u \ {c})[u \ {c}] = W(u)[u \ {c}]
      <4> SUFFICES ASSUME u # {} PROVE W(u \ {c})[u \ {c}] = W(u)[u \ {c}]
        OBVIOUS
      <4> DEFINE v == u \ {c}
      <4>1. v \in SUBSET u /\ v \in SUBSET T /\ v # T
        BY <2>2, <3>2
      <4>2. SetSumFcn(f, v, W(v)) /\ SetSumFcn(f, u, W(u)) /\ IsFiniteSet(v)
        BY <2>1, <2>2, <4>1
      <4> HIDE DEF v
      <4>3. W(v)[v] = W(u)[v]
        BY <4>1, <4>2, SetSumFcnUnique
      <4> QED BY <4>3 DEF v
    <3> QED BY <3>1, <3>3
  <2>3. \A s \in SUBSET T : s # {} => s \ {Chosen(s)} \in SUBSET T /\ s \ {Chosen(s)} # T
    BY DEF Chosen
  <2>4. SetSumFcn(f, T, it)
    <3> HIDE DEF V
    <3>1. \A s \in SUBSET T : it[s] = IF s = {} THEN 0 ELSE f[Chosen(s)] + it[s \ {Chosen(s)}]
      BY <2>2, <2>3
    <3>2. it = [s \in SUBSET T |-> it[s]]
      OBVIOUS
    <3> HIDE DEF it
    <3> QED BY <3>1, <3>2 DEF SetSumFcn
  <2>5. SetSumFcn(f, T, W(T))
    BY <2>4 DEF W
  <2> QED BY <2>5
<1> HIDE DEF P
<1>2. S \in P
  BY <1>1, SubsetInduction
<1> QED BY <1>2 DEF P

\* The sum over S is the last value of the function of sums.
LEMMA SetSumIsLast ==
  ASSUME NEW f, NEW S, IsFiniteSet(S)
  PROVE  \E it : SetSumFcn(f, S, it) /\ SumFunctionOnSet(f, S) = it[S]
<1> DEFINE c == CHOOSE it : SetSumFcn(f, S, it)
<1>1. SetSumFcn(f, S, c)
  BY SetSumFcnExists
<1>2. SumFunctionOnSet(f, S) = c[S]
  BY DEF SumFunctionOnSet, FoldFunctionOnSet, MapThenFoldSet, SetSumFcn, Chosen
<1> QED BY <1>1, <1>2

\* The sum over the empty set is 0.
LEMMA SetSumEmpty == \A f : SumFunctionOnSet(f, {}) = 0
<1> TAKE f
<1>1. PICK it : SetSumFcn(f, {}, it) /\ SumFunctionOnSet(f, {}) = it[{}]
  BY SetSumIsLast, FS_EmptySet
<1>2. it[{}] = 0
  BY <1>1 DEF SetSumFcn
<1> QED BY <1>1, <1>2

\* The sum splits at the element the fold chooses first.
LEMMA SetSumChosen ==
  ASSUME NEW f, NEW S, IsFiniteSet(S), S # {}
  PROVE  /\ Chosen(S) \in S
         /\ SumFunctionOnSet(f, S) = f[Chosen(S)] + SumFunctionOnSet(f, S \ {Chosen(S)})
<1> DEFINE U == S \ {Chosen(S)}
<1>1. Chosen(S) \in S
  BY DEF Chosen
<1>2. IsFiniteSet(U) /\ U \subseteq S
  BY FS_Subset
<1>3. PICK a : SetSumFcn(f, S, a) /\ SumFunctionOnSet(f, S) = a[S]
  BY SetSumIsLast
<1>4. PICK b : SetSumFcn(f, U, b) /\ SumFunctionOnSet(f, U) = b[U]
  BY <1>2, SetSumIsLast
<1>5. b[U] = a[U]
  BY <1>2, <1>3, <1>4, SetSumFcnUnique
<1>6. a[S] = f[Chosen(S)] + a[U]
  BY <1>3 DEF SetSumFcn
<1> QED BY <1>1, <1>3, <1>4, <1>5, <1>6

\* A sum of integers is an integer.
LEMMA SetSumInt ==
  ASSUME NEW S, IsFiniteSet(S), NEW f, \A x \in S : f[x] \in Int
  PROVE  SumFunctionOnSet(f, S) \in Int
<1> DEFINE P == {T \in SUBSET S : SumFunctionOnSet(f, T) \in Int}
<1>1. ASSUME NEW T \in SUBSET S, \A U \in SUBSET T : U # T => U \in P PROVE T \in P
  <2>1. CASE T = {}
    BY <2>1, SetSumEmpty
  <2>2. CASE T # {}
    <3>1. Chosen(T) \in T /\ SumFunctionOnSet(f, T) = f[Chosen(T)] + SumFunctionOnSet(f, T \ {Chosen(T)})
      BY <2>2, FS_Subset, SetSumChosen
    <3>2. T \ {Chosen(T)} \in P
      BY <1>1, <3>1
    <3> QED BY <3>1, <3>2
  <2> QED BY <2>1, <2>2
<1> HIDE DEF P
<1>2. S \in P
  BY <1>1, SubsetInduction
<1> QED BY <1>2 DEF P

\* The sum splits at any element: the order of the fold does not matter.
LEMMA SetSumSplit ==
  ASSUME NEW S, IsFiniteSet(S), NEW f, \A x \in S : f[x] \in Int, NEW x \in S
  PROVE  SumFunctionOnSet(f, S) = f[x] + SumFunctionOnSet(f, S \ {x})
<1> DEFINE Total(U) == SumFunctionOnSet(f, U)
           P == {T \in SUBSET S : \A y \in T : Total(T) = f[y] + Total(T \ {y})}
<1>0. \A T \in SUBSET S : IsFiniteSet(T) /\ Total(T) \in Int
  BY FS_Subset, SetSumInt
<1>1. ASSUME NEW T \in SUBSET S, \A U \in SUBSET T : U # T => U \in P PROVE T \in P
  <2> SUFFICES ASSUME NEW y \in T PROVE Total(T) = f[y] + Total(T \ {y})
    OBVIOUS
  <2> DEFINE c == Chosen(T)
             V == (T \ {c}) \ {y}
  <2>1. c \in T /\ Total(T) = f[c] + Total(T \ {c})
    BY <1>0, SetSumChosen
  <2>2. CASE y = c
    BY <2>1, <2>2
  <2>3. CASE y # c
    <3>1. y \in T \ {c} /\ c \in T \ {y} /\ V = (T \ {y}) \ {c} /\ V \in SUBSET S
      BY <2>1, <2>3
    <3>2. T \ {c} \in P /\ T \ {y} \in P
      BY <1>1, <2>1
    <3>3. Total(T \ {c}) = f[y] + Total(V) /\ Total(T \ {y}) = f[c] + Total(V)
      BY <3>1, <3>2
    <3>4. Total(V) \in Int /\ f[c] \in Int /\ f[y] \in Int
      BY <1>0, <2>1, <3>1
    <3> HIDE DEF Total, V, c, P
    <3> QED BY <2>1, <3>3, <3>4
  <2> QED BY <2>2, <2>3
<1> HIDE DEF P
<1>2. S \in P
  BY <1>1, SubsetInduction
<1> QED BY <1>2 DEF P

\* One more element adds its term.
LEMMA SetSumAdd ==
  ASSUME NEW S, IsFiniteSet(S), NEW f, \A y \in S : f[y] \in Int,
         NEW T \in SUBSET S, NEW x \in S, x \notin T
  PROVE  SumFunctionOnSet(f, T \cup {x}) = f[x] + SumFunctionOnSet(f, T)
<1> DEFINE U == T \cup {x}
<1>1. IsFiniteSet(U) /\ x \in U /\ U \ {x} = T /\ \A y \in U : f[y] \in Int
  BY FS_Subset
<1> HIDE DEF U
<1>2. SumFunctionOnSet(f, U) = f[x] + SumFunctionOnSet(f, U \ {x})
  BY <1>1, SetSumSplit
<1> QED BY <1>1, <1>2 DEF U

\* A sum grows with its terms.
LEMMA SetSumMonotone ==
  ASSUME NEW S, IsFiniteSet(S), NEW f, NEW g,
         \A x \in S : f[x] \in Int /\ g[x] \in Int /\ f[x] <= g[x]
  PROVE  SumFunctionOnSet(f, S) <= SumFunctionOnSet(g, S)
<1> DEFINE P == {T \in SUBSET S : SumFunctionOnSet(f, T) <= SumFunctionOnSet(g, T)}
<1>1. {} \in P
  BY SetSumEmpty
<1>2. ASSUME NEW T \in SUBSET S, NEW x \in S, T \in P, x \notin T PROVE T \cup {x} \in P
  <2>1. SumFunctionOnSet(f, T \cup {x}) = f[x] + SumFunctionOnSet(f, T)
    BY <1>2, SetSumAdd
  <2>2. SumFunctionOnSet(g, T \cup {x}) = g[x] + SumFunctionOnSet(g, T)
    BY <1>2, SetSumAdd
  <2>3. IsFiniteSet(T) /\ \A y \in T : f[y] \in Int /\ g[y] \in Int
    BY FS_Subset
  <2>4. SumFunctionOnSet(f, T) \in Int /\ SumFunctionOnSet(g, T) \in Int
    BY <2>3, SetSumInt
  <2>5. SumFunctionOnSet(f, T) <= SumFunctionOnSet(g, T)
    BY <1>2
  <2> QED BY <2>1, <2>2, <2>4, <2>5
<1> HIDE DEF P
<1>3. S \in P
  BY <1>1, <1>2, AddOneInduction
<1> QED BY <1>3 DEF P

\* Equal terms, equal sums.
LEMMA SetSumEqual ==
  ASSUME NEW S, IsFiniteSet(S), NEW f, NEW g, \A x \in S : f[x] \in Int /\ f[x] = g[x]
  PROVE  SumFunctionOnSet(f, S) = SumFunctionOnSet(g, S)
<1>1. \A x \in S : f[x] \in Int /\ g[x] \in Int /\ f[x] <= g[x] /\ g[x] <= f[x]
  OBVIOUS
<1>2. SumFunctionOnSet(f, S) <= SumFunctionOnSet(g, S) /\ SumFunctionOnSet(g, S) <= SumFunctionOnSet(f, S)
  BY <1>1, SetSumMonotone
<1> QED BY <1>1, <1>2, SetSumInt

\* A sum of zeros is 0.
LEMMA SetSumZero ==
  ASSUME NEW S, IsFiniteSet(S), NEW f, \A x \in S : f[x] = 0
  PROVE  SumFunctionOnSet(f, S) = 0
<1> DEFINE P == {T \in SUBSET S : SumFunctionOnSet(f, T) = 0}
<1>1. {} \in P
  BY SetSumEmpty
<1>2. ASSUME NEW T \in SUBSET S, NEW x \in S, T \in P, x \notin T PROVE T \cup {x} \in P
  <2>1. SumFunctionOnSet(f, T \cup {x}) = f[x] + SumFunctionOnSet(f, T)
    BY <1>2, SetSumAdd
  <2> QED BY <1>2, <2>1
<1> HIDE DEF P
<1>3. S \in P
  BY <1>1, <1>2, AddOneInduction
<1> QED BY <1>3 DEF P

\* A sum of naturals is a natural.
LEMMA SetSumNat ==
  ASSUME NEW S, IsFiniteSet(S), NEW f, \A x \in S : f[x] \in Nat
  PROVE  SumFunctionOnSet(f, S) \in Nat
<1> DEFINE z == [x \in S |-> 0]
<1>1. \A x \in S : z[x] = 0
  OBVIOUS
<1>2. SumFunctionOnSet(z, S) = 0
  BY <1>1, SetSumZero
<1>3. \A x \in S : z[x] \in Int /\ f[x] \in Int /\ z[x] <= f[x]
  OBVIOUS
<1> HIDE DEF z
<1>4. SumFunctionOnSet(z, S) <= SumFunctionOnSet(f, S) /\ SumFunctionOnSet(f, S) \in Int
  BY <1>3, SetSumMonotone, SetSumInt
<1> QED BY <1>2, <1>4

\* When one term changes, the sum changes by the difference.
LEMMA SetSumUpdate ==
  ASSUME NEW S, IsFiniteSet(S), NEW f, NEW g, NEW j \in S,
         \A x \in S : f[x] \in Int /\ g[x] \in Int,
         \A x \in S : x # j => f[x] = g[x]
  PROVE  SumFunctionOnSet(g, S) = SumFunctionOnSet(f, S) - f[j] + g[j]
<1> DEFINE U == S \ {j}
<1>1. IsFiniteSet(U) /\ \A x \in U : f[x] \in Int /\ f[x] = g[x]
  BY FS_Subset
<1>2. SumFunctionOnSet(f, S) = f[j] + SumFunctionOnSet(f, U) /\ SumFunctionOnSet(g, S) = g[j] + SumFunctionOnSet(g, U)
  BY SetSumSplit
<1> HIDE DEF U
<1>3. SumFunctionOnSet(f, U) = SumFunctionOnSet(g, U) /\ SumFunctionOnSet(f, U) \in Int
  BY <1>1, SetSumEqual, SetSumInt
<1> QED BY <1>2, <1>3

\* The sum over a set is the sum over a part of it and over the rest.
LEMMA SetSumParts ==
  ASSUME NEW S, IsFiniteSet(S), NEW f, \A x \in S : f[x] \in Int, NEW T \in SUBSET S
  PROVE  SumFunctionOnSet(f, S) = SumFunctionOnSet(f, T) + SumFunctionOnSet(f, S \ T)
<1> DEFINE Total(U) == SumFunctionOnSet(f, U)
           P == {U \in SUBSET T : Total((S \ T) \cup U) = Total(U) + Total(S \ T)}
<1>1. \A U \in SUBSET S : IsFiniteSet(U) /\ Total(U) \in Int
  BY FS_Subset, SetSumInt
<1>2. {} \in P
  <2>1. Total({}) = 0 /\ (S \ T) \cup {} = S \ T /\ Total(S \ T) \in Int
    BY <1>1, SetSumEmpty
  <2> QED BY <2>1
<1>3. ASSUME NEW U \in SUBSET T, NEW x \in T, U \in P, x \notin U PROVE U \cup {x} \in P
  <2> DEFINE V == (S \ T) \cup U
  <2>1. V \in SUBSET S /\ U \in SUBSET S /\ x \in S /\ x \notin V /\ (S \ T) \cup (U \cup {x}) = V \cup {x}
    BY <1>3
  <2>2. Total(V \cup {x}) = f[x] + Total(V)
    <3> HIDE DEF V
    <3> QED BY <2>1, SetSumAdd
  <2>3. Total(U \cup {x}) = f[x] + Total(U)
    BY <1>3, <2>1, SetSumAdd
  <2>4. Total(V) = Total(U) + Total(S \ T)
    BY <1>3
  <2>5. f[x] \in Int /\ Total(U) \in Int /\ Total(S \ T) \in Int
    BY <1>1, <2>1
  <2>6. Total(V \cup {x}) = Total(U \cup {x}) + Total(S \ T)
    BY <2>2, <2>3, <2>4, <2>5
  <2>7. Total((S \ T) \cup (U \cup {x})) = Total(V \cup {x})
    BY <2>1
  <2> QED BY <2>6, <2>7, <1>3
<1>4. T \in P
  <2>1. IsFiniteSet(T)
    BY FS_Subset
  <2> HIDE DEF P
  <2> QED BY <1>2, <1>3, <2>1, AddOneInduction
<1>5. (S \ T) \cup T = S
  OBVIOUS
<1> QED BY <1>4, <1>5

\* The terms may be taken in the places an injection h puts them.
LEMMA SetSumReindex ==
  ASSUME NEW S, IsFiniteSet(S), NEW R, IsFiniteSet(R), NEW f, NEW g, NEW h \in [S -> R],
         \A x \in S, y \in S : h[x] = h[y] => x = y,
         \A y \in R : g[y] \in Int,
         \A x \in S : f[x] = g[h[x]]
  PROVE  SumFunctionOnSet(f, S) = SumFunctionOnSet(g, {h[x] : x \in S})
<1> DEFINE Image(T) == {h[x] : x \in T}
           P == {T \in SUBSET S : SumFunctionOnSet(f, T) = SumFunctionOnSet(g, Image(T))}
<1>1. {} \in P
  <2>1. Image({}) = {}
    OBVIOUS
  <2> QED BY <2>1, SetSumEmpty
<1>2. ASSUME NEW T \in SUBSET S, NEW x \in S, T \in P, x \notin T PROVE T \cup {x} \in P
  <2>1. SumFunctionOnSet(f, T \cup {x}) = f[x] + SumFunctionOnSet(f, T)
    BY <1>2, SetSumAdd
  <2>2. Image(T) \in SUBSET R /\ h[x] \in R /\ h[x] \notin Image(T) /\ Image(T \cup {x}) = Image(T) \cup {h[x]}
    BY <1>2
  <2>3. SumFunctionOnSet(g, Image(T) \cup {h[x]}) = g[h[x]] + SumFunctionOnSet(g, Image(T))
    <3> HIDE DEF Image
    <3> QED BY <2>2, SetSumAdd
  <2>4. SumFunctionOnSet(f, T \cup {x}) = SumFunctionOnSet(g, Image(T \cup {x}))
    BY <1>2, <2>1, <2>2, <2>3
  <2> QED BY <2>4, <1>2
<1>3. S \in P
  <2> HIDE DEF P
  <2> QED BY <1>1, <1>2, AddOneInduction
<1> QED BY <1>3

\* The sum of a function is its sum over its domain.
LEMMA SumIsOverDomain == \A f : SumFunction(f) = SumFunctionOnSet(f, DOMAIN f)
BY DEF SumFunction

\* n times the same term.
LEMMA SumConstant ==
  ASSUME NEW n \in Nat, NEW k \in Int, NEW f, \A i \in 1..n : f[i] = k
  PROVE  Sum(f, n) = n * k
<1> DEFINE S == {m \in Nat : m <= n => Sum(f, m) = m * k}
<1>1. 0 \in S
  BY SumEmpty
<1>2. ASSUME NEW m \in Nat, m \in S PROVE m + 1 \in S
  <2> SUFFICES ASSUME m + 1 <= n PROVE Sum(f, m + 1) = (m + 1) * k
    OBVIOUS
  <2>1. m + 1 \in 1..n /\ Sum(f, m) = m * k
    BY <1>2
  <2>2. (m + 1) * k = m * k + k /\ m * k \in Int
    OBVIOUS
  <2> QED BY <2>1, <2>2, SumNext
<1> HIDE DEF S
<1>3. n \in S
  BY <1>1, <1>2, SetInduction
<1> QED BY <1>3 DEF S
=============================================================================
