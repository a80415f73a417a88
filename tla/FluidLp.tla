------------------------------- MODULE FluidLp -------------------------------
(***************************************************************************)
(* solveFluidLp: the prices of the rate, cost and concurrency budgets, as  *)
(* the vertex of the dual that costs least, and the plan of admissions     *)
(* recovered from them.  Numbers are exact fractions, so the tolerances of *)
(* the code are 0.  A price vector is <<rate, cost, conc>>; a workload is  *)
(* [types, budget], a type [use, value, weight] where use[b] is what one   *)
(* admission takes of budget b.                                            *)
(***************************************************************************)
EXTENDS Integers, Sequences, FiniteSets, Functions, Rationals

Budgets(lp) == DOMAIN lp.budget
Types(lp) == DOMAIN lp.types
Q0 == Whole(0)

Dot(p, use) == QSum([b \in DOMAIN use |-> QMul(p[b], Whole(use[b]))])
\* What a type is worth beyond its bid.
Reduced(lp, p, i) == QSub(Whole(lp.types[i].value), Dot(p, lp.types[i].use))
DualObjective(lp, p) ==
    QAdd(QSum([b \in Budgets(lp) |-> QMul(Whole(lp.budget[b]), p[b])]),
         QSum([i \in Types(lp) |-> QMul(Whole(lp.types[i].weight), QMax(Q0, Reduced(lp, p, i)))]))

----------------------------------------------------------------------------
(* The vertices of the dual *)

Prices(a, b) == <<a, b>>
Crossing(s, t) ==
    LET pC == Ratio(t.value - s.value, t.use[2] - s.use[2])
    IN  Prices(QSub(Whole(s.value), QMul(pC, Whole(s.use[2]))), pC)
\* Slip: the crossings are left out.
AxisVertices(lp) ==
    {Prices(Q0, Q0)} \cup {Prices(Whole(lp.types[i].value), Q0) : i \in Types(lp)}
    \cup {Prices(Q0, Ratio(lp.types[i].value, lp.types[i].use[2])) : i \in {j \in Types(lp) : lp.types[j].use[2] # 0}}
\* Two budgets: the origin, the thresholds on the axes and the crossings of two bid lines.
TwoBudgetVertices(lp) ==
    {Prices(Q0, Q0)} \cup {Prices(Whole(lp.types[i].value), Q0) : i \in Types(lp)}
    \cup {Prices(Q0, Ratio(lp.types[i].value, lp.types[i].use[2])) : i \in {j \in Types(lp) : lp.types[j].use[2] # 0}}
    \cup {Crossing(lp.types[p[1]], lp.types[p[2]]) :
             p \in {q \in Types(lp) \X Types(lp) : q[1] < q[2] /\ lp.types[q[1]].use[2] # lp.types[q[2]].use[2]}}

Det(m) ==
      m[1][1] * (m[2][2] * m[3][3] - m[2][3] * m[3][2]) - m[1][2] * (m[2][1] * m[3][3] - m[2][3] * m[3][1])
    + m[1][3] * (m[2][1] * m[3][2] - m[2][2] * m[3][1])
\* Slip: the plane where the concurrency budget is free is left out.
PricedPlanes(lp) ==
    <<[a |-> <<1, 0, 0>>, b |-> 0], [a |-> <<0, 1, 0>>, b |-> 0]>>
    \o [i \in Types(lp) |-> [a |-> lp.types[i].use, b |-> lp.types[i].value]]
\* Three budgets: every three of the axis planes and the bid planes that meet in a point (Cramer).
Planes(lp) ==
    <<[a |-> <<1, 0, 0>>, b |-> 0], [a |-> <<0, 1, 0>>, b |-> 0], [a |-> <<0, 0, 1>>, b |-> 0]>>
    \o [i \in Types(lp) |-> [a |-> lp.types[i].use, b |-> lp.types[i].value]]
Rows(t) == [i \in 1..3 |-> t[i].a]
Column(t, j) == [i \in 1..3 |-> [t[i].a EXCEPT ![j] = t[i].b]]
Meeting(t) == LET det == Det(Rows(t)) IN [j \in 1..3 |-> Ratio(Det(Column(t, j)), det)]
ThreeBudgetVertices(lp) ==
    LET planes == Planes(lp)
        three == {<<planes[s[1]], planes[s[2]], planes[s[3]]>> :
                     s \in {q \in (DOMAIN planes) \X (DOMAIN planes) \X (DOMAIN planes) : q[1] < q[2] /\ q[2] < q[3]}}
    IN  {<<Q0, Q0, Q0>>} \cup {Meeting(t) : t \in {u \in three : Det(Rows(u)) # 0}}

Vertices(lp) == IF Len(lp.budget) = 2 THEN TwoBudgetVertices(lp) ELSE ThreeBudgetVertices(lp)
Feasible(lp) == {p \in Vertices(lp) : \A b \in Budgets(lp) : QLeq(Q0, p[b])}

\* The cheapest vertex; among equals the one that rejects most types, then the one with the higher
\* price of the last budget, then of the one before.
Rejected(lp, p) == Cardinality({i \in Types(lp) : QLess(Reduced(lp, p, i), Q0)})
HigherFromLast(p, q) ==
    \E b \in DOMAIN p : QLess(q[b], p[b]) /\ \A c \in DOMAIN p : c > b => p[c] = q[c]
MoreSelective(lp, p, q) ==
    \/ Rejected(lp, p) > Rejected(lp, q)
    \/ (Rejected(lp, p) = Rejected(lp, q) /\ HigherFromLast(p, q))
Cheapest(cost) == {p \in DOMAIN cost : \A q \in DOMAIN cost : QLeq(cost[p], cost[q])}
MostSelective(lp, least) == CHOOSE p \in least : \A q \in least : ~MoreSelective(lp, q, p)
Duals(lp) == MostSelective(lp, Cheapest([p \in Feasible(lp) |-> DualObjective(lp, p)]))

----------------------------------------------------------------------------
(* The plan *)

\* Use of budget b by admitting the fractions x of the types.
Usage(lp, x, b) ==
    QSum([i \in Types(lp) |-> QMul(x[i], Whole(lp.types[i].weight * lp.types[i].use[b]))])
Worth(lp, x) == QSum([i \in Types(lp) |-> QMul(x[i], Whole(lp.types[i].weight * lp.types[i].value))])

Forced(lp, p) == [i \in Types(lp) |-> IF QLess(Q0, Reduced(lp, p, i)) THEN Whole(1) ELSE Q0]
Marginal(lp, p) == {i \in Types(lp) : Reduced(lp, p, i) = Q0}
Tight(lp, p) == {b \in Budgets(lp) : QLess(Q0, p[b])}
Left(lp, x, b) == QMax(Q0, QSub(Whole(lp.budget[b]), Usage(lp, x, b)))

\* One more type in the order given, as much of it as the budgets B have room for.
Part(lp, x, i, B) ==
    LET needs == {b \in B : lp.types[i].weight * lp.types[i].use[b] # 0}
        room == {QDiv(Left(lp, x, b), Whole(lp.types[i].weight * lp.types[i].use[b])) : b \in needs}
    IN  CHOOSE q \in room \cup {Whole(1)} : \A r \in room \cup {Whole(1)} : QLeq(q, r)
Fill(lp, x, order, B) ==
    LET F[k \in 0..Len(order)] ==
            IF k = 0 THEN x ELSE [F[k - 1] EXCEPT ![order[k]] = Part(lp, F[k - 1], order[k], B)]
    IN  F[Len(order)]
\* The types of S by their use of the cost budget, ties by their place.
ByCost(lp, S, before(_, _)) ==
    LET key(i) == lp.types[i].use[2]
        rank(i) == Cardinality({j \in S : before(key(j), key(i)) \/ (key(j) = key(i) /\ j < i)})
    IN  [k \in 1..Cardinality(S) |-> CHOOSE i \in S : rank(i) = k - 1]
Cheaper(a, b) == a < b
Dearer(a, b) == a > b

\* fillBothTight: a pair of types takes fractions, the others all or nothing, so that both budgets
\* are used up.  The code takes the first such choice, here any.
Exact(lp, x, S) ==
    LET w(i) == lp.types[i].weight
        c(i) == lp.types[i].use[2]
        with(T) == [i \in Types(lp) |-> IF i \in T THEN Whole(1) ELSE x[i]]
        choice(a, b, T) ==
            LET det == w(a) * w(b) * (c(b) - c(a))
                r == QSub(Whole(lp.budget[1]), Usage(lp, with(T), 1))
                k == QSub(Whole(lp.budget[2]), Usage(lp, with(T), 2))
            IN  [with(T) EXCEPT ![a] = QDiv(QSub(QMul(r, Whole(w(b) * c(b))), QMul(k, Whole(w(b)))), Whole(det)),
                                ![b] = QDiv(QSub(QMul(k, Whole(w(a))), QMul(r, Whole(w(a) * c(a)))), Whole(det))]
        within(y) == \A i \in S : QLeq(Q0, y[i]) /\ QLeq(y[i], Whole(1))
        tries == {choice(t[1], t[2], t[3]) :
                     t \in {u \in S \X S \X SUBSET S :
                               u[1] < u[2] /\ c(u[1]) # c(u[2]) /\ {u[1], u[2]} \cap u[3] = {}}}
    IN  IF \E y \in tries : within(y) THEN CHOOSE y \in tries : within(y) ELSE with(S)

\* fillMarginal, and the greedy fill against all budgets when there are three.
AdmitFractions(lp, p) ==
    LET x == Forced(lp, p)
        M == Marginal(lp, p)
        moves == {i \in M : lp.types[i].weight * lp.types[i].use[2] # 0}
    IN  IF M = {} \/ Tight(lp, p) = {} THEN x
        ELSE IF Len(lp.budget) = 3 THEN Fill(lp, x, [k \in 1..Cardinality(M) |->
                       CHOOSE i \in M : Cardinality({j \in M : j < i}) = k - 1], Budgets(lp))
        ELSE IF Tight(lp, p) = {1} THEN Fill(lp, x, ByCost(lp, M, Cheaper), {1})
        ELSE IF Tight(lp, p) = {2} THEN Fill(lp, x, ByCost(lp, moves, Dearer), {2})
        ELSE Exact(lp, x, M)
==============================================================================
