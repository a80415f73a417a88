----------------------------- MODULE FairShare -----------------------------
(* The weighted-fair arithmetic that weightedFairEscrow and                  *)
(* federatedWeightedFairEscrow share, and the reservation rule of the pool   *)
(* over regions, which is the same rule one level up.                        *)
EXTENDS Integers, Sequences, Sums

Least(a, b) == IF a <= b THEN a ELSE b
Most(a, b) == IF a >= b THEN a ELSE b

\* Map.delete(): a key leaves the insertion order, and the others keep theirs.
WithoutKey(order, key) ==
    LET places == {i \in DOMAIN order : order[i] = key}
        place == CHOOSE i \in places : TRUE
    IN  IF places = {} THEN order
        ELSE [i \in 1..(Len(order) - 1) |-> IF i < place THEN order[i] ELSE order[i + 1]]

\* The guaranteed share of a weight, rounded down.
Share(weight, totalWeight, budget) ==
    IF totalWeight > 0 THEN (weight * budget) \div totalWeight ELSE 0

\* What must stay free for the guarantees of everyone but `asker` (0: for everyone).
ReserveFor(weight, used, n, asker, total, budget) ==
    Sum([j \in 1..n |-> IF j = asker THEN 0
                        ELSE Most(0, Share(weight[j], total, budget) - used[j])], n)

\* decide(): within the guarantee, or the surplus that nobody's guarantee needs covers
\* what is missing.  `free` is what is left of the budget.
AdmitsUncapped(used, cost, share, free, reserve) ==   \* slip: the hard cap is left out
    used + cost <= share \/ cost <= Most(0, free - reserve)
Admits(used, cost, share, free, reserve) ==
    LET borrow == Least(Least(used + cost - share, cost), Least(Most(0, free - reserve), free))
    IN  cost <= free /\ (used + cost <= share \/ used + cost <= share + borrow)

\* The pool over regions: everyone else keeps the larger of its grant and its guarantee.
HoldShares(weight, granted, n, asker, limit) ==   \* slip: grants above the guarantee are forgotten
    Sum([j \in 1..n |-> IF j = asker THEN 0 ELSE Share(weight[j], Sum(weight, n), limit)], n)
OthersHold(weight, granted, n, asker, limit) ==
    Sum([j \in 1..n |-> IF j = asker THEN 0
                        ELSE Most(granted[j], Share(weight[j], Sum(weight, n), limit))], n)
=============================================================================
