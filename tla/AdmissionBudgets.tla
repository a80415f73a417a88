--------------------------- MODULE AdmissionBudgets ---------------------------
(***************************************************************************)
(* The budgets of admission/index.ts that several tenants or streams       *)
(* share: fairShare and weightedFairShare, the token budget in its local   *)
(* and its store-backed form, adaptiveThrottle, and the batch allocation   *)
(* weightedMaxMin.  Everything here is synchronous or one atomic store     *)
(* operation; what can go wrong builds up over windows and resets.         *)
(***************************************************************************)
EXTENDS Integers, Sequences, FiniteSets, Functions, Rationals

CONSTANTS
    Tenants,      \* tenants of the shared budget
    ShareLimit,   \* fairShare.limit, weightedFairShare.limit
    TenantWeights,\* weights a check may name
    ShareCosts,   \* costs of a check
    TokenBudget,  \* tokenBudget.budget
    TokenSizes,   \* tokens of a debit
    Kay,          \* adaptiveThrottle.k
    MaxSent,      \* bound: requests sent through the throttle
    BudgetWindow, \* windowMs of all of them
    BudgetSpan    \* bound: the clock stops here

\* requirePositive of every limit, window, cost and size, and requireAtLeast(k, 1).
ASSUME BudgetAssumption ==
    /\ IsFiniteSet(Tenants)
    /\ ShareLimit \in Nat /\ ShareCosts \subseteq Nat
    /\ TokenBudget \in Nat \ {0}
    /\ TokenSizes \subseteq Nat \ {0} /\ \E most \in TokenSizes : \A n \in TokenSizes : n <= most
    /\ Kay \in Nat \ {0} /\ MaxSent \in Nat
    /\ BudgetWindow \in Nat \ {0} /\ BudgetSpan \in Nat

VARIABLES
    bnow,     \* the injected clock
    tool,     \* which of the tools this behaviour is about
    share,    \* fairShare: [start, total, used], used a function from the active tenants
    weight,   \* weightedFairShare: the weights of the active tenants
    meter,    \* tokenBudget: [start, served]
    row,      \* distributedTokenBudget: the stored [w, s], or no row
    gauge,    \* adaptiveThrottle: [start, requests, accepts, prevRequests, prevAccepts]
    trips     \* requests through the throttle: [sent, open (unanswered), spurned (one was shed or refused)]

budgetVars == <<bnow, tool, share, weight, meter, row, gauge, trips>>

Tools == {"fair", "weighted", "tokens", "throttle"}
NoTime == -BudgetWindow - 1            \* -Infinity: any clock reading is past its window
StartOf(t) == (t \div BudgetWindow) * BudgetWindow
NoUse == [t \in {} |-> 0]
NoRow == [w |-> NoTime, s |-> 0]

BudgetInit ==
    /\ bnow = 0
    /\ tool \in Tools
    /\ share = [start |-> NoTime, total |-> 0, used |-> NoUse]
    /\ weight = NoUse
    /\ meter = [start |-> NoTime, served |-> 0]
    /\ row = NoRow
    /\ gauge = [start |-> NoTime, requests |-> 0, accepts |-> 0, prevRequests |-> 0, prevAccepts |-> 0]
    /\ trips = [open |-> 0, spurned |-> FALSE, sent |-> 0]

Largest(S) == CHOOSE x \in S : \A y \in S : y <= x

BudgetTypeOK ==
    /\ bnow \in 0..BudgetSpan /\ tool \in Tools
    /\ share.total \in 0..ShareLimit
    /\ DOMAIN share.used \subseteq Tenants
    /\ DOMAIN weight \subseteq Tenants
    /\ meter.served \in 0..(TokenBudget + Largest(TokenSizes))
    /\ gauge.requests \in 0..MaxSent /\ gauge.accepts \in 0..MaxSent
    /\ trips.open \in 0..MaxSent

----------------------------------------------------------------------------
(* fairShare and weightedFairShare *)

\* rollWindow.
Fresh(s) == IF bnow >= s.start + BudgetWindow THEN [start |-> StartOf(bnow), total |-> 0, used |-> NoUse] ELSE s
Kept(s, w) == IF bnow >= s.start + BudgetWindow THEN NoUse ELSE w

With(f, t, v) == [x \in DOMAIN f \cup {t} |-> IF x = t THEN v ELSE f[x]]
Without(f, t) == [x \in DOMAIN f \ {t} |-> f[x]]
UsedBy(s, t) == IF t \in DOMAIN s.used THEN s.used[t] ELSE 0
AtLeastOne(n) == IF n < 1 THEN 1 ELSE n

\* The share of a tenant: the budget split over the tenants seen in this window.
EqualCap(n) == AtLeastOne(ShareLimit \div n)
WeightedCap(ws, t) == AtLeastOne((ws[t] * ShareLimit) \div FoldFunction(+, 0, ws))

\* Slip: only the tenant's own share is looked at.
DebitedByShare(s, t, cost, cap) ==
    LET used == UsedBy(s, t)
    IN  IF used + cost <= cap
        THEN [s EXCEPT !.used = With(@, t, used + cost), !.total = @ + cost]
        ELSE [s EXCEPT !.used = With(@, t, used)]
Debited(s, t, cost, cap) ==
    LET used == UsedBy(s, t)
    IN  IF s.total + cost <= ShareLimit /\ used + cost <= cap
        THEN [s EXCEPT !.used = With(@, t, used + cost), !.total = @ + cost]
        ELSE [s EXCEPT !.used = With(@, t, used)]

FairCheck(t, cost) ==
    LET s == Fresh(share)
        n == Cardinality(DOMAIN s.used \cup {t})
    IN  /\ tool = "fair"
        /\ share' = Debited(s, t, cost, EqualCap(n))
        /\ UNCHANGED <<bnow, tool, weight, meter, row, gauge, trips>>

WeightedCheck(t, cost, w) ==
    LET ws == With(Kept(share, weight), t, w)
    IN  /\ tool = "weighted"
        /\ weight' = ws
        /\ share' = Debited(Fresh(share), t, cost, WeightedCap(ws, t))
        /\ UNCHANGED <<bnow, tool, meter, row, gauge, trips>>

\* Slip: the tenant is forgotten, its units stay spent.
Forgotten(s, t) == IF t \in DOMAIN s.used THEN [s EXCEPT !.used = Without(@, t)] ELSE s
\* reset(tenant): its units go back to the budget.
Refunded(s, t) ==
    IF t \in DOMAIN s.used THEN [s EXCEPT !.total = @ - s.used[t], !.used = Without(@, t)] ELSE s

ResetTenant(t) ==
    /\ tool \in {"fair", "weighted"}
    /\ share' = Refunded(share, t)
    /\ weight' = IF t \in DOMAIN share.used THEN Without(weight, t) ELSE weight
    /\ UNCHANGED <<bnow, tool, meter, row, gauge, trips>>

ResetShares ==
    /\ tool \in {"fair", "weighted"}
    /\ share' = [start |-> NoTime, total |-> 0, used |-> NoUse]
    /\ weight' = NoUse
    /\ UNCHANGED <<bnow, tool, meter, row, gauge, trips>>

----------------------------------------------------------------------------
(* tokenBudget and distributedTokenBudget *)

RolledMeter(m) == IF bnow >= m.start + BudgetWindow THEN [start |-> StartOf(bnow), served |-> 0] ELSE m
\* rolled(), and the same lines of the Lua script: nothing is stored for a stale row.
RolledRow(r) == IF r = NoRow \/ bnow >= r.w + BudgetWindow THEN [w |-> StartOf(bnow), s |-> 0] ELSE r

\* Stop at the boundary: the debit that crosses it counts in full.  The store keeps nothing of a denial.
DebitMeter(n) ==
    LET m == RolledMeter(meter) IN IF m.served >= TokenBudget THEN m ELSE [m EXCEPT !.served = @ + n]
DebitRow(n) ==
    LET r == RolledRow(row) IN IF r.s >= TokenBudget THEN row ELSE [r EXCEPT !.s = @ + n]
\* The same debit of both.
Debit(n) ==
    /\ tool = "tokens"
    /\ meter' = DebitMeter(n)
    /\ row' = DebitRow(n)
    /\ UNCHANGED <<bnow, tool, share, weight, gauge, trips>>

\* PEXPIRE, or the memory store's expiry: the row of a window that is over may be gone.
RowExpires ==
    /\ tool = "tokens" /\ row # NoRow /\ bnow >= row.w + BudgetWindow
    /\ row' = NoRow
    /\ UNCHANGED <<bnow, tool, share, weight, meter, gauge, trips>>

ResetBudget ==
    /\ tool = "tokens"
    /\ meter' = [start |-> NoTime, served |-> 0]
    /\ row' = NoRow
    /\ UNCHANGED <<bnow, tool, share, weight, gauge, trips>>

NotBelowZero(n) == IF n < 0 THEN 0 ELSE n
RemainingHere == NotBelowZero(TokenBudget - RolledMeter(meter).served)
\* remaining() rolls the local meter and only reads the row.
Remaining ==
    /\ tool = "tokens"
    /\ meter' = RolledMeter(meter)
    /\ UNCHANGED <<bnow, tool, share, weight, row, gauge, trips>>
RemainingInFleet == NotBelowZero(TokenBudget - RolledRow(row).s)

----------------------------------------------------------------------------
(* adaptiveThrottle *)

\* Slip: the accepts of the last window are dropped at the boundary.
RolledRequestsOnly(g) ==
    LET start == StartOf(bnow)
    IN  IF start = g.start THEN g
        ELSE [start |-> start, requests |-> 0, accepts |-> 0,
              prevRequests |-> IF start = g.start + BudgetWindow THEN g.requests ELSE 0, prevAccepts |-> 0]
\* roll: one window on, the counts become the previous ones; further, or back, they are forgotten.
Rolled(g) ==
    LET start == StartOf(bnow)
    IN  IF start = g.start THEN g
        ELSE [start |-> start, requests |-> 0, accepts |-> 0,
              prevRequests |-> IF start = g.start + BudgetWindow THEN g.requests ELSE 0,
              prevAccepts |-> IF start = g.start + BudgetWindow THEN g.accepts ELSE 0]

\* Counts times the window: the previous window fades as the live one fills.
RollingRequests(g) == g.requests * BudgetWindow + g.prevRequests * (BudgetWindow - (bnow - g.start))
RollingAccepts(g) == g.accepts * BudgetWindow + g.prevAccepts * (BudgetWindow - (bnow - g.start))
RejectProbability(g) ==
    QMax(Whole(0), Ratio(RollingRequests(g) - Kay * RollingAccepts(g), RollingRequests(g) + BudgetWindow))

\* request(): counted whether it is sent or shed; shed only when the probability is not 0.
Request(sent) ==
    LET g == Rolled(gauge)
    IN  /\ tool = "throttle" /\ trips.sent < MaxSent
        /\ sent \/ QLess(Whole(0), RejectProbability(g))
        /\ gauge' = [g EXCEPT !.requests = @ + 1]
        /\ trips' = [trips EXCEPT !.sent = @ + 1, !.open = IF sent THEN @ + 1 ELSE @,
                                 !.spurned = @ \/ ~sent]
        /\ UNCHANGED <<bnow, tool, share, weight, meter, row>>

\* record(): the backend answered a request that was sent.
Record(accepted) ==
    LET g == Rolled(gauge)
    IN  /\ tool = "throttle" /\ trips.open > 0
        /\ gauge' = IF accepted THEN [g EXCEPT !.accepts = @ + 1] ELSE g
        /\ trips' = [trips EXCEPT !.open = @ - 1, !.spurned = @ \/ ~accepted]
        /\ UNCHANGED <<bnow, tool, share, weight, meter, row>>

\* rejectProbability() and stats() roll the windows before they read.
Stats ==
    /\ tool = "throttle"
    /\ gauge' = Rolled(gauge)
    /\ UNCHANGED <<bnow, tool, share, weight, meter, row, trips>>

----------------------------------------------------------------------------

\* The clock moves on, or steps back by one where everything is in memory (a row that expired before
\* the step back is lost for good: the limiters' clock finding).
BudgetTick ==
    /\ \E t \in {bnow - 1, bnow + 1, bnow + BudgetWindow} :
          t \in 0..BudgetSpan /\ bnow' = t /\ (tool = "tokens" => t > bnow)
    /\ UNCHANGED <<tool, share, weight, meter, row, gauge, trips>>

BudgetNext ==
    \/ \E t \in Tenants, cost \in ShareCosts : FairCheck(t, cost)
    \/ \E t \in Tenants, cost \in ShareCosts, w \in TenantWeights : WeightedCheck(t, cost, w)
    \/ \E t \in Tenants : ResetTenant(t)
    \/ ResetShares
    \/ \E n \in TokenSizes : Debit(n)
    \/ RowExpires \/ ResetBudget \/ Remaining \/ Stats
    \/ \E sent \in BOOLEAN : Request(sent)
    \/ \E accepted \in BOOLEAN : Record(accepted)
    \/ BudgetTick

----------------------------------------------------------------------------
(* weightedMaxMin *)

\* A case is [demand, weight, limit] over 1..n.  Tenants by demand per weight, ties by place.
Ascending(a) ==
    LET before(i, j) == \/ a.demand[i] * a.weight[j] < a.demand[j] * a.weight[i]
                        \/ (a.demand[i] * a.weight[j] = a.demand[j] * a.weight[i] /\ i < j)
        rank(i) == Cardinality({j \in DOMAIN a.demand : before(j, i)})
    IN  [k \in DOMAIN a.demand |-> CHOOSE i \in DOMAIN a.demand : rank(i) = k - 1]

\* waterfillContinuous: the level rises; who wants less than its part of it is served and leaves.
Waterfill(a) ==
    LET order == Ascending(a)
        pour[k \in 0..Len(order)] ==
            IF k = 0 THEN [rem |-> a.limit, active |-> FoldFunction(+, 0, a.weight), over |-> FALSE,
                           alloc |-> [i \in DOMAIN a.demand |-> Whole(0)]]
            ELSE LET s == pour[k - 1]
                     i == order[k]
                     level == Ratio(s.rem, s.active)
                     part == QMul(Whole(a.weight[i]), level)
                 IN  IF ~s.over /\ QLeq(Whole(a.demand[i]), part)
                     THEN [s EXCEPT !.alloc[i] = Whole(a.demand[i]), !.rem = @ - a.demand[i], !.active = @ - a.weight[i]]
                     ELSE [s EXCEPT !.alloc[i] = part, !.over = TRUE]
    IN  pour[Len(order)].alloc

\* Slip: the remainder goes round in order of place.
PoorestByPlace(a, alloc) == CHOOSE i \in DOMAIN alloc : alloc[i] < a.demand[i] /\ \A j \in 1..(i - 1) : alloc[j] >= a.demand[j]
\* One more credit to the worst-served tenant that wants one.
Poorest(a, alloc) ==
    LET wants == {i \in DOMAIN alloc : alloc[i] < a.demand[i]}
        least == {i \in wants : \A j \in wants : alloc[i] * a.weight[j] <= alloc[j] * a.weight[i]}
    IN  CHOOSE i \in least : \A j \in least : i <= j

WeightedMaxMin(a) ==
    LET floored == [i \in DOMAIN a.demand |-> QFloor(Waterfill(a)[i])]
        drip[k \in 0..a.limit] ==
            IF k = 0 THEN floored
            ELSE IF \A i \in DOMAIN a.demand : drip[k - 1][i] >= a.demand[i] THEN drip[k - 1]
            ELSE [drip[k - 1] EXCEPT ![Poorest(a, drip[k - 1])] = @ + 1]
    IN  drip[a.limit - FoldFunction(+, 0, floored)]

GuaranteedShare(a, i) == (a.weight[i] * a.limit) \div FoldFunction(+, 0, a.weight)

----------------------------------------------------------------------------
(* Properties *)

\* Whatever checks, window rolls, clock steps and resets come in whatever order, what a tenant holds
\* adds up to the total that is held against the limit (fairShare and weightedFairShare, reset(tenant)).
SharesAddUp == share.total = FoldFunction(+, 0, share.used) /\ share.total <= ShareLimit

\* The store-backed meter answers as the local one does, also when its row has expired or,
\* with reads alone since the window turned, is stale; and a window's tokens exceed the budget
\* by less than one debit (tokenBudget's stop at the boundary).
MetersAgree ==
    /\ RemainingHere = RemainingInFleet
    /\ meter.served <= TokenBudget + Largest(TokenSizes) - 1 /\ row.s <= TokenBudget + Largest(TokenSizes) - 1

\* Once a backend has accepted everything it was asked, the next request is sent, whatever windows the
\* requests and their answers fell in (adaptiveThrottle, K >= 1).  While an answer is out its request
\* counts as refused, so a slow healthy backend is throttled: the property waits for the answers.
HealthyNeverShed ==
    ~trips.spurned /\ trips.open = 0 => RejectProbability(Rolled(gauge)) = Whole(0)

\* weightedMaxMin hands out min(demand, limit), nobody more than it asked or, while it asks, less than
\* its guaranteed share; and no tenant could give a credit to one that still wants and is worse off.
FairTo(a, alloc) ==
    LET asked == FoldFunction(+, 0, a.demand)
    IN  /\ FoldFunction(+, 0, alloc) = IF asked < a.limit THEN asked ELSE a.limit
        /\ \A i \in DOMAIN alloc :
              /\ alloc[i] <= a.demand[i]
              /\ alloc[i] < a.demand[i] => alloc[i] >= GuaranteedShare(a, i)
              /\ alloc[i] < a.demand[i] =>
                    \A j \in DOMAIN alloc : (alloc[j] - 1) * a.weight[i] <= alloc[i] * a.weight[j]
MaxMinFair(a) == FairTo(a, WeightedMaxMin(a))
==============================================================================
