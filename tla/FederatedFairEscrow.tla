------------------------ MODULE FederatedFairEscrow ------------------------
(***************************************************************************)
(* federatedWeightedFairEscrow(): regions draw the budget of a window from *)
(* a shared pool that reserves a weighted share for each of them, and each *)
(* splits what it was granted between its tenants.  The pool is either in  *)
(* the process (a check is one step) or in a shared store (every grant is  *)
(* a call, checks of a region run one after the other, and reset() runs in *)
(* between).                                                               *)
(***************************************************************************)
EXTENDS FairShare

CONSTANTS
    NR,            \* number of regions
    NU,            \* number of tenants of a region
    GlobalLimit,   \* limit
    UserWeights,   \* weights weightOf() may return
    UserCosts,     \* costs of a check
    PoolWindow,    \* windowMs
    PoolPlans,     \* deployments [async, maxKeys, regions, asks]: the kind of pool, l1.maxKeys, the
                   \* regions in use and a bound on the calls of check()
    MaxLeaseIters, \* MAX_LEASE_ITERS
    MaxClears,     \* bound on the calls of reset()
    PoolTime       \* bound on the clock

FRegion == 1..NR
FUser == 1..NU

ASSUME FederatedEscrowAssumption ==
    /\ {NR, NU, GlobalLimit, PoolWindow, MaxLeaseIters} \subseteq Nat \ {0}
    /\ UserWeights \subseteq Nat \ {0} /\ UserCosts \subseteq Nat \ {0}
    /\ PoolPlans \subseteq [async : BOOLEAN, maxKeys : Nat \ {0}, regions : FRegion, asks : Nat]
    /\ {MaxClears, PoolTime} \subseteq Nat

VARIABLES
    time,       \* the clock of every region and of the store
    setup,      \* the deployment
    rpool,      \* the pool: [win, in, weight, granted]
    region,     \* the state of each region
    turn,       \* the check of each region that is running
    releases,   \* release() calls under way
    drawn,      \* calls of check() so far
    clears,     \* calls of reset() so far
    served,     \* history: units of checks answered in the window they were made in
    pardoned,   \* history: units a region forgot with reset(), likewise
    verdict     \* history: the last answer: [region, user, cost, allowed]

fairVars == <<time, setup, rpool, region, turn, releases, drawn, clears, served, pardoned, verdict>>

PWindowOf(t) == t \div PoolWindow
PWindows == 0..PWindowOf(PoolTime)

EmptyPool(w) == [win |-> w, in |-> {}, weight |-> [r \in FRegion |-> 0], granted |-> [r \in FRegion |-> 0]]
EmptyRegion(w) == [win |-> w, budget |-> 0, order |-> <<>>, weight |-> [u \in FUser |-> 0],
                   used |-> [u \in FUser |-> 0], evictedUsed |-> 0]
\* asked: a grant is under way; told: its answer is.  own: the entry is still in the map.
NoTurn == [st |-> "none", user |-> 1, cost |-> 0, own |-> TRUE, weight |-> 0, used |-> 0,
           need |-> 0, wsum |-> 0, got |-> 0, iter |-> 0]
NoVerdict == [region |-> 0, user |-> 0, cost |-> 0, allowed |-> TRUE]

PoolType == [win : Int, in : SUBSET FRegion, weight : [FRegion -> Nat], granted : [FRegion -> 0..GlobalLimit]]
RegionType == [win : Int, budget : 0..GlobalLimit, order : Seq(FUser), weight : [FUser -> Nat],
               used : [FUser -> Nat], evictedUsed : Nat]
TurnType == [st : {"none", "asked", "told"}, user : FUser, cost : Nat, own : BOOLEAN, weight : Nat,
             used : Nat, need : Nat, wsum : Nat, got : Nat, iter : 0..MaxLeaseIters]

\* No budget or grant leaves 0..limit, and the lease loop stays within its cap.
FairTypeOK ==
    /\ time \in 0..PoolTime /\ setup \in PoolPlans
    /\ rpool \in PoolType /\ region \in [FRegion -> RegionType] /\ turn \in [FRegion -> TurnType]
    /\ releases \in [FRegion -> Nat] /\ {drawn, clears} \subseteq Nat
    /\ {served, pardoned} \subseteq [PWindows -> Nat]
    /\ verdict \in [region : Nat, user : Nat, cost : Nat, allowed : BOOLEAN]

FairInit ==
    /\ time = 0 /\ setup \in PoolPlans
    /\ rpool = EmptyPool(-1)
    /\ region = [r \in FRegion |-> EmptyRegion(-1)]
    /\ turn = [r \in FRegion |-> NoTurn]
    /\ releases = [r \in FRegion |-> 0]
    /\ drawn = 0 /\ clears = 0
    /\ served = [w \in PWindows |-> 0] /\ pardoned = [w \in PWindows |-> 0]
    /\ verdict = NoVerdict

----------------------------------------------------------------------------
(* The pool *)

\* The first touch after a roll clears every region.
RolledPool(p) == IF PWindowOf(time) > p.win THEN EmptyPool(PWindowOf(time)) ELSE p

\* grant(): the region's total, never lowered within a window.
GrantedOnTop(p, r, weight, want) ==   \* slip: the wanted total is added to the grant
    [RolledPool(p) EXCEPT !.in = @ \cup {r}, !.weight[r] = weight, !.granted[r] = @ + want]
Granted(p, r, weight, want) ==
    LET q == [RolledPool(p) EXCEPT !.in = @ \cup {r}, !.weight[r] = weight]
        ceiling == Most(q.granted[r], GlobalLimit - OthersHold(q.weight, q.granted, NR, r, GlobalLimit))
    IN  IF want <= q.granted[r] THEN q ELSE [q EXCEPT !.granted[r] = Most(0, Least(want, ceiling))]

Released(p, r) ==
    [RolledPool(p) EXCEPT !.in = @ \ {r}, !.weight[r] = 0, !.granted[r] = 0]

----------------------------------------------------------------------------
(* A region *)

HasUser(g, u) == \E i \in DOMAIN g.order : g.order[i] = u
UserWeight(g) == Sum(g.weight, NU)
\* Credits of evicted tenants still count.
UsedForgettingEvicted(g) == Sum(g.used, NU)   \* slip: an eviction frees what was admitted
UsedOf(g) == g.evictedUsed + Sum(g.used, NU)

\* A tenant leaves the map at the cap; what it used stays on the books.
Forgotten(g, u) == [g EXCEPT !.order = WithoutKey(@, u), !.weight[u] = 0, !.used[u] = 0]
Admitted(g, u, w) ==
    LET oldest == Head(g.order)
        room == IF Len(g.order) >= setup.maxKeys
                THEN [Forgotten(g, oldest) EXCEPT !.evictedUsed = @ + g.used[oldest]] ELSE g
    IN  IF HasUser(g, u) THEN [g EXCEPT !.weight[u] = w]
        ELSE [room EXCEPT !.order = Append(@, u), !.weight[u] = w]

\* The check of the turn as decide() and wouldAdmit() see it.
WouldAdmit(g, t) ==
    LET w == UserWeight(g)
        e == IF t.own THEN [weight |-> g.weight[t.user], used |-> g.used[t.user]]
             ELSE [weight |-> t.weight, used |-> t.used]
        reserve == ReserveFor(g.weight, g.used, NU, IF t.own THEN t.user ELSE 0, w, g.budget)
    IN  Admits(e.used, t.cost, Share(e.weight, w, g.budget), g.budget - UsedOf(g), reserve)

\* What the region asks the pool for: the cost on top of what the others are guaranteed.
NeedCostOnly(g, t) == Least(GlobalLimit, UsedOf(g) + t.cost)   \* slip: the reserve eats the cost
Need(g, t) ==
    Least(GlobalLimit, UsedOf(g) + t.cost
        + ReserveFor(g.weight, g.used, NU, IF t.own THEN t.user ELSE 0, UserWeight(g), g.budget))

NeedsGrant(g, t) == t.iter < MaxLeaseIters /\ g.budget < GlobalLimit /\ ~WouldAdmit(g, t)

\* The books after decide().
Decided(r, g, t) ==
    LET ok == WouldAdmit(g, t)
        w == PWindowOf(time)
    IN  /\ region' = [region EXCEPT ![r] = IF ok /\ t.own THEN [g EXCEPT !.used[t.user] = @ + t.cost] ELSE g]
        /\ served' = IF ok /\ g.win \in {w, -1} THEN [served EXCEPT ![w] = @ + t.cost] ELSE served
        /\ verdict' = [region |-> r, user |-> t.user, cost |-> t.cost, allowed |-> ok]
        /\ turn' = [turn EXCEPT ![r] = NoTurn]

\* ensureRegionBudget() against a pool in the process: grants until the check fits, the
\* pool gives no more, or the cap on the iterations.
LeaseStep(s, r, t) ==
    LET q == Granted(s.p, r, UserWeight(s.g), Need(s.g, t))
    IN  IF s.done \/ ~NeedsGrant(s.g, t) THEN [s EXCEPT !.done = TRUE]
        ELSE [p |-> q, g |-> [s.g EXCEPT !.budget = q.granted[r]], done |-> q.granted[r] <= s.g.budget]
Leased(p, g, r, t) ==
    LET run[i \in 0..MaxLeaseIters] ==
            IF i = 0 THEN [p |-> p, g |-> g, done |-> FALSE] ELSE LeaseStep(run[i - 1], r, t)
    IN  run[MaxLeaseIters]

\* The synchronous prelude of a check: roll, then look the tenant up.
Prepared(r, u, w) ==
    Admitted(IF PWindowOf(time) > region[r].win THEN EmptyRegion(PWindowOf(time)) ELSE region[r], u, w)
TurnOf(u, cost) == [NoTurn EXCEPT !.user = u, !.cost = cost]

FairCheckSync(r, u, cost, w) ==
    LET t == TurnOf(u, cost)
        end == Leased(rpool, Prepared(r, u, w), r, t)
    IN  /\ ~setup.async /\ r <= setup.regions /\ drawn < setup.asks
        /\ drawn' = drawn + 1
        /\ rpool' = end.p
        /\ Decided(r, end.g, t)
        /\ UNCHANGED <<time, setup, releases, clears, pardoned>>

\* The next check of the region's chain runs up to its first grant.
AskPoolOrDecide(r, g, t) ==
    \/ /\ NeedsGrant(g, t)
       /\ region' = [region EXCEPT ![r] = g]
       /\ turn' = [turn EXCEPT ![r] = [t EXCEPT !.st = "asked", !.need = Need(g, t), !.wsum = UserWeight(g)]]
       /\ verdict' = NoVerdict
       /\ UNCHANGED served
    \/ ~NeedsGrant(g, t) /\ Decided(r, g, t)

RunsAlone(r) == turn[r].st = "none"

FairCheckAsync(r, u, cost, w) ==
    /\ setup.async /\ RunsAlone(r) /\ r <= setup.regions /\ drawn < setup.asks
    /\ drawn' = drawn + 1
    /\ AskPoolOrDecide(r, Prepared(r, u, w), TurnOf(u, cost))
    /\ UNCHANGED <<time, setup, rpool, releases, clears, pardoned>>

PoolGrant(r) ==
    LET t == turn[r] IN
    /\ t.st = "asked"
    /\ rpool' = Granted(rpool, r, t.wsum, t.need)
    /\ turn' = [turn EXCEPT ![r].st = "told", ![r].got = rpool'.granted[r]]
    /\ UNCHANGED <<time, setup, region, releases, drawn, clears, served, pardoned, verdict>>

\* The answer is the region's budget, whatever happened to the region meanwhile.
GrantArrives(r) ==
    LET t == [turn[r] EXCEPT !.iter = @ + 1]
        g == [region[r] EXCEPT !.budget = t.got]
    IN  /\ t.st = "told"
        /\ \/ t.got <= region[r].budget /\ Decided(r, g, t)
           \/ t.got > region[r].budget /\ AskPoolOrDecide(r, g, t)
        /\ UNCHANGED <<time, setup, rpool, releases, drawn, clears, pardoned>>

\* The call rejects and the check with it; the chain goes on.
GrantFails(r) ==
    /\ turn[r].st # "none"
    /\ turn' = [turn EXCEPT ![r] = NoTurn]
    /\ UNCHANGED <<time, setup, rpool, region, releases, drawn, clears, served, pardoned, verdict>>

\* The running check keeps the entry it resolved.
OrphanTurn(r, gone) ==
    IF turn[r].st # "none" /\ turn[r].own /\ turn[r].user \in gone
    THEN [turn EXCEPT ![r] = [@ EXCEPT !.own = FALSE, !.weight = region[r].weight[turn[r].user],
                                       !.used = region[r].used[turn[r].user]]]
    ELSE turn

\* reset(tenant) forgets what the tenant used; reset() the region, and gives its grant back.
ClearUser(r, u) ==
    /\ clears < MaxClears /\ HasUser(region[r], u)
    /\ clears' = clears + 1
    /\ region' = [region EXCEPT ![r] = Forgotten(@, u)]
    /\ turn' = OrphanTurn(r, {u})
    /\ pardoned' = [pardoned EXCEPT ![region[r].win] = @ + region[r].used[u]]
    /\ UNCHANGED <<time, setup, rpool, releases, drawn, served, verdict>>

ClearRegion(r) ==
    /\ clears < MaxClears /\ region[r].win >= 0
    /\ clears' = clears + 1
    /\ IF setup.async THEN releases' = [releases EXCEPT ![r] = @ + 1] /\ UNCHANGED rpool
                      ELSE rpool' = Released(rpool, r) /\ UNCHANGED releases
    /\ region' = [region EXCEPT ![r] = EmptyRegion(-1)]
    /\ turn' = OrphanTurn(r, FUser)
    /\ pardoned' = [pardoned EXCEPT ![region[r].win] = @ + UsedOf(region[r])]
    /\ UNCHANGED <<time, setup, drawn, served, verdict>>

\* A release under way takes effect, or is lost.
PoolRelease(r) ==
    /\ releases[r] > 0
    /\ releases' = [releases EXCEPT ![r] = @ - 1]
    /\ rpool' \in {rpool, Released(rpool, r)}
    /\ UNCHANGED <<time, setup, region, turn, drawn, clears, served, pardoned, verdict>>

FairTick ==
    /\ time < PoolTime
    /\ time' = time + 1
    /\ UNCHANGED <<setup, rpool, region, turn, releases, drawn, clears, served, pardoned, verdict>>

FairNext ==
    \/ \E r \in FRegion :
          \/ \E u \in FUser, cost \in UserCosts, w \in UserWeights :
                FairCheckSync(r, u, cost, w) \/ FairCheckAsync(r, u, cost, w)
          \/ \E u \in FUser : ClearUser(r, u)
          \/ PoolGrant(r) \/ GrantArrives(r) \/ GrantFails(r) \/ ClearRegion(r) \/ PoolRelease(r)
    \/ FairTick

FairSpec == FairInit /\ [][FairNext]_fairVars

----------------------------------------------------------------------------
(* Properties *)

\* The grants of all regions never exceed the limit, whatever weights they report, in
\* whatever order they ask, across rolls and releases that arrive late.
PoolWithinLimit == Sum(rpool.granted, NR) <= GlobalLimit

\* Safety of the federation: the regions admit at most the limit in a window, plus only what
\* a reset() forgave (evictions forgive nothing).  With a pool in a store this needs that no
\* region was reset: a grant or a release under way survives the reset.
FederatedCap ==
    (~setup.async \/ clears = 0) => \A w \in PWindows : served[w] <= GlobalLimit + pardoned[w]

\* Work conservation: a region that has the pool to itself denies only what does not fit in
\* the whole limit beside the guarantees of its other tenants; its lease loop never stalls.
NoStall ==
    LET g == region[verdict.region]
        i == verdict.user
        full == ReserveFor(g.weight, g.used, NU, i, UserWeight(g), GlobalLimit)
    IN  (~verdict.allowed /\ clears = 0 /\ setup.regions = 1 /\ g.win = PWindowOf(time) /\ HasUser(g, i))
            => UsedOf(g) + full + verdict.cost > GlobalLimit
=============================================================================
