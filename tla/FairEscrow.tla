----------------------------- MODULE FairEscrow -----------------------------
(***************************************************************************)
(* weightedFairEscrow(): processes split the budget of a window between    *)
(* tenants by weight.  Without an L2 a process sees the whole budget; with *)
(* one it leases credits from a shared fixed window, and other checks, the *)
(* roll of the window, evictions and reset() run while the lease is under  *)
(* way.  Integer weights and costs; a process has one check of a tenant    *)
(* under way at a time.                                                    *)
(***************************************************************************)
EXTENDS FairShare

CONSTANTS
    NP,            \* number of processes
    NT,            \* number of tenants
    Quota,         \* limit: the budget of a window
    Quantum,       \* quantum
    Weights,       \* weights weightOf() may return
    EscrowCosts,   \* costs of a check
    Plans,         \* the deployments to consider, [l2, maxKeys, procs, asks]: with an L2 or not,
                   \* l1.maxKeys, the processes in use and a bound on the calls of check()
    EscrowWindow,  \* windowMs
    MaxForgets,    \* bound on the calls of reset()
    EscrowTime     \* bound on the clock

EProc == 1..NP

ASSUME EscrowAssumption ==
    /\ {NP, NT, Quota, Quantum, EscrowWindow} \subseteq Nat \ {0}
    /\ Weights \subseteq Nat \ {0} /\ EscrowCosts \subseteq Nat \ {0}
    /\ Plans \subseteq [l2 : BOOLEAN, maxKeys : Nat \ {0}, procs : EProc, asks : Nat]
    /\ {MaxForgets, EscrowTime} \subseteq Nat

VARIABLES
    clk,        \* the clock
    plan,       \* the deployment
    pool,       \* the state of each process
    ask,        \* the check of each tenant in each process
    shared,     \* the record of the shared fixed window: [win, count]
    asks,       \* calls of check() so far
    forgets,    \* calls of reset() so far
    leased,     \* history: units the shared window has granted
    spent,      \* history: units admitted in each window of the process that admitted them
    forgiven    \* history: units dropped from the books by evictions and resets, likewise

escrowVars == <<clk, plan, pool, ask, shared, asks, forgets, leased, spent, forgiven>>

Tenant == 1..NT
EWindowOf(t) == t \div EscrowWindow
EWindows == 0..EWindowOf(EscrowTime)

\* win -1: windowStart is -Infinity.  order: the keys of the tenants map, oldest first;
\* weight and used are 0 for a tenant that is not in it.
NoTenants == [order |-> <<>>, weight |-> [t \in Tenant |-> 0], used |-> [t \in Tenant |-> 0], aggWeight |-> 0, aggUsed |-> 0]
FreshPool(w, budget) == [win |-> w, budget |-> budget, map |-> NoTenants]
StartBudget == IF plan.l2 THEN 0 ELSE Quota
\* asked: the lease is under way; granted, refused: its answer is.  own: the check's entry is
\* still the one in the map; otherwise `weight` and `used` are the entry's.
IdleAsk == [st |-> "idle", cost |-> 0, amount |-> 0, own |-> FALSE, weight |-> 0, used |-> 0]

MapType == [order : Seq(Tenant), weight : [Tenant -> Nat], used : [Tenant -> Nat],
            aggWeight : Nat, aggUsed : Nat]
AskType == [st : {"idle", "asked", "granted", "refused"}, cost : Nat, amount : Nat, own : BOOLEAN,
            weight : Nat, used : Nat]

\* The running counters are never negative and no budget is either.
EscrowTypeOK ==
    /\ clk \in 0..EscrowTime /\ plan \in Plans
    /\ pool \in [EProc -> [win : Int, budget : Nat, map : MapType]]
    /\ ask \in [EProc -> [Tenant -> AskType]]
    /\ shared \in [win : Int, count : 0..Quota]
    /\ {asks, forgets, leased} \subseteq Nat
    /\ {spent, forgiven} \subseteq [EWindows -> Nat]

EscrowInit ==
    /\ clk = 0 /\ plan \in Plans
    /\ pool = [p \in EProc |-> FreshPool(-1, IF plan.l2 THEN 0 ELSE Quota)]
    /\ ask = [p \in EProc |-> [t \in Tenant |-> IdleAsk]]
    /\ shared = [win |-> -1, count |-> 0]
    /\ asks = 0 /\ forgets = 0 /\ leased = 0
    /\ spent = [w \in EWindows |-> 0] /\ forgiven = [w \in EWindows |-> 0]

----------------------------------------------------------------------------
(* The tenants map and its running counters *)

\* An entry leaves the map and takes its part of the counters with it.
DroppedKeepingUsed(m, t) ==   \* slip: the used counter keeps the share of the entry
    [m EXCEPT !.order = WithoutKey(@, t), !.weight[t] = 0, !.used[t] = 0,
              !.aggWeight = @ - m.weight[t]]
Dropped(m, t) ==
    [m EXCEPT !.order = WithoutKey(@, t), !.weight[t] = 0, !.used[t] = 0,
              !.aggWeight = @ - m.weight[t], !.aggUsed = @ - m.used[t]]

Has(m, t) == \E i \in DOMAIN m.order : m.order[i] = t
\* bootstrapTenant(): the oldest entry makes room at the cap.
Victim(m, t) == IF ~Has(m, t) /\ Len(m.order) >= plan.maxKeys THEN {Head(m.order)} ELSE {}
\* The entry of the asker, with the weight it has now.
Bootstrapped(m, t, w) ==
    LET room == IF Victim(m, t) = {} THEN m ELSE Dropped(m, Head(m.order))
    IN  IF Has(m, t)
        THEN [m EXCEPT !.aggWeight = @ + w - m.weight[t], !.weight[t] = w]
        ELSE [room EXCEPT !.order = Append(@, t), !.weight[t] = w, !.used[t] = 0, !.aggWeight = @ + w]

\* Checks under way keep the entry they resolved: it is no longer the map's.
Orphaned(p, gone) ==
    [ask EXCEPT ![p] = [t \in Tenant |->
        IF t \in gone /\ @[t].st # "idle" /\ @[t].own
        THEN [@[t] EXCEPT !.own = FALSE, !.weight = pool[p].map.weight[t], !.used = pool[p].map.used[t]]
        ELSE @[t]]]

----------------------------------------------------------------------------
(* check() *)

\* decide(): `e` is the entry the check holds, in the map or not.  With an empty map the
\* share is Infinity.
DecidesUnreserved(m, budget, t, e, cost) ==   \* slip: borrowing takes whatever is free
    cost <= budget - m.aggUsed
Decides(m, budget, t, e, cost) ==
    LET free == budget - m.aggUsed
        share == Share(e.weight, m.aggWeight, budget)
        reserve == ReserveFor(m.weight, m.used, NT, IF e.own THEN t ELSE 0, m.aggWeight, budget)
    IN  IF m.aggWeight = 0 THEN cost <= free ELSE Admits(e.used, cost, share, free, reserve)

Entry(m, t, a) == IF a.own THEN [a EXCEPT !.weight = m.weight[t], !.used = m.used[t]] ELSE a

\* The decision: an admission is booked on the entry and on the running counter.
Decide(p, t, st, a, others) ==
    LET e == Entry(st.map, t, a)
        ok == Decides(st.map, st.budget, t, e, a.cost)
    IN  /\ pool' = [pool EXCEPT ![p] =
              IF ~ok THEN st
              ELSE [st EXCEPT !.map.aggUsed = @ + a.cost, !.map.used[t] = IF a.own THEN @ + a.cost ELSE @]]
        /\ spent' = IF ok THEN [spent EXCEPT ![IF st.win >= 0 THEN st.win ELSE EWindowOf(clk)] = @ + a.cost] ELSE spent
        /\ ask' = [others EXCEPT ![p][t] = IdleAsk]

\* The head of the lease loop: the free part of the budget covers the cost, or lease.
NeedsLease(st, cost) == plan.l2 /\ st.budget - st.map.aggUsed < cost
LeaseAmount(st, cost) == Most(cost - (st.budget - st.map.aggUsed), Quantum)

LeaseOrDecide(p, t, st, a, others) ==
    \/ /\ NeedsLease(st, a.cost)
       /\ pool' = [pool EXCEPT ![p] = st]
       /\ ask' = [others EXCEPT ![p][t] = [a EXCEPT !.st = "asked", !.amount = LeaseAmount(st, a.cost)]]
       /\ UNCHANGED spent
    \/ ~NeedsLease(st, a.cost) /\ Decide(p, t, st, a, others)

\* check(tenant, cost): roll the window, look the tenant up, then lease or decide.
EscrowCheck(p, t, cost, w) ==
    LET rolls == EWindowOf(clk) > pool[p].win
        st == IF rolls THEN FreshPool(EWindowOf(clk), StartBudget) ELSE pool[p]
        gone == IF rolls THEN Tenant ELSE Victim(st.map, t)
        lost == IF rolls \/ gone = {} THEN 0 ELSE st.map.used[Head(st.map.order)]
        a == [IdleAsk EXCEPT !.cost = cost, !.own = TRUE]
    IN  /\ ask[p][t].st = "idle" /\ p <= plan.procs /\ asks < plan.asks
        /\ asks' = asks + 1
        /\ forgiven' = IF lost > 0 THEN [forgiven EXCEPT ![st.win] = @ + lost] ELSE forgiven
        /\ LeaseOrDecide(p, t, [st EXCEPT !.map = Bootstrapped(@, t, w)], a, Orphaned(p, gone))
        /\ UNCHANGED <<clk, plan, shared, forgets, leased>>

\* The shared fixed window decides the lease.
SharedCount == IF shared.win = EWindowOf(clk) THEN shared.count ELSE 0
FitsIfAnyLeft(count, amount) == count < Quota   \* slip: the amount is not added before the comparison
FitsShared(count, amount) == count + amount <= Quota
SharedApply(p, t) ==
    LET a == ask[p][t]
        fits == FitsShared(SharedCount, a.amount)
    IN  /\ a.st = "asked"
        /\ shared' = [win |-> EWindowOf(clk), count |-> SharedCount + IF fits THEN a.amount ELSE 0]
        /\ leased' = leased + IF fits THEN a.amount ELSE 0
        /\ ask' = [ask EXCEPT ![p][t].st = IF fits THEN "granted" ELSE "refused"]
        /\ UNCHANGED <<clk, plan, pool, asks, forgets, spent, forgiven>>

\* The lease is credited to whatever window the process is in by now.
LeaseGranted(p, t) ==
    LET a == ask[p][t]
        st == [pool[p] EXCEPT !.budget = @ + a.amount]
    IN  /\ a.st = "granted"
        /\ \/ st.budget >= Quota /\ Decide(p, t, st, a, ask)
           \/ st.budget < Quota /\ LeaseOrDecide(p, t, st, a, ask)
        /\ UNCHANGED <<clk, plan, shared, asks, forgets, leased, forgiven>>

\* A refused lease denies the check; a failed one rejects it, whether or not it took effect.
LeaseRefused(p, t) ==
    /\ ask[p][t].st # "idle"
    /\ ask' = [ask EXCEPT ![p][t] = IdleAsk]
    /\ UNCHANGED <<clk, plan, pool, shared, asks, forgets, leased, spent, forgiven>>

\* reset(tenant) frees what the tenant used; reset() the whole window.
ResetTenant(p, t) ==
    /\ forgets < MaxForgets /\ Has(pool[p].map, t)
    /\ forgets' = forgets + 1
    /\ pool' = [pool EXCEPT ![p].map = Dropped(@, t)]
    /\ ask' = Orphaned(p, {t})
    /\ forgiven' = [forgiven EXCEPT ![pool[p].win] = @ + pool[p].map.used[t]]
    /\ UNCHANGED <<clk, plan, shared, asks, leased, spent>>

ResetAll(p) ==
    /\ forgets < MaxForgets /\ pool[p].win >= 0
    /\ forgets' = forgets + 1
    /\ pool' = [pool EXCEPT ![p] = FreshPool(-1, StartBudget)]
    /\ ask' = Orphaned(p, Tenant)
    /\ forgiven' = [forgiven EXCEPT ![pool[p].win] = @ + IF plan.l2 THEN 0 ELSE pool[p].map.aggUsed]
    /\ UNCHANGED <<clk, plan, shared, asks, leased, spent>>

EscrowTick ==
    /\ clk < EscrowTime
    /\ clk' = clk + 1
    /\ UNCHANGED <<plan, pool, ask, shared, asks, forgets, leased, spent, forgiven>>

EscrowNext ==
    \/ \E p \in EProc, t \in Tenant :
          \/ \E cost \in EscrowCosts, w \in Weights : EscrowCheck(p, t, cost, w)
          \/ SharedApply(p, t) \/ LeaseGranted(p, t) \/ LeaseRefused(p, t) \/ ResetTenant(p, t)
    \/ \E p \in EProc : ResetAll(p)
    \/ EscrowTick

EscrowSpec == EscrowInit /\ [][EscrowNext]_escrowVars

----------------------------------------------------------------------------
(* Properties *)

\* The O(1) counters equal the sums they stand for in every process without an L2, through
\* weight changes, evictions, rolls and resets.  With an L2 the used counter also carries
\* what was admitted on entries that left the map during their lease, and never less.
CountersMatchRescan ==
    \A p \in EProc :
        LET m == pool[p].map IN
        /\ m.aggWeight = Sum(m.weight, NT)
        /\ m.aggUsed >= Sum(m.used, NT)
        /\ ~plan.l2 => m.aggUsed = Sum(m.used, NT)

OverWindows(f) == Sum([i \in 1..(EWindowOf(EscrowTime) + 1) |-> f[i - 1]], EWindowOf(EscrowTime) + 1)

\* The hard cap: a window of a process without L2 admits the limit, plus only what evictions
\* and resets forgave; with an L2, the fleet admits no unit that was not leased or forgiven.
EscrowCap ==
    /\ ~plan.l2 => \A w \in EWindows : spent[w] <= plan.procs * Quota + forgiven[w]
    /\ plan.l2 => OverWindows(spent) <= leased + OverWindows(forgiven)

\* What is reserved for the guarantees of all tenants of a process.
Reserved(p) == ReserveFor(pool[p].map.weight, pool[p].map.used, NT, 0, pool[p].map.aggWeight, pool[p].budget)
Solvent(p) == Reserved(p) <= pool[p].budget - pool[p].map.aggUsed

\* The active set, the weights and the budget of p stay as they are.
SameTerms(p) ==
    /\ pool'[p].map.weight = pool[p].map.weight /\ pool'[p].map.order = pool[p].map.order
    /\ pool'[p].budget = pool[p].budget /\ pool'[p].win = pool[p].win

\* Sharing incentive: no admission of one unit, which is either within the guarantee or borrowed
\* whole, leaves a guarantee of another tenant uncovered that was covered before it, in processes
\* without an L2.
UnitsLeaveGuaranteesCovered ==
    [][\A p \in EProc :
          (/\ ~plan.l2 /\ SameTerms(p) /\ Solvent(p)
           /\ pool'[p].map.aggUsed <= pool[p].map.aggUsed + 1) => Solvent(p)']_escrowVars
=============================================================================
