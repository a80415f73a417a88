---------------------------- MODULE TwoTierLeased ----------------------------
(***************************************************************************)
(* The `leased` mode of twoTier() (src/src/twotier/index.ts): every node   *)
(* keeps a local entry of leased credits for a key and refills it from a   *)
(* shared fixed-window budget held by the L2 store.  One key is modelled;  *)
(* the others only matter because they can evict it (Evict).               *)
(*                                                                         *)
(* A check is asynchronous: when the local credits are short it awaits a   *)
(* lease, so the L2 decision, its reply, the callbacks and the awaiting    *)
(* requests are separate steps, and the L2 window may roll between any two *)
(* of them.                                                                *)
(***************************************************************************)
EXTENDS Integers, Sequences, Functions, Sums

CONSTANTS
    N,              \* the nodes are 1..N
    Limit,          \* strategy.limit: the L2 budget of a window
    WindowMs,       \* strategy.windowMs
    BatchSizes,     \* sizes one refill may ask for: {lease.batch}, or what the learner may emit
    MaxBatch,       \* an upper bound of BatchSizes
    LowWater,       \* lease.lowWater; 0 disables the proactive refill
    WindowCoupled,  \* lease.windowCoupled
    Costs,          \* costs a check may ask for
    MaxCost,        \* an upper bound of Costs
    Reqs,           \* identities of the concurrent requests of one node
    Slots,          \* identities of the leases one node may have under way
    NoSlot,         \* entry.pending === undefined
    ServerTime,     \* TRUE: L2 decides at its own clock (Redis TIME); FALSE: at the `now` of the caller
    CanEvict,       \* l1.maxKeys or returnIdleAfterMs may drop the entry
    MaxResets,      \* bound on the calls of reset()
    CanFail,        \* an L2 call may reject, before or after taking effect
    Straddle,       \* the kinds of lease that may be under way when a window ends
    MaxTime         \* bound on the clock

ASSUME LeasedAssumption ==
    /\ N \in Nat \ {0} /\ Limit \in Nat /\ WindowMs \in Nat \ {0}
    /\ MaxBatch \in Nat /\ BatchSizes # {} /\ BatchSizes \subseteq 1..MaxBatch
    /\ LowWater \in Nat /\ MaxCost \in Nat /\ Costs # {} /\ Costs \subseteq 1..MaxCost
    /\ {WindowCoupled, ServerTime, CanEvict, CanFail} \subseteq BOOLEAN
    /\ Straddle \subseteq {"demand", "refill"}
    /\ MaxTime \in Nat /\ MaxResets \in Nat /\ NoSlot \notin Slots

VARIABLES
    now,        \* the clock, in ms
    l2,         \* the L2 record of the key: [start, count]
    entry,      \* entries.get(fk) of each node
    lease,      \* the L2 calls of each node
    waiting,    \* the checks of each node suspended at `await lease`, in order
    resets,     \* reset(): calls issued so far, and how many have not reached L2
    granted,    \* history: units L2 granted in each window
    admitted,   \* history: units admitted, by the window they are answered in
    prompt      \* history: of those, the units of requests that arrived in the same window

vars == <<now, l2, entry, lease, waiting, resets, granted, admitted, prompt>>

Node == 1..N
Window(t) == t \div WindowMs
Windows == 0..Window(MaxTime)
Larger(a, b) == IF a >= b THEN a ELSE b

----------------------------------------------------------------------------
(* State *)

\* LeaseEntry.  lastDecision is kept as its resetAt; 0 stands for undefined.
FreshEntry == [live |-> TRUE, credits |-> 0, resetAt |-> 0, refilling |-> FALSE, pending |-> NoSlot]
NoEntry == [FreshEntry EXCEPT !.live = FALSE]
NoRecord == [start |-> -1, count |-> 0]
FreeLease == [st |-> "free", kind |-> "demand", amt |-> 0, at |-> 0, ok |-> FALSE, resetAt |-> 0]

EntryType ==
    [live : BOOLEAN, credits : Nat, resetAt : Nat, refilling : BOOLEAN, pending : Slots \cup {NoSlot}]
\* sent: under way to L2; replied: decided, the answer under way; lost: the call
\* rejects; settled: the callbacks ran, but `pending` still names the lease.
LeaseType ==
    [st : {"free", "sent", "replied", "lost", "settled"}, kind : {"demand", "refill"},
     amt : Nat, at : Nat, ok : BOOLEAN, resetAt : Nat]
Results == {"none", "allowed", "denied", "failed"}
\* at: the window in which the check was called.
WaiterType == [req : Reqs, cost : Costs, at : Windows, slot : Slots, res : Results]

\* TypeOK: no check drives the credits of an entry negative (they are spent only when
\* they suffice), L2 counts never underflow, and an awaited lease is always a known one.
TypeOK ==
    /\ now \in 0..MaxTime
    /\ l2 \in [start : Int, count : Nat]
    /\ entry \in [Node -> EntryType]
    /\ lease \in [Node -> [Slots -> LeaseType]]
    /\ waiting \in [Node -> Seq(WaiterType)]
    /\ resets \in [issued : Nat, underway : Nat]
    /\ granted \in [Windows -> Nat]
    /\ admitted \in [Windows -> Nat]
    /\ prompt \in [Windows -> Nat]

Init ==
    /\ now = 0
    /\ l2 = NoRecord
    /\ entry = [n \in Node |-> NoEntry]
    /\ lease = [n \in Node |-> [s \in Slots |-> FreeLease]]
    /\ waiting = [n \in Node |-> <<>>]
    /\ resets = [issued |-> 0, underway |-> 0]
    /\ granted = [w \in Windows |-> 0]
    /\ admitted = [w \in Windows |-> 0]
    /\ prompt = [w \in Windows |-> 0]

----------------------------------------------------------------------------
(* The L2 budget: fixedWindow.check() inside the atomic l2.apply().        *)

WindowStart(t) == Window(t) * WindowMs
\* A record of any other window, older or newer, reads as a count of 0.
CountAt(rec, t) == IF rec.start = WindowStart(t) THEN rec.count ELSE 0
FitsBeforeAdding(rec, t, amt) == CountAt(rec, t) <= Limit   \* slip: the cost is not added
Fits(rec, t, amt) == CountAt(rec, t) + amt <= Limit
ConsumeAfresh(rec, t, amt) == [start |-> WindowStart(t), count |-> amt]   \* slip: the count is overwritten
Consume(rec, t, amt) == [start |-> WindowStart(t), count |-> CountAt(rec, t) + amt]
ResetAt(t) == WindowStart(t) + WindowMs
DecisionTime(c) == IF ServerTime THEN now ELSE c.at

----------------------------------------------------------------------------
(* The node *)

\* entryFor(fk)
EntryFor(n) == IF entry[n].live THEN entry[n] ELSE FreshEntry

\* Credits of a window that has rolled over expire at the entry of check().
Unexpired(e) ==
    IF WindowCoupled /\ e.resetAt # 0 /\ now >= e.resetAt THEN [e EXCEPT !.credits = 0] ELSE e

\* l2.apply(fk, decisionTransform(strategy, clock.now(), amt)) is under way; a
\* store that decides at its own clock ignores the time of the caller.
CallTime == IF ServerTime THEN 0 ELSE now
Sent(kind, amt) == [FreeLease EXCEPT !.st = "sent", !.kind = kind, !.amt = amt, !.at = CallTime]
Without(q, i) == [j \in 1..(Len(q) - 1) |-> IF j < i THEN q[j] ELSE q[j + 1]]
Asleep(n) == {waiting[n][i].req : i \in DOMAIN waiting[n]}

\* maybeRefill(): fires when the credits are at or below the low-water mark.
WantsAnotherRefill(e) == LowWater > 0 /\ e.credits <= LowWater   \* slip: one under way is not seen
WantsRefill(e) == LowWater > 0 /\ e.credits <= LowWater /\ ~e.refilling

CoversAlmost(e, c) == e.credits >= c - 1   \* slip: off by one
Covers(e, c) == e.credits >= c
SpendNothing(e, c) == e   \* slip: the credits are not taken off
Spend(e, c) == [e EXCEPT !.credits = @ - c]

\* The body of the for(;;) loop when the credits suffice: spend, maybe refill, admit.
Serve(n, e, c, at) ==
    LET e1 == Spend(e, c) IN
    /\ Covers(e, c)
    /\ admitted' = [admitted EXCEPT ![Window(now)] = @ + c]
    /\ prompt' = [prompt EXCEPT ![Window(now)] = @ + IF at = Window(now) THEN c ELSE 0]
    /\ \/ /\ ~WantsRefill(e1)
          /\ entry' = [entry EXCEPT ![n] = e1]
          /\ UNCHANGED lease
       \/ /\ WantsRefill(e1)
          /\ \E s \in Slots, b \in BatchSizes :
                /\ lease[n][s].st = "free"
                /\ lease' = [lease EXCEPT ![n][s] = Sent("refill", b)]
          /\ entry' = [entry EXCEPT ![n] = [e1 EXCEPT !.refilling = TRUE]]

\* ... and when they are short: await the pending lease, or start one.  Awaiting
\* a lease that has settled yields its decision again.
ResultOf(c) == IF c.st # "settled" THEN "none" ELSE IF c.ok THEN "allowed" ELSE "denied"

JoinsNever(e) == FALSE   \* slip: concurrent misses each lease
Joins(e) == e.pending # NoSlot

AwaitLease(n, e, r, c, at, q) ==
    LET Waiter(s, res) == [req |-> r, cost |-> c, at |-> at, slot |-> s, res |-> res] IN
    /\ ~Covers(e, c)
    /\ \/ /\ Joins(e)
          /\ waiting' = [waiting EXCEPT ![n] =
                            Append(q, Waiter(e.pending, ResultOf(lease[n][e.pending])))]
          /\ entry' = [entry EXCEPT ![n] = e]
          /\ UNCHANGED lease
       \/ /\ ~Joins(e)
          /\ \E s \in Slots, b \in BatchSizes :
                /\ lease[n][s].st = "free"
                /\ lease' = [lease EXCEPT ![n][s] = Sent("demand", Larger(b, c))]
                /\ waiting' = [waiting EXCEPT ![n] = Append(q, Waiter(s, "none"))]
                /\ entry' = [entry EXCEPT ![n] = [e EXCEPT !.pending = s]]
    /\ UNCHANGED <<admitted, prompt>>

\* No microtask of the node is waiting to run: a new call, or the passing of time,
\* never comes between a settled lease and the checks it wakes.
Quiet(n) ==
    /\ \A s \in Slots : lease[n][s].st # "settled"
    /\ \A i \in DOMAIN waiting[n] : waiting[n][i].res = "none"

\* check(key, cost), up to its return or its first await.
Check(n, r, c) ==
    LET e == Unexpired(EntryFor(n)) IN
    /\ Quiet(n) /\ r \notin Asleep(n)
    /\ \/ Serve(n, e, c, Window(now)) /\ UNCHANGED waiting
       \/ AwaitLease(n, e, r, c, Window(now), waiting[n])
    /\ UNCHANGED <<now, l2, resets, granted>>

\* A suspended check continues, in the order in which the checks were suspended:
\* it rejects, returns the denial, or goes round the loop again.
Resume(n, i) ==
    LET w == waiting[n][i]
        q == Without(waiting[n], i)
        e == EntryFor(n)
        Leave == waiting' = [waiting EXCEPT ![n] = q]
    IN  /\ i \in DOMAIN waiting[n]
        /\ w.res # "none"
        /\ \A j \in 1..(i - 1) : waiting[n][j].res = "none"
        /\ \/ /\ w.res = "failed"
              /\ Leave
              /\ UNCHANGED <<entry, lease, admitted, prompt>>
           \/ /\ w.res = "denied" /\ ~Covers(e, w.cost)
              /\ Leave
              /\ entry' = [entry EXCEPT ![n] = e]
              /\ UNCHANGED <<lease, admitted, prompt>>
           \/ /\ w.res # "failed"
              /\ Serve(n, e, w.cost, w.at)
              /\ Leave
           \/ /\ w.res = "allowed"
              /\ AwaitLease(n, e, w.req, w.cost, w.at, q)
        /\ UNCHANGED <<now, l2, resets, granted>>

----------------------------------------------------------------------------
(* The L2 call and its callbacks *)

\* l2.apply(fk, decisionTransform(strategy, now, amount)) takes effect in the store.
L2Apply(n, s) ==
    LET c == lease[n][s]
        t == DecisionTime(c)
        ok == Fits(l2, t, c.amt)
    IN  /\ c.st = "sent"
        /\ lease' = [lease EXCEPT ![n][s] =
                        [c EXCEPT !.st = "replied", !.ok = ok, !.resetAt = ResetAt(t)]]
        /\ l2' = IF ok THEN Consume(l2, t, c.amt) ELSE l2
        /\ granted' = [granted EXCEPT ![Window(t)] = @ + IF ok THEN c.amt ELSE 0]
        /\ UNCHANGED <<now, entry, waiting, resets, admitted, prompt>>

\* The call rejects: the store was unreachable, or the answer got lost.
L2Fail(n, s) ==
    /\ CanFail
    /\ lease[n][s].st \in {"sent", "replied"}
    /\ lease' = [lease EXCEPT ![n][s].st = "lost"]
    /\ UNCHANGED <<now, l2, entry, waiting, resets, granted, admitted, prompt>>

Wake(q, s, res) ==
    [i \in DOMAIN q |-> IF q[i].slot = s /\ q[i].res = "none" THEN [q[i] EXCEPT !.res = res] ELSE q[i]]

\* The entry after a decision is applied to it; the callbacks look the entry up again.
Credited(e, c) ==
    IF e.live THEN [e EXCEPT !.resetAt = c.resetAt, !.credits = @ + IF c.ok THEN c.amt ELSE 0] ELSE e

\* The .then() of an awaited lease: credit the entry and wake every waiter.
LeaseSettles(n, s) ==
    LET c == lease[n][s] IN
    /\ c.kind = "demand" /\ c.st = "replied"
    /\ entry' = [entry EXCEPT ![n] = Credited(@, c)]
    /\ lease' = [lease EXCEPT ![n][s].st = "settled"]
    /\ waiting' = [waiting EXCEPT ![n] = Wake(@, s, IF c.ok THEN "allowed" ELSE "denied")]
    /\ UNCHANGED <<now, l2, resets, granted, admitted, prompt>>

\* Its .finally(): free the slot, if the entry still names this lease.
NeverCleared(e, s) == e   \* slip: no .finally(), the settled lease stays pending
ClearedPending(e, s) == IF e.pending = s THEN [e EXCEPT !.pending = NoSlot] ELSE e

PendingCleared(n, s) ==
    /\ lease[n][s].st = "settled"
    /\ entry' = [entry EXCEPT ![n] = ClearedPending(@, s)]
    /\ lease' = [lease EXCEPT ![n][s] = FreeLease]
    /\ UNCHANGED <<now, l2, waiting, resets, granted, admitted, prompt>>

\* A rejected lease: every waiter throws, and .finally() frees the slot.
LeaseRejects(n, s) ==
    /\ lease[n][s].kind = "demand" /\ lease[n][s].st = "lost"
    /\ entry' = [entry EXCEPT ![n] = ClearedPending(@, s)]
    /\ lease' = [lease EXCEPT ![n][s] = FreeLease]
    /\ waiting' = [waiting EXCEPT ![n] = Wake(@, s, "failed")]
    /\ UNCHANGED <<now, l2, resets, granted, admitted, prompt>>

\* The callbacks of a proactive refill.  Under windowCoupled a grant of a window
\* that has rolled over is dropped; .finally() ends the refill in every case.
RefillNeverDone(e) == e   \* slip: no .finally(), refilling stays set
RefillDone(e) == IF e.live THEN [e EXCEPT !.refilling = FALSE] ELSE e
RefillAlwaysCredited(e, c) == Credited(e, c)   \* slip: the late grant is not dropped
RefillCredited(e, c) ==
    IF WindowCoupled /\ now >= c.resetAt THEN e ELSE Credited(e, c)

RefillSettles(n, s) ==
    LET c == lease[n][s] IN
    /\ c.kind = "refill" /\ c.st \in {"replied", "lost"}
    /\ entry' = [entry EXCEPT ![n] =
                    RefillDone(IF c.st = "lost" THEN @ ELSE RefillCredited(@, c))]
    /\ lease' = [lease EXCEPT ![n][s] = FreeLease]
    /\ UNCHANGED <<now, l2, waiting, resets, granted, admitted, prompt>>

----------------------------------------------------------------------------
(* The environment *)

\* forget(fk) by the idle timer, or by a flood of other keys (maxKeys).
Evict(n) ==
    /\ CanEvict
    /\ entry[n].live
    /\ entry' = [entry EXCEPT ![n] = NoEntry]
    /\ UNCHANGED <<now, l2, lease, waiting, resets, granted, admitted, prompt>>

\* reset(key): forget the entry, then await l2.reset().
Reset(n) ==
    /\ Quiet(n) /\ resets.issued < MaxResets
    /\ resets' = [issued |-> resets.issued + 1, underway |-> resets.underway + 1]
    /\ entry' = [entry EXCEPT ![n] = NoEntry]
    /\ UNCHANGED <<now, l2, lease, waiting, granted, admitted, prompt>>

L2Reset ==
    /\ resets.underway > 0
    /\ resets' = [resets EXCEPT !.underway = @ - 1]
    /\ l2' = NoRecord
    /\ UNCHANGED <<now, entry, lease, waiting, granted, admitted, prompt>>

\* The boundary of a window falls between the calls that may not straddle it: no
\* check awaits a lease, and L2 has decided every refill (its reply may be late).
CleanBoundary ==
    /\ "demand" \in Straddle \/ \A n \in Node : waiting[n] = <<>>
    /\ "refill" \in Straddle \/
          \A n \in Node, s \in Slots : ~(lease[n][s].kind = "refill" /\ lease[n][s].st = "sent")

Tick ==
    /\ now < MaxTime /\ \A n \in Node : Quiet(n)
    /\ Window(now + 1) = Window(now) \/ CleanBoundary
    /\ now' = now + 1
    /\ UNCHANGED <<l2, entry, lease, waiting, resets, granted, admitted, prompt>>

Callback(n, s) ==
    \/ L2Apply(n, s) \/ L2Fail(n, s) \/ LeaseSettles(n, s)
    \/ PendingCleared(n, s) \/ LeaseRejects(n, s) \/ RefillSettles(n, s)

Next ==
    \/ \E n \in Node, r \in Reqs, c \in Costs : Check(n, r, c)
    \/ \E n \in Node : \E i \in DOMAIN waiting[n] : Resume(n, i)
    \/ \E n \in Node, s \in Slots : Callback(n, s)
    \/ \E n \in Node : Evict(n) \/ Reset(n)
    \/ L2Reset
    \/ Tick

Spec == Init /\ [][Next]_vars

\* The store answers or the call times out, and the event loop runs every
\* continuation that is ready; arrivals, evictions and time owe nothing.
Fairness ==
    /\ \A n \in Node, s \in Slots :
          WF_vars(L2Apply(n, s) \/ LeaseSettles(n, s) \/ PendingCleared(n, s)
                    \/ LeaseRejects(n, s) \/ RefillSettles(n, s))
    /\ \A n \in Node : WF_vars(\E i \in DOMAIN waiting[n] : Resume(n, i))
    /\ WF_vars(L2Reset)

FairSpec == Spec /\ Fairness

----------------------------------------------------------------------------
(* Properties *)

InFlight(n) == {s \in Slots : lease[n][s].st \in {"sent", "replied"}}
HoldMax == Larger(MaxBatch, MaxCost) + MaxCost - 1

\* "a node never holds more than `batch` outstanding" (index.ts:400-402): concurrent
\* misses coalesce on one lease, so with lowWater = 0 the credits of an entry and
\* the lease under way never exceed one batch (for costs of 1; a request that
\* asks for more may leave cost - 1 credits unspent when it leases).
NodeHoldsAtMostBatch ==
    \A n \in Node :
        /\ entry[n].credits <= HoldMax
        /\ \A s \in InFlight(n) : entry[n].credits + lease[n][s].amt <= HoldMax
        /\ \A s, t \in InFlight(n) : s = t

\* Why it holds without proactive refills, evictions and resets: every call of a
\* node is the awaited lease its live entry names, and it fits on top of the credits.
Held(e, calls) ==
    /\ e.credits <= HoldMax
    /\ \A s \in Slots : calls[s].st # "free" =>
          /\ calls[s].kind = "demand" /\ e.live /\ e.pending = s
          /\ calls[s].st \in {"sent", "replied"} => e.credits + calls[s].amt <= HoldMax
HoldInv == \A n \in Node : Held(entry[n], lease[n])

\* With proactive refills a node may have a refill and an awaited lease out, one of each:
\* it holds no more than the credits at which either is sent with both grants on top, which
\* is more than the batch + lowWater - 1 of docs/FORMAL-MODEL.md.
ShortOf == Larger(LowWater, MaxCost - 1)
HoldBoth == ShortOf + MaxBatch + Larger(MaxBatch, MaxCost)
NodeHoldsTwoLeases ==
    \A n \in Node :
        /\ entry[n].credits <= HoldBoth
        /\ \A s \in InFlight(n) : entry[n].credits + lease[n][s].amt <= HoldBoth
        /\ \A s, t \in InFlight(n) : s # t =>
              /\ lease[n][s].kind # lease[n][t].kind
              /\ entry[n].credits + lease[n][s].amt + lease[n][t].amt <= HoldBoth

\* Why it holds without evictions and resets: the live entry names the awaited lease and
\* marks the refill, and each is sent when the credits are low.
HeldBoth(e, calls) ==
    LET OnItsWay(s) == calls[s].st \in {"sent", "replied"} IN
    /\ e.credits <= HoldBoth
    /\ \A s \in Slots : calls[s].st # "free" =>
          e.live /\ IF calls[s].kind = "demand" THEN e.pending = s ELSE e.refilling
    /\ \A s, t \in Slots :
          calls[s].st # "free" /\ calls[t].st # "free" /\ calls[s].kind = calls[t].kind => s = t
    /\ \A s \in Slots : OnItsWay(s) =>
          IF calls[s].kind = "demand"
          THEN calls[s].amt <= Larger(MaxBatch, MaxCost) /\ e.credits <= ShortOf + MaxBatch
          ELSE calls[s].amt <= MaxBatch /\ e.credits <= ShortOf + Larger(MaxBatch, MaxCost)
    /\ \A s, t \in Slots : OnItsWay(s) /\ OnItsWay(t) /\ s # t => e.credits <= ShortOf
HeldBothInv == \A n \in Node : HeldBoth(entry[n], lease[n])

\* L2 never grants more than the limit in a window, whatever the order in which
\* the calls of the nodes reach it; each reset() buys one more budget.
L2GrantsWithinLimit == \A w \in Windows : granted[w] <= Limit * (1 + resets.issued)

\* Why it holds when L2 decides at its own clock: the record accounts for every
\* unit of the current window that no completed reset() has forgiven, later windows
\* are untouched, and earlier ones are closed.
ResetsDone == resets.issued - resets.underway
BudgetInv ==
    /\ resets.underway <= resets.issued
    /\ l2.count <= Limit
    /\ \A w \in Windows : w > Window(now) => granted[w] = 0
    /\ granted[Window(now)] <= CountAt(l2, now) + Limit * ResetsDone
    /\ \A w \in Windows : granted[w] <= Limit * (1 + ResetsDone)

\* docs/FORMAL-MODEL.md: with lowWater = 0 and costs of 1, the requests that
\* arrive in a window and are admitted are at most Limit + N * (Batch - 1).
CarryoverBound == \A w \in Windows : prompt[w] <= Limit + N * (MaxBatch - 1)

\* lease.windowCoupled "tightens the global per-window bound ... to exactly Limit".
CoupledBound == \A w \in Windows : prompt[w] <= Limit

\* What node n may still spend: its credits, and the grants on their way to it.
Arriving(c) == IF c.st = "replied" /\ c.ok THEN c.amt ELSE 0
Stock(n) == entry[n].credits + SumFunction([s \in Slots |-> Arriving(lease[n][s])])

\* No unit of budget is spent twice: what was admitted, what the nodes still hold
\* and what is on its way to them never exceeds what L2 granted, across failed
\* calls, evicted entries and callbacks that credit a recreated entry.
NothingMinted == SumFunction(admitted) + Sum([n \in Node |-> Stock(n)], N) <= SumFunction(granted)

\* Every suspended check is answered: no lost wake-up, no lease that stays pending.
EveryCheckAnswered ==
    \A n \in Node, r \in Reqs : (r \in Asleep(n)) ~> (r \notin Asleep(n))

\* A proactive refill never stays marked as under way once its call has ended.
RefillFlagClears ==
    \A n \in Node : entry[n].refilling ~> ~entry[n].refilling
==============================================================================
