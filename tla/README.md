# A TLA+ model of ThrottleKit

ThrottleKit is a rate-limiting and admission-control library for TypeScript
(`src/src/`), with a service built on it (`src/server/`). Its promises are about
numbers: so many admissions per window, so many requests in flight, so much budget
handed out. They have to hold although the calls of a fleet to a shared store
overlap, arrive late or out of order, fail half way, and cross window boundaries.
This directory models the parts of the program where that is hard, model-checks them
on small instances with TLC, and proves the most important facts for every instance
with TLAPS.

Contents: 1. the system, 2. the modules, 3. the runs, 4. fairness, 5. the proofs,
6. where code and documentation disagree, 7. what is not modelled, 8. the plan.

## 1. The system

### Components

| Component | State | Operations | What makes it correct |
|---|---|---|---|
| Strategies (`algorithms/`) | one small record per key (window and count, TAT, tokens, ...) | `check`, `peek`, `forecast`, pure functions of record, time and cost | no interval admits more than the strategy promises; peek, forecast and the wait of a denial are true |
| Core limiter, composites (`core/`, `multi/`) | a record per key and dimension | `check`, `peek`, `forecast`, `reset` | charges all dimensions or none |
| Stores (`stores/`, `redis/`, `postgres/`, `dynamodb/`, `deno/`, `cloudflare/`) | the records, with a deadline | `apply(key, transform)`, `reset`, sweep | `apply` is atomic per key, is answered, and memory stays bounded |
| Two-tier limiter (`twotier/index.ts`) | per node and key: leased credits, the pending lease, the refill flag, the last decision; or a cache of denials | `check`, the callbacks of leases and refills, eviction, `reset` | overshoot of a window is bounded; no credit is spent twice; a cached denial is true |
| Weighted fair escrow (`twotier/*escrow*`, `redis-region-fair-pool.ts`) | tenants with weight and use, running sums, the budget of the window; the pool of all regions | `check`, lease, grant, release, eviction, `reset` | the cap of the window; guarantees stay covered; no stall |
| Lease spender, fleet leasing (`twotier/lease-spender.ts`, `server/src/fleet/`) | credits of a client and their deadline | spend, refresh, apply a grant, reset | a client spends only what it was granted |
| Distributed concurrency guard (`concurrency/distributed.ts`) | share, in-flight count, heartbeat and generation numbers, lease expiry | `acquire`, `release`, heartbeats, fencing, `close` | the requests in flight in the fleet stay within the global limit |
| Concurrency coordinators (`concurrency/heartbeat-core.ts`, `*-coordinator.ts`) | a record per live node | `heartbeat`, `leave` | the shares stay within the limit; nothing is reclaimed from a node that admits |
| Adaptive limiter (`concurrency/adaptive.ts`) | estimate, in-flight count, sliding minimum of latencies, probe | `acquire`, `release` | limit in range, slot returned once, baseline exact |
| Federation (`federation/`) | per process: the escrow of the window; per region: a shared one; the coordinator's row | `check`, lease, push, lease-back, roll, reconcile, `reset` | one window's admissions over all regions stay within the limit |
| Budgets (`admission/index.ts`, `distributed-budget.ts`) | a total and a part per tenant; accept and request counts | check, debit, record, reset, window roll | parts add up to the total; local and stored meters agree |
| Unified admission (`admission/unified.ts`, `fused-lua.ts`, `fluid-lp.ts`) | slots, units of rate and cost, bid prices, warm-up samples | `admit`, `release`, `lastDecisions` | all or nothing over the axes; verdicts are the call's own; prices are optimal |
| Sketch limiter (`sketch/`) | a table of hash counters | `check`, `snapshot`, `merge` | never underestimates |
| Analytics (`analytics/`, `admission/analytics.ts`) | window, counters, Space-Saving summaries | record, snapshot, reset | the summaries bracket the true counts |
| Adapters (`adapters/`) | the life of a request | gate, handler, response events or stream | every slot comes back once, reported rightly |
| Service (`server/src/`) | leases of remote clients, meters per key, capture buffer and segments | check, admit, release, heartbeat, debit, sweep, record, flush, purge | slots have one owner; meters survive their cache; no decision vanishes |
| Headers, security helpers, observability, configuration, policy files, CLI, test kit, monitor | parsing and rendering | glue | not modelled (section 7) |

### Interactions

- A limiter calls a store through `apply`; nothing else synchronises the processes of
  a fleet. Every call is asynchronous, so state read before an `await` may be stale
  after it.
- A two-tier node and its L2 store exchange one kind of message: "consume *k*
  units", decided inside `apply` by the fixed-window strategy. Redis evaluates it at
  the server's clock, the other stores at the `now` the caller sent.
- A federated process asks, in order, its own escrow, the regional escrow and the
  coordinator; a grant of the coordinator is pushed to the regional escrow and a part
  leased back.
- A concurrency guard and its coordinator exchange heartbeats. The report is
  sampled when the call is made and the grant applied when the reply lands, while
  further heartbeats may be under way.
- An adapter asks an admitter or a guard before the handler runs, and returns the slot
  from a life-cycle event of the response. A remote client gets a lease from the
  service door instead, which its sweep takes back when the heartbeats stop.
- Within one process the JavaScript event loop makes code between two `await`s
  atomic and runs continuations in order; the models use exactly that granularity.

### What is hard to test

The list with its lines is under `hazards` in `PROJECT.json`. In short: coalescing of
concurrent misses; callbacks that land after the window rolled, after the entry was
evicted and recreated, or after a `reset`; late or reordered heartbeats and replies;
generation numbers that restart when a record is evicted; reclaim racing
self-fencing; optimistic writes racing deletes and re-creations; calls that take
effect but are reported as failed; running counters that replace a rescan; a slot
whose return hangs on which of two events comes first; caches and rings at their limit.

## 2. The modules

| Module | Models | Run through |
|---|---|---|
| `TwoTierLeased` | the leased mode of `twoTier()` on N nodes and the L2 fixed-window budget | `MCTwoTierLeased` |
| `CachedDeny` | the cached-deny mode of `twoTier()` | `MCFairEscrow` |
| `ConcurrencyFleet`, `Sums` | N concurrency guards and the coordinator they share | `MCConcurrencyFleet` |
| `AtomicStore` | the contract of `Store.apply`: an abstract specification | instantiated by `CasStore` |
| `CasStore` | the optimistic stores (DynamoDB, D1, Deno KV) | `MCCasStore`, `MCStores` |
| `MemoryStore`, `PostgresStore`, `RedisStore` | the other stores | `MCStores` |
| `FederatedWindow` | federation with the regional escrow and the coordinator | `MCFederatedWindow` |
| `FairShare` | share, reserve and the decision common to both fair escrows | the next two |
| `FairEscrow` | the weighted fair escrow of one region | `MCFairEscrow` |
| `FederatedFairEscrow` | the fair escrow over regions and their pool | `MCFairEscrow` |
| `Sketch` | the Count-Min limiter and the merging of its snapshots | `MCFairEscrow` |
| `Strategies` | all strategies as operators, and the civil calendar | `Limiter` |
| `Limiter` | `rateLimit()` and `multiRateLimit()` over any of them | `MCLimiter`, `MCRequestPath` |
| `AdaptiveGuard` | the adaptive concurrency limiter | `MCRequestPath` |
| `RequestLifecycle` | the framework adapters around it | `MCRequestPath` |
| `HeavyHitters` | the analytics | `MCRequestPath` |
| `Rationals`, `FluidLp` | exact fractions; the bid prices and the plan | `UnifiedAdmission`, `MCAdmission` |
| `UnifiedAdmission` | `admit()` over concurrency, rate and cost | `MCAdmission` |
| `AdmissionBudgets` | fair shares, token budgets, adaptive throttle, max-min split | `MCAdmission` |
| `ServiceDoor` | the service's dispatch, lease table and meters | `MCAdmission` |
| `CaptureLog` | recorder, flush loop and segment directory of the capture | `MCAdmission` |
| `FleetLease` | the lease spender and the Reserve door | `MCAdmission` |
| `SumTheorems` | what the sums of the models are, over nodes and over finite sets of calls | TLAPS |
| `TwoTierLeasedProofs`, `TwoTierBudgetProofs` | the theorems about `TwoTierLeased` | TLAPS |
| `ConcurrencyFleetProofs` | the theorems about `ConcurrencyFleet` | TLAPS |
| `CasStoreProofs` | the theorems about `CasStore` | TLAPS |
| `AdmissionProofs` | the theorems about `UnifiedAdmission`, `AdmissionBudgets`, `ServiceDoor`, `CaptureLog` and `FleetLease`, for the specification of `MCAdmission` | TLAPS |
| `FederatedWindowProofs` | the theorems about `FederatedWindow` and `MCFederatedWindow` | TLAPS |
| `FairSharingProofs` | the theorems about `FairEscrow`, `FederatedFairEscrow`, `Sketch` and `CachedDeny` | TLAPS |

The `MC` modules give constants their values and state the properties that join
several parts. The components of `MCStores`, `MCFairEscrow`, `MCAdmission` and
`MCRequestPath` share no state in the code either, except where one module extends the other
(`RequestLifecycle` over `AdaptiveGuard`, `UnifiedAdmission` over `FluidLp`):
a variable `subject` or `part`, chosen at the start, says which of them a behaviour is about, and the
others stand still.

Definitions commented as a *slip* are deliberately wrong variants of the definition
that follows them, one plausible mistake each; the `mutants` of `PROJECT.json`
substitute them to show that every property can fail.

**TwoTierLeased.** One key. `entry[n]` is the `LeaseEntry` in the map of node *n*
(`lastDecision` is kept as its `resetAt`), `lease[n][s]` an L2 call of the node (an
awaited "demand" lease or a proactive "refill") and `waiting[n]` the checks suspended
at `await lease`, in order. `granted`, `admitted` and `prompt` are history variables:
units granted by L2 per window, units admitted, and of those the ones whose request
arrived in the same window. `check()` is split at its `await`: `Check` runs to its
return or to the await, `Resume` is one turn of the `for(;;)` loop after it. A lease goes
through `L2Apply` (the atomic decision in the store), `LeaseSettles` (the `.then`:
credit, wake the waiters), `PendingCleared` (the `.finally`, a later microtask: a check
that resumes in between awaits the settled lease again) or, after `L2Fail`,
`LeaseRejects`. `RefillSettles` is all callbacks of a refill. `Quiet` keeps new calls and
the clock out while microtasks are ready, as the event loop does. `Evict` is what the
idle timer and the `maxKeys` bound do; `Reset` and `L2Reset` are the two halves of
`reset()`. Lease sizes are chosen from `BatchSizes` at every refill, so the learner of
`sizing.ts` is covered whatever it computes.

**CachedDeny.** `kept` is the Map of denials in insertion order, `used` L2's row per
key. `Check` answers from the cache or asks; `Apply` is L2's decision, at its own time
or the caller's (`serverTime`); `Denied` caches the answer with the time read *before*
the await; `ResetBegins` and `ResetLands` are the two halves of `reset()`.

**ConcurrencyFleet.** `reg` is the coordinator's registry, `guard[n]` the variables
closed over by `distributedAdaptiveConcurrency()`, `beats[n]` the heartbeats under way.
`Beat` samples the report and takes a sequence number, `Deliver` runs
`applyHeartbeat()` (upsert, eviction of expired peers, aggregate, target, cap, commit:
one operator each), `Reply` and `Outage` are the two ends of `runHeartbeat()`. The
private adaptive limiter is a limit that may move to any value of `Limits` at every
`release()`. `InOrder` decides whether the calls of one node may overtake each other on
the way to the coordinator, `MaxSkew` how far its clock runs ahead.

**AtomicStore, CasStore.** `AtomicStore` says what `Store.apply` promises: a call is
open for a while and at one instant reads, transforms and writes, deciding at some
clock value during the call. It is what the Durable Object store does by construction.
`CasStore` is the loop of the optimistic stores: `Apply` joins the per-key chain of the
process (`#withKeyLock`), `Attempt` reads the clock and sends the get, `Get` runs the
transform, `Put` and `PutRefused` are the outcomes of the conditional write,
`CallFails` a rejected call. `Reset` and `Reclaim` delete the row at any moment. The
transform is an arbitrary operator `Outcome`. `UniqueStamps` distinguishes the two ways
of versioning: Deno KV never reuses a versionstamp, DynamoDB and D1 start at version 0
whenever a row is inserted. The refinement mapping (`Atomic`) forgets the version, the
attempt and the chain.

**MemoryStore, PostgresStore, RedisStore.** The memory store is synchronous, so an
action is a whole `applySync`: advance the wheel, expire, mark the access, transform,
insert (a freed slot, a new one, or the victim of the CLOCK hand), schedule. Postgres
is one step per statement, each of which may fail, on a connection of a bounded pool;
`reset` and the sweep are single statements without the advisory lock. Redis is one
step per command: EVALSHA with its fallback and the TTL floor, pipelined or not, or
WATCH/GET/EXEC with retries on one's own or a shared connection; `Vanish` is another client's delete
or an expiry, `Flush` a lost script cache. A stored value stands for the number of
applies it has absorbed, so a lost or doubled one shows.

**FederatedWindow.** `entry[p]` is the process's escrow of a key, `l2[g]` the regional
escrow, `l3` the coordinator's row. A check goes through `Begin`/`Call` (with the health
`Probed`), `EscrowLease`/`EscrowAnswers`, and `Await`; a lease through `CoordinatorLease`,
`LeaseAnswers` or `LeaseFails`, `PushToEscrow`, `LeaseBack` or `PushFails`; `Resume` credits it or, when the
window rolled meanwhile, hands it back. `jobs` are the fire-and-forget releases and
reconciles of a roll. `Riders` says whether several checks of one process may wait on
one lease.

**FairEscrow, FederatedFairEscrow.** `pool[p].map` is the tenants Map in its insertion
order with the running counters `aggWeight` and `aggUsed`. `EscrowCheck` is the
synchronous prelude (roll, bootstrap, evict) up to the lease or the decision;
`SharedApply`, `LeaseGranted` and `LeaseRefused` are the lease loop; a check keeps the
entry it resolved although it may have left the map (`Orphaned`). In the federated form
the region asks a pool for a total until the check fits: in one step when the pool is
in the process (`FairCheckSync`, one `LeaseStep` per turn of the loop), with an await per grant when it is in Redis.

**Sketch.** The hash functions are any functions (`hash`), the table has few
cells, so every pattern of collision occurs. `CheckSketch` rolls, estimates, and only then adds;
`Ship`, `MergeAt` are snapshots that arrive late or twice.

**Strategies, Limiter.** Every strategy is an operator from options, stored state, time
and cost to verdict and new state, in exact scaled arithmetic: a fraction is kept, a
ceiling in the code is a ceiling here. Where the Lua form computes differently (the
log's sorted set) it is a strategy of its own. `Limiter` keeps the state of each
dimension with its time to live and, as history, the admissions of each; its plans
are single strategies, composites of two in both modes, and twins that must agree. The
clock may be set back where the strategy claims to stand that.

**AdaptiveGuard, RequestLifecycle.** `guard` is the object of `adaptive.ts` with its
ring of latencies, `lease[h]` the lease of a request. Each adapter is a record of the
choices in which the adapters differ, one definition per exported function
(`expressUnifiedAdmission`, `withAdaptiveConcurrency`, ...); a request is gated, denied,
admitted under an outage, handled, ended by `Finish`, close, stream end, error or
cancellation, in every order the framework allows.

**HeavyHitters.** The closure of `withAnalytics`: cached window, counters, Space-Saving
summaries; `seen` counts the truth.

**UnifiedAdmission, FluidLp, AdmissionBudgets.** A call of `admit()` takes its slot, passes
the bid-price filter, and spends rate and cost one after the other or in the fused
script; `Answered` is the next answer to arrive, `Thrown` a rejected call, with the
rollback of each. `FluidLp` enumerates the dual vertices as the code does, in exact
fractions. `AdmissionBudgets` has one action per operation of each tool; everything in it is
synchronous or one store operation.

**ServiceDoor, CaptureLog, FleetLease.** The clients of the door are not modelled: a
Release or a heartbeat may arrive for any lease ever minted, at any time. The capture's
flush is split at its disk calls, and a failed call is possible at each. A fleet client's
calls share its purse across their awaited refreshes, whose replies may be late or lost.

## 3. The runs

Twelve runs; the two marked † expect TLC to find a violation (section 6). All the others pass.

| Run | Instance | Checks |
|---|---|---|
| `LeasedCarryover` | 2 nodes, 2 requests each, limit 4, batch 2, two windows, failing calls | `TypeOK`, `NodeHoldsAtMostBatch`, `CarryoverBound` |
| `LeasedCoupled` | 2 nodes, refills at low water 1, sizes 1 or 2, two windows | `CoupledBound`, `NodeHoldsTwoLeases` |
| `LeasedChurn` | 1 node, limit 3, costs 1 and 2, refills, eviction, a reset, failing calls; fair | `L2GrantsWithinLimit`, `NothingMinted`, `CallbacksSettle` |
| `LeasedLateRefill` † | 1 node, a refill straddles the boundary | `CoupledBound` |
| `FleetHandoff` | 2 nodes, handoff, demand-proportional; three overlapping, reordered, failing beats each | `InflightCap`, `ReserveCovers` |
| `FleetChurn` | 2 nodes, limits that move between 1 and 3, crash, close, expiry, clock skew of one margin, beats in order | `TypeOK`, `GlobalCap`, `FenceBeforeReclaim` |
| `Stores` | each store alone: 2 processes with 3 calls and 1 retry (`CasStore`); 3 keys in 2 slots, a wheel of 2; 3 transactions on 2 connections; 3 Redis calls with 1 retry, a lost script cache, a foreign delete; fair | `TypeOK`, `NothingLost`, `StoresWellFormed`, `AtomicApply`, `ConflictsAreForeign`, `EvictsOnlyWhenFull`, `EveryApplySettles` |
| `Federation` | 2 processes of a region, limit 2, batch 2, two windows, 3 calls, a reset; plain, with a clock ahead, and with the regional escrow under `regional-only` | `FederationBound`, `EscrowConserved` |
| `FederationRiders` † | the same, checks of one process may wait on one lease | `FederationBound` |
| `FairEscrow` | 2 processes, 2 tenants and 2 regions with weights 1 and 2; 3 keys on a 2×2 sketch; 2 keys and a cache of one denial | `CountersMatchRescan`, `FairCapsHold`, `NoStall`, `ApproximationsSafe`, `UnitsLeaveGuaranteesCovered` |
| `Admission` | 3 admits over five layouts; budgets of 3 tenants; a grid of workloads and splits; 3 leases on 2 slots; 3 meter keys in a cache of 2; a ring of one event and 2 flushes; 2 fleet clients with 3 calls; fair | `SlotsHeldOnce`, `VerdictsAreOwn`, `BudgetsHold`, `AllocationsOptimal`, `CaptureSound`, `DeadlineKept`, `EverythingSettles` |
| `RequestPath` | 16 limiters and composites; all adapters with 2 requests; the guard under both laws; 3 keys in summaries of 2; walks through the calendar; fair | `RateBound`, `RetryIsHonest`, `AnswersHold`, `ReferencesAgree`, `SlotsSettledRight`, `EverySlotComesBack` |

What the passing runs show:

- *Leasing.* Concurrent misses share one lease, so a node never holds more than a
  batch; hence the admissions of a window stay within `Limit + N*(Batch-1)` for
  requests that arrive in it. With `windowCoupled` the number is exactly `Limit`,
  *provided* no lease is decided after the boundary its call straddles (`Straddle = {}`);
  that run still lets the reply of a refill arrive in the next window, which is the case
  the late-grant check in the code is for. A node that refills ahead of need has one
  refill and one awaited lease out at most and holds no more than both on top of the
  credits at which it asks (`NodeHoldsTwoLeases`). Failures, evictions and resets never mint a
  credit, and no callback leaves a check or the refill flag hanging.
- *Fleet.* The grants stay within the limit under every interleaving. With
  acknowledged handoff so do the requests in flight, although guards act on old
  grants and the coordinator on old reports: `ReserveCovers` is the reason.
- *Stores.* Every `apply` of an optimistic store looks atomic, a call loses attempts only
  to other processes or deletes; Postgres overwrites what it read unless a delete took
  that away; Redis consumes exactly once whatever script the server forgot; every
  call is answered, also behind one that threw or with a pool that is used up. The memory
  store's ring, map and wheel agree, and a live key leaves only when all slots are taken.
- *Federation.* When a process has one check waiting at a time, a window admits at most
  the global limit, and no unit is counted twice through rolls, lost pushes, late
  hand-backs and resets, not even with a clock ahead or the regional escrow.
- *Sharing.* The O(1) counters equal the rescan they replace; borrowing never eats a
  guarantee (for costs of 1); the lease loop of a region never gives up while the pool has room. The
  sketch never underestimates, merged or not, and a cached denial is one L2 would repeat.
- *Admission.* A slot is held by exactly one call or lease and goes back once, whatever
  axis denies or throws and however releases, heartbeats and the sweep race; verdicts
  are never mixed between calls; shared budgets add up across resets and rolls; the prices of the
  fluid LP are optimal on the whole grid (some plan within the budgets is worth exactly what
  they cost), the plan it recovers is optimal for two budgets and within the budgets for
  three; no captured decision disappears unaccounted; everything that was started ends.
- *Requests.* No interval admits more than its strategy promises; the wait of a denial
  is the shortest that works; peek says what check would; a forecast names the first moment a unit more is
  available, and one when everything is (not for the sliding window, section 6); a Lua twin decides
  as the TypeScript; dates follow the Gregorian calendar over turns of months, years and
  centuries; every adapter returns every slot once, except that of a Node response whose
  client hung up while `admit` was awaited (section 6), and reports as dropped exactly what was cut.

*Why the bounds are enough.* Two nodes, processes or regions are the least that race; the
third call is the one queued behind its predecessor, or waiting for the second connection. Two request
identities per node are a lease owner and a joiner; two slots are a pending lease and
one more (a refill, or the second lease that must not exist). Two windows give one
boundary; batch 2 is the least that carries credit over it. The budgets are smaller than
what is offered, so denials occur, and larger than a batch, so partial fits occur. Caches,
rings and summaries hold one entry less than there are keys, so each of them evicts; the
sketch has fewer cells than keys need, so all collide in some hash. Two or three heartbeats a node, two of
them in flight, are enough for every reordering of a pair; clocks run just past one
lifetime, window or lap where expiry matters and stand still where it does not
(`FleetHandoff`, `LeasedChurn`). The limiters see up to 4 admissions in 8 ms with periods
of 3 to 5, several windows. A day has 2 ms in the calendar plans and the walks cover 900
days each from 1970-01-01, 1999-12-01, 2099-12-30 and 1899-12-30: two or three turns of the year each, with a leap day or
a century that has none. Counters are capped by the constants named `Max...` and
`...Span`. Request and slot identities are interchangeable in the code and symmetric in
the runs of `MCTwoTierLeased` without liveness. Deadlock is not checked: when the bounds are used up
an idle system has nothing to do.

Bounds that restrict what is claimed rather than what is explored:

- the fleet's caps are stated against the largest local limit; the in-flight cap is not
  claimed across an eviction, nor the fence for reordered heartbeats (section 6);
- `FederationBound` is claimed for one check of a process waiting at a time (`Riders = FALSE`), a coordinator
  that reads its clock under its lock (`LateClock = FALSE`), clocks that do not run ahead, no
  regional escrow, and pushes that fail before taking effect (`PushFaults`, `Landed`); `EscrowConserved` is claimed for all three deployments;
- `EscrowCap` and `FederatedCap` allow for what evictions and resets forgive; with a pool
  in a store the latter is claimed as long as no region was reset;
- `DenialsHonest` is claimed for the cost a denial was given for, and not for a key
  whose count was thrown away in the window;
- `SpendsCovered` claims the limit of a window only when replies arrive in the window
  that granted them, conservation always;
- `AllocationsOptimal` claims that the recovered plan is optimal for two budgets only, and
  `AnswersHold` leaves out the forecast of the sliding window;
- a clock that is set back is tried with GCRA and the leaky bucket while their state is stored; the
  wait of a sliding window is claimed as a lower bound only, as its documentation does.

## 4. Fairness

Only liveness uses it.

- `TwoTierLeased!Fairness`: every L2 call is eventually answered, and every ready
  callback or continuation runs. Client libraries time out their calls, and the event
  loop never drops a ready microtask. Nothing is assumed of arrivals, evictions,
  failures or the clock, so answers do not depend on a window ending.
- `Stores`: weak fairness of the database calls of each `apply` (`PgFairness`,
  `RedisFairness` and the steps of `CasStore`); nothing is assumed of deletes or of
  other processes, and the retry limit alone ends the loops.
- `LifeFairness`: an admission settles, a handler returns, and a stream or a connection
  ends. A handler that never returns keeps its slot in the code too.
- `UnifiedFairness`: a started call ends and a caller releases what it holds.
- `DoorFairness`: time passes while a lease is out and the reclaim timer fires; the
  clients need do nothing.
- `DiskFairness`: a disk call ends, in success or in failure. `FleetFairness`: a reply
  comes or the transport gives up.

## 5. The proofs

All theorems hold for every value of the constants within the named assumptions
`LeasedAssumption`, `FleetAssumption`, `CasAssumption`, `UnifiedAssumption`, `DoorAssumption`,
`BudgetAssumption`, `CaptureAssumption`, `SpenderAssumption`,
`FederationAssumption`, `EscrowAssumption`, `FederatedEscrowAssumption`, `SketchAssumption` and
`DenyAssumption`, which the runs also evaluate,
and the hypotheses each theorem states. A hypothesis is either an option of the code, or
what the code relies on; that a hypothesis of the second kind is necessary was tried
with TLC, and the counterexample is named here or in section 6.

*Sums.* `SumTheorems` proves what the totals rest on: a sum over `1..N` is monotone and
changes with one index by the difference, and the fold the community modules define over a
finite set is the sum of one element and the rest, of a part and what is outside it, and the same
in whatever places an injection puts its terms. The library's induction theorems take
an operator as a parameter, which the provers cannot instantiate, so both inductions are
derived: the one over `1..N` from a least counterexample, the one over finite sets from
the well-foundedness of strict inclusion.

### Two-tier leasing

**TypeCorrect** (`TwoTierLeasedProofs`): `Spec => []TypeOK`. `TypeOK` is inductive. The one
point that is not bookkeeping is that credits are spent only when they suffice, in
`check` and in every resumption, so they stay natural numbers.

**L2Budget**: with `ServerTime`, `Spec => []L2GrantsWithinLimit`, for any fleet,
limit and window. The invariant relates a history to the store's only record, so it
needs a strengthening, `BudgetInv`: the record accounts for every unit of the
*current* window no completed reset has forgiven; windows to come are untouched; past
ones are closed. `L2Apply` is the interesting step, `Tick` needs that windows are
monotone in time. The assumption is necessary: with `ServerTime = FALSE` TLC refutes the
bound.

**HoldsAtMostBatch**: without refills, evictions and resets (`OnDemandOnly`),
`Spec => []NodeHoldsAtMostBatch`. `HoldInv` adds that every call under way is the one
the live entry names in `pending`, which is why a second lease cannot start. The
assumption is again necessary: an eviction forgets `pending`, and with `CanEvict`
TLC finds a node with two leases.

The next four are in `TwoTierBudgetProofs`. Where they add up the calls of a node they
assume `IsFiniteSet(Slots)`: a node has finitely many calls under way.

**NothingIsMinted**: `Spec => []NothingMinted`, with every option, for failed calls, late
callbacks, evictions and resets. `Stock(n)`, what node `n` holds and what is on its way to
it, pays for what it admits: `ServeEffect` takes the cost out of it, `CallbackStock` shows
that callbacks move units within it or lose them, and `L2Apply` adds exactly what it takes from
the budget. The strengthening `TimesKnown` says a call carries a time that has been, so that
a store that decides at its caller's time decides in a window the history counts.

**CarryoverBounded**: `OneUnitOnDemand` (no refills, evictions or resets, costs of 1, the clock
of the store) gives `Spec => []CarryoverBound`. A batch that arrives just after the boundary
would put a whole batch per node on top of the limit; what makes it one unit less is that
the check that leased it was waiting, and spends a unit as a request of the *earlier* window.
The invariant is the sum that says so: admitted in the window, plus what every node may
still spend beside a unit *promised* to such a check (`Spare`), is covered by the grants of
the window and `N * (Batch - 1)`. `PromiseCallback` and `CarryoverResume` show that no step
spends a promised unit on another request. It needs `WaitersInv` (every awaited lease under
way has a check that waits for it, in the queue's order, and no check waits for nothing: there is no lost wake-up) and
`UnitInv` (a node leases with nothing left, and keeps a full batch only until the check it
woke continues).

**CoupledBounded**: `CoupledBetweenCalls` (`windowCoupled`, the clock of the store, no reset,
`Straddle = {}`) gives `Spec => []CoupledBound` for every batch, cost, refill, failure and
eviction. Credits and grants are counted by the end of the window they carry
(`StockNow`). `CleanInv` is the point the code turns on: an entry of a node that checks,
or hears from L2, in a window holds no credits of an earlier one, so that moving
`lastDecision` to the new window never relabels old credits. A late refill is the exception
the code tests for (`RefillCredited`); a lease that is *decided* late is the one it misses, and
`LeasedLateRefill` is that counterexample.

**HoldsTwoLeases**: without evictions and resets, `Spec => []NodeHoldsTwoLeases`, for
any refill mark and cost. `HeldBothInv` adds that the live entry names the awaited lease in
`pending` and marks the refill in `refilling`, and bounds the credits by which of the two are out.

### Concurrency fleet

**FleetTypeCorrect** (`ConcurrencyFleetProofs`): `Spec => []TypeOK`, for every aggregate,
allocation, outage policy and handoff: a share never goes negative and no release drives an
in-flight count below 0. It is inductive together with `RecordInv`:
what is not live is the empty record, a live one has reported one of the limits, and under
handoff its share is within what is set aside for it.

**FleetGlobalCap**: `Spec => []GlobalCap`, with or without handoff: the shares of the live
records never add up to more than the largest limit. The bound is inductive with
`TypeOK` and `RecordInv`: only a fresh heartbeat raises a share, its grant is at most the
limit less what the others are set aside, and that is never less than their shares.

**FencesBeforeReclaim**: with fail-closed, self-fencing, a margin that covers the skew and
heartbeats in order (or one at a time), `Spec => []FenceBeforeReclaim`. `LeaseBacked` relates
the guard's lease end, the reply under way and the record's `expiresAt`. `InOrder` is necessary (section 6).

**HandoffCovers, HandoffCapsInflight**: with acknowledged handoff,
fail-closed, and calls that arrive in order or overlap at most two at a time,
`Spec /\ [][KeepsRecords]_vars` gives `ReserveCovers` and `InflightCap`: the permits the whole fleet
holds never exceed the largest limit. `KeepsRecords` excludes the eviction of a node that runs
(section 6, *Rejoining*). `HandoffInv` says, of every node with a record, that what is set aside
for it covers each generation it may still act on: sequence numbers and generations are
ordered between guard, calls and record (`SeqsOrdered`, `GensOrdered`), the share of
each reply under way and the ceiling of the guard are within the reserve (`SharesCovered`), and so is the load
(`LoadCovered`). `ReservedWithinLimit` adds that what is set aside for the nodes that are not
gone fits the largest limit. An acknowledgement frees a reserve only when the guard is past the
generation it was kept for; that is the step where order matters. With three
reordered calls it fails, and so does the bound (section 6).

### Optimistic stores

**CasTypeCorrect** (`CasStoreProofs`): no call makes more than `maxRetries + 1` attempts,
and a settling call finds itself at the head of the chain. Needs `ChainInv` (a
waiting call is in its chain, a running one is first).

**ForeignConflicts**: `Spec => ConflictsAreForeign`, from `ForeignInv`: whatever
invalidated the version a call has read was done by another process or a delete.

**AtomicRefinement**: if versions are never reused, `Spec => AtomicApply`: for any
number of processes, calls and retries and *every* transform, the optimistic
stores implement `AtomicStore`. Needed: `StampInv` (an unchanged version means an
unchanged item), `TimeInv` (the decision time lies within the call) and `PersistInv`
(a put is sent only for a transform that persists). `Put` maps to `Commit`, a `Get`
that answers to `Decline`, failures and an exhausted loop to `Fail`, deletes to `Forget`, the rest to
stuttering. With `UniqueStamps = FALSE` TLC refutes `NoLostUpdate`, so the hypothesis cannot be dropped.

### Admission and the server around it

The theorems of `AdmissionProofs` are about `MCAdmission!Spec`, the specification of the `Admission` run,
for any number of calls, leases, tenants and clients. `PartsOfSpec` splits it: a step is a step of the
subject's component and leaves the others alone, so each component is proved by itself.

**OwnVerdicts**: `Spec => []VerdictsAreOwn`. `VerdictInv` says of a call at every await what
it knows: `WaitInv` (the axes behind it have allowed, those ahead were not asked, and only the
answer under way is missing from its snapshot), `HeldInv` and `DeniedInv` once it is decided. What
makes it inductive is that a step reads and writes the snapshot of its own call only.

**SlotsSettle**: `Spec => []SlotsHeldOnce`. In the process, `SlotInv` adds to `SlotsConserved` that the
holders are finitely many, so that a step that takes or returns a slot changes their number as it
changes `inflight`, and that a call which has ended holds none; `RestInv` types what is left of the axes
and shows that the sample of the warm-up never fills. Behind the door, `LeaseInv` says that a slot is
taken exactly as long as its admit is under way or its lease stands in the table, and that the table
holds the deadline the client was told. `RemovedKeeps` is the step that matters: a Release and
the sweep remove a lease and return its slot together, so a second Release finds nothing to return.

**DeadlinesStand**: `Spec => DeadlineKept`, from `LeaseInv`: the sweep compares the deadline in the table,
which is the one told last.

**BudgetsStand**: `Spec => []BudgetsHold`, one invariant for each part.
- `ShareOK`: `WithSums` and `WithoutSums` follow the sum over the tenants seen in a window, a domain that grows
  with checks and shrinks with `reset(tenant)`.
- `MeterBooks`: a stored row whose window is on is the local meter's, and a meter whose window is on
  without such a row has served nothing in it (a read rolls the local meter and leaves the row
  stale). `MetersRoll` concludes that both are the same once rolled on to the present.
- `ThrottleInv`: as long as nothing was shed or refused, the requests of the window, and those of both
  windows, are covered by accepts and answers that are out. Both inequalities are needed, for an answer may
  fall in the window after its request (`FadingCounts`). `DivisorIs` shows that the recursion
  behind the exact fractions has a solution, without which nothing could be said of a probability.
- `MeterInv`, for the door's meters: a key used its budget, and at most one debit more, once for every meter built for it
  but the last, of which the cache knows the spend.
- `SpendInv`, for the fleet: every unit a client was granted is spent, lost or in its purse (`BooksInv`), and what was
  granted or is on its way was drained. With prompt replies `ThisWindow` adds that what was spent in
  the current window, what the purses hold good and what is on its way were drained from that window;
  `FleetTickKeeps` shows that a purse goes bad with its window and nothing is carried over.

**CaptureAccounts**: `Spec => []CaptureSound`. `CaptureInv` is the balance of `EventsAccounted`, the type of
every segment, wherever it is filed, and for the timer that its flush is the only one of its kind and the flag stands
for it (`TimerAlone`). Every step moves weight from one place to another: `DrainedWhole` shows that a
batch holds every ring once, whatever order `segments()` takes them in (the sum over the batch is the sum
over the rings along a bijection, `WeightMoved`), `BatchTail` that a write takes the first segment and leaves the
others, `NewFileWeighs` that a file is new because its name is, and `EventWeighs` that an event of a
new scope in a full table evicts exactly the weight it reports. The batches under way belong to their flushes
alone, so the overlap of a caller's flush with the timer's loses nothing.

### Federation

**FederationTypeCorrect** (`FederatedWindowProofs`): `Spec => []TypeOK`, for every deployment, with
the regional escrow, skewed clocks and every fault: no escrow, grant or budget goes negative.

**CoordinatorWithinBudget**: with `LateClock = FALSE`, `Spec => []L3WithinLimit`, a part of
`EscrowConserved`. `RowInv` says that the coordinator's row accounts for its window, that later
windows are untouched and earlier ones closed; windows are monotone in time. The hypothesis is the
coordinator reading its clock under the lock of its row. Nothing is assumed of the
processes: late, lost and repeated reconciles are credited once, to the active window only.

**FederationHolds**: `OneByOne` gives `Spec => []FederationBound`, for any finite number of
processes and checks. `PlainInv` is the argument, for processes without L2 whose clocks do not run
ahead: what was admitted in the current window for requests that arrived in it, plus what
every entry holds of it (`InHand`), plus what settled or granted leases will credit (`UnderWay`), is
within what the coordinator granted in it; and what is handed back is of a window that is over,
so nothing of the current window is ever granted twice. `GoesOn` states what a check does when it
goes on after an await, and `LoopGoesOn` shows it for both ways through the loop;
`ResumeGoesOn` is the step the code turns on: a grant whose window has rolled is handed back,
another moves from under way into the hand. Both parts of `OneByOne` are necessary: a shared
lease is credited once for each waiting check (`FederationRiders`), and a lease decided by a
clock read before the lock can set the row back (section 6,
*Late clock*).

**EscrowsConserved**: `OneForOne` gives `Spec => []EscrowConserved`, for every deployment: with or without
the regional escrow, clocks ahead, either outage mode. `PlaceInv` names the five places a unit can be
in (the escrows of processes and of regions, leases, jobs, answers of the regional escrow) and says that they and what
was admitted add up to at most what the coordinator has out; `Solo` adds that a waiting check has a lease
of its own. Every action moves a term from one sum to another: `OnwardPlaces` for a check that goes
on, from its entry, its answer and its settled lease (`Freed`) to its entry, what it admits and the jobs it
leaves; `LeasePlaces` for a lease, between the coordinator, itself and the escrow of its region;
`JobPlaces` for a job. Where a step loses units (a failed lease, a refill that comes too late, an expired escrow, a
lost job) the sum only falls. `OneForOne` is `OneByOne` and that a push to L2 that rejects has had no
effect; where it had one, the region and the process hold the same grant (section 6).

### Fair sharing

`FairSharingProofs`, about the fair escrow of a region, the one over regions, the sketch and the cache of
denials, for any number of tenants, processes and regions, any weights, costs and caps on the map and on the lease loop. The
components are proved on their own (`EscrowSpec`, `FairSpec`); a behaviour of the run is a behaviour of each.

**CountersAreRescans**: `Spec => []CountersMatchRescan`. `EscrowInv` holds `Sound` of every process:
the order of the map has no tenant twice, `aggWeight` is the sum over it, and `aggUsed` is that
of the uses, or with an L2 at least that, for a check that resumed with an entry that had left the
map books on `aggUsed` alone. `Outcome` is what the decision of a check leaves, whichever action made it.

**RegionCapHolds**: `Spec => []EscrowCap`, from the two ledgers of `EscrowInv`. Without an L2
(`PlainLedger`) what a window admitted is on the books of the processes still in it, or was
forgiven. With one (`LeaseLedger`) no unit is admitted, free in a process, or granted and not yet
credited, that was not leased; it holds over all windows together, since a lease answered after a
roll is credited to the new one.

**UnitsNeverUncover**: `Spec => UnitsLeaveGuaranteesCovered`. What `decide()` admits of one unit
is within the asker's own guarantee, which the reserve of the others leaves alone, or
within the surplus, which is what the reserve does not need.

**PoolNeverOvercommits, FederationCapHolds, BothCapsHold**: `FairSpec` gives `[]PoolWithinLimit` and
`[]FederatedCap`, and the run's `Spec` the whole of `FairCapsHold`. `FairInv` says that no budget is
spent that the pool does not back (`Backed`): what a region admitted in the
current window is within its budget and the budget within its grant, which grows as long as the
window lasts (`Grew`). An answer under way may be older than the
pool, but never larger than the grant; and a check whose region has rolled meanwhile adds nothing
to what the new window holds (`TurnOK`). The lease loop keeps the same facts at
every turn (`LeaseStepKeeps`, by induction over the turns), so its cap does not matter. A window has answered
what is on the books of its regions and what resets pardoned (`FairLedger`), and when it ends the
sum of the grants bounds it (`UsesBounded`). `Backed` and the ledger are claimed only where
`FederatedCap` is (`Careful`): with a pool in a store, a grant or release that survives a
`reset()` breaks them (section 6), the pool's own bound not.

**ApproximationsHold**: `SketchLimit <= MaxCell => (Spec => []ApproximationsSafe)`; the code accepts a
limit past the counters' ceiling, and with one the sketch would over-admit (section 6).
`SketchInv` says that every counter of a key is at least what the key was admitted (`Above`): an
update adds to all of them or lifts all of them to the estimate plus the count, so collisions only
add. A peer's table, and every snapshot on its way, is counter for counter the sketch of its stream
up to the ceiling (`Sees`); saturating twice loses no more than saturating once, so a merge, late or
repeated, keeps that. `DenyInv` says of every kept denial *and of every denial on its way back* that
L2 would repeat it (`Repeats`): its window is not over, and in that window the count of the key only
grows, or was thrown away and the key is in `unmade` (`StillRepeats`); with the next window every
denial has run out (`DenyTickKeeps`). The wait counts from the time the check read before it asked:
that is why a late answer is as good as a prompt one (`ApplyKeeps`).

*Model-checked only*: all liveness and `ENABLED`, which the prover does not handle; what
recursive definitions compute (`FluidLp`, `NoLostUpdate`, the summaries and histories), which
would need induction over data; the modules with `RECURSIVE` operators (`Strategies` and
what extends it); and the invariants of the modules named in section 8, for now.

## 6. Where code and documentation disagree

Two runs show a violation.

| Run | What happens |
|---|---|
| `LeasedLateRefill` | `windowCoupled` is documented to bound a window at exactly `Limit`. A refill sent before the boundary and decided after it moves `lastDecision` to the new window while the entry still holds credits of the old one; the discard at the entry of `check()` no longer recognises them. With `Straddle = {"demand"}` an awaited lease does the same: its `.then` has no late-grant check. |
| `FederationRiders` | `window-coupled.ts` is documented to have no overshoot. Every check that waits on a coalesced lease credits its grant, so one grant is spent once per waiter. |

Further disagreements, reached by changing a constant of a run. They are not runs of
their own: each concerns an option, a store or a fault outside what the run claims.

- *Caller's time* (`ServerTime = FALSE` in `LeasedCarryover`): `FAILURE-MODES.md:67-69` bounds the
  overshoot for any L2 trouble. With a store that decides at the caller's `now`
  (`fixed-window.ts:99`), a delayed call of the old window takes the newer record for a
  stale one and overwrites it: the new window's budget starts again.
- *Reordered heartbeats* (`InOrder = FALSE` in `FleetChurn`): `distributed.ts:108-110` has
  a node fence itself strictly before the reclaim. `heartbeat-core.ts:124` stores the
  `expiresAt` of the heartbeat that arrives last; an overtaken one shortens the lease the
  guard relies on, although `distributed.ts:471-472` has the coordinator reclaim "against this
  exact value". With handoff too (`Handoff = TRUE`, `InOrder = FALSE`, `MaxInFlight = 2`,
  `LeaseTtl = 4`, `MaxTime = 5`, `Limits = {2}`), and `FAILURE-MODES.md:362-366` expects no such gap.
- *Overtaken acknowledgements* (`InOrder = FALSE`, `MaxInFlight = 3`, `MaxBeats = 4`,
  `Limits = {2}` in `FleetHandoff`): a heartbeat that was overtaken is answered with the newest
  generation under its own old number (`heartbeat-core.ts:174-175`). The guard acknowledges it;
  then a reply with a later number and an older generation passes the check of `distributed.ts:499`, its share
  takes effect, and `InflightCap` fails, where `distributed.ts:312-314` and
  `docs/design/06-concurrency.md:85` call the bound hard and instantaneous.
- *Rejoining* (an eviction in `FleetHandoff`): `redis-concurrency-coordinator.ts:275-277`
  calls the handoff a hard bound. After an eviction `committedGen` restarts at 0
  (`heartbeat-core.ts:173`) while the guard reports the generation of its former record, which
  then counts as an acknowledgement of a grant it has not seen.
- *Reused versions* (`UniqueStamps = FALSE` in `Stores`): `d1.ts:93-96` has concurrent
  increments land exactly. A row that is reclaimed and inserted again between a read and
  its write has version 0 again (`d1.ts:174`), and the stale write passes.
- *Late clock* (`LateClock = TRUE` in `Federation`; `FederationBound` fails): the Postgres coordinator
  reads its clock (`postgres-coordinator.ts:197`) before the upsert that waits for the row's lock, and rolls
  the row whenever the windows *differ* (line 211). A lease that waited for the lock over a
  boundary sets the row back to its own window, and the next lease opens the current window
  with a full budget again, where `research/postgres-coordinator/DESIGN.md:163-166` has the loser of a
  race grant the residue, as with Redis, whose script reads `TIME` itself.
- *Holding*: with `lowWater > 0` a refill and an awaited lease credited together exceed the
  `batch + lowWater - 1` of `docs/FORMAL-MODEL.md`. `NodeHoldsTwoLeases` states the bound the code keeps.

Observations made while modelling:

- *Clocks.* A fixed window whose clock is set back starts the budget of the earlier
  window anew, though `docs/design/01-core-model.md:174-176` and `core/clock.ts:37` expect
  no harm. GCRA and the stored token budget over-admit when their state expired before
  the clock was set back. A federated process whose clock is ahead of the coordinator's
  breaks the bound, though `postgres-coordinator.ts:86-87` calls its clock irrelevant.
  The Postgres store, too, reads the clock before it has the lock, so decisions may be out of order in time.
- *Strategies.* The sliding window keeps its limit over as many consecutive sub-buckets as a window
  has, not over every trailing interval. Its forecast names the next sub-bucket boundary
  (`sliding-window.ts:245`) where `types.ts:88` has "Epoch-ms when capacity next increases by
  at least one unit": a unit may be free before that, or none more at it. The log's script names members `now-rank`, which
  can collide after the clock was set back.
- *Stores.* A `reset` of Postgres between the select and the upsert of an `apply` is
  undone by the upsert. A key the wheel files behind its hand lingers up to a lap.
- *Cached denials.* A denial for a dear request also blocks cheaper ones; a check under
  way during `reset` caches its denial again; with a store that decides at the caller's
  time a straggler of an earlier window replaces the row, and the denial outlives L2's count.
- *Fair escrow.* An eviction at `maxKeys` frees the units the tenant had used in the
  single-region form (not in the federated one). A lease answered after a roll is credited to the new window.
  Entries that left the map during a lease make `aggUsed` differ from a rescan. Borrowing
  ignores the asker's own unused guarantee for costs above 1. With the asynchronous pool, a grant or a
  release under way survives a region's `reset()`.
- *Federation.* A refill of the regional escrow that took effect followed by a rejected
  lease-back leaves the units in both places (excluded by `Landed = {FALSE}`).
- *Lease spender.* A late reply, or a partial grant across a roll, couples leftovers of
  one window to the end of another, so "exactly the limit" (`lease-spender.ts:20-24`) needs
  replies that arrive in their window.
- *Admission.* The slot of a denied or failed `admit` is released like a served one
  (`unified.ts:633, 648, 659, 670`), so its short latency enters the guard's baseline, which
  `research/bigger-bets/unified/DESIGN.md:472-475` means to avoid. When rate denies, the sequential form stops and
  the fused script still spends cost, so the two are not identical as `DESIGN.md:614-621` and
  `1031` have it. `adaptiveThrottle` counts
  requests without an answer, and those it shed itself, as refused.
- *Adaptive guard.* A latency of 0 ms makes the baseline 0. A probe counts leases from before it as clean
  samples if they were taken with few in flight (`adaptive.ts:265-267`), and never
  ends when every request is dropped.
- *Adapters.* The Node adapters listen for `finish` and `close` only after the awaited
  `admit`. For a client that hangs up before, both events are missed and nothing follows on
  a connection that is gone: the slot is kept for ever, where `lifecycle.ts:3-6` has release
  exactly once. `EverySlotComesBack` excludes that request.
  In the stream adapters the wrapping `new Response(...)` lies outside the `try`.
  Cancelling the wrapped stream does not cancel its source.
- *Service.* A heartbeat renews a lease that has expired and not been swept. The capture
  counts neither the events evicted with their scope nor those of a failed flush, though
  `recorder.ts:8-9` has every drop counted; and a ring that waited longer than the
  retention is purged with its first flush, which `flush.ts:38-39` excludes.
- *Sketch.* A limit above 2^32 - 1 would over-admit once a counter is saturated.

## 7. What is not modelled

`PROJECT.json` lists every component with its status.

- Lease sizing and the reservation estimators of `admission/index.ts`: floating-point
  learners that advise. `TwoTierLeased` lets a lease have any admissible size.
- The Gradient2 law moves the limit by a square root; `AdaptiveGuard` allows every clamped
  value on the side the gradient points to.
- The probability of the sketch's error: the hash functions are arbitrary.
- Daylight-saving time of `quota` (`Intl`); a fixed offset is modelled.
- Workers KV (documented as not atomic); the static partition (nothing is shared).
- D1's memoised schema; authentication, protobuf mapping and shutdown of the service;
  redaction and encryption of the capture.
- Headers, security helpers, observability, configuration, policy files, CLI, test kit,
  replay, monitor and service wiring: parsing, rendering and I/O.

- Details of modelled operations that no property depends on. `Granted` and `GrantArrives` of `FederatedFairEscrow` compare an
  answer with the current budget, the code with the one read ahead of the await
  (`federated-weighted-fair-escrow.ts:554-556`; they differ after a `reset()` in between only). A
  rejected `pool.connect()` (`postgres/store.ts:157`) holds nothing. `UnifiedAdmission`'s `Bid` has no
  term for the third axis (`unified.ts:590-593`), no cap on the types it observes and no `catch` around
  the refinement (540-545), and `admitSync` does not throw (731-734). `FleetLease` has no grant of
  zero capacity, which `LeaseSpender` throws on (`lease-spender.ts:207-212`), and only coupled
  windows (the default, line 107).
  `answer` in `ServiceDoor` records what a caller was told and is read by no property.

Within the modelled components, wording, headers and hooks are left out. One key stands
for all where keys share nothing but memory.

## 8. The plan

The model is as broad as planned: every component with state of its own that a fleet or
several calls share has a module. The two-tier limiter, the concurrency fleet, the
optimistic stores, the federation's bound and the conservation of its escrows, the caps of the fair
escrows, the sketch, the cache of denials, unified admission, the shared budgets, the service door, the
capture and the leases of a fleet's clients are proved. What is left are proofs about the stores:

`RingMatchesMap` of `MemoryStore`, `OverwritesWhatItRead` of `PostgresStore` and `ConsumesOnce` of
`RedisStore`, the parts of `NothingLost` and `StoresWellFormed` that no recursion is in.
