-------------------------- MODULE ConcurrencyFleet --------------------------
(***************************************************************************)
(* distributedAdaptiveConcurrency() (src/src/concurrency/distributed.ts)   *)
(* on every node of a fleet, and the coordinator they share: applyHeartbeat*)
(* (heartbeat-core.ts), which the in-process, Redis and Postgres           *)
(* coordinators run atomically on the records of one key.                  *)
(*                                                                         *)
(* A heartbeat is a call: its report is sampled when it is issued, the     *)
(* coordinator decides when the call reaches it, and the guard applies the *)
(* grant when the reply lands.  Calls of one node overlap, may be          *)
(* reordered, and may fail before or after they took effect.               *)
(***************************************************************************)
EXTENDS Integers, FiniteSets, Sums

CONSTANTS
    N,            \* the nodes are 1..N, in the order of their nodeId
    Limits,       \* values the private limiter's limit (lLocal) may take
    MaxLimit,     \* an upper bound of Limits
    Aggregate,    \* "min" or "median"
    Allocation,   \* "equal-split" or "demand-proportional"
    Handoff,      \* acknowledgedHandoff
    FailClosed,   \* onCoordinatorOutage is "fail-closed" (else "local-only")
    SelfFence,    \* selfFence
    LeaseTtl,     \* leaseTtlMs
    FenceMargin,  \* fenceSafetyMargin
    MaxSkew,      \* how far the coordinator's clock may run ahead of a node's
    InOrder,      \* TRUE: the calls of a node reach the coordinator in the order they were issued
    MaxInFlight,  \* bound on the overlapping heartbeats of a node
    CanFail,      \* a call may reject, before or after taking effect
    CanStop,      \* nodes may close() or crash
    DrainsInTime, \* the requests of a fenced node end before its lease does (onFenced aborts them)
    MaxLoad,      \* bound on the requests a node is offered at once
    MaxBeats,     \* bound on the heartbeats a node issues
    MaxTime       \* bound on the clock

ASSUME FleetAssumption ==
    /\ N \in Nat \ {0} /\ MaxLimit \in Nat /\ Limits # {} /\ Limits \subseteq 1..MaxLimit
    /\ Aggregate \in {"min", "median"} /\ Allocation \in {"equal-split", "demand-proportional"}
    /\ {Handoff, FailClosed, SelfFence, InOrder, CanFail, CanStop, DrainsInTime} \subseteq BOOLEAN
    /\ LeaseTtl \in Nat \ {0, 1} /\ FenceMargin \in Nat \ {0} /\ MaxSkew \in Nat
    /\ MaxInFlight \in Nat /\ MaxLoad \in Nat /\ MaxBeats \in Nat /\ MaxTime \in Nat

VARIABLES
    now,      \* the clock of the nodes
    reg,      \* the coordinator's record of each node
    guard,    \* the state of each guard
    beats,    \* the heartbeat calls of each node that are under way
    leaving   \* nodes whose leave() is under way

vars == <<now, reg, guard, beats, leaving>>

Node == 1..N
Smaller(a, b) == IF a <= b THEN a ELSE b
Larger(a, b) == IF a >= b THEN a ELSE b

----------------------------------------------------------------------------
(* State *)

NoRecord == [live |-> FALSE, lLocal |-> 0, inflight |-> 0, expiresAt |-> 0,
             share |-> 0, committedGen |-> 0, maxSeq |-> 0, unackedHigh |-> 0]

\* Cold start: fail-closed admits nothing until the first grant lands.
NewGuard(l) == [share |-> IF FailClosed THEN 0 ELSE l, limit |-> l, inflight |-> 0,
                heartbeatSeq |-> 0, appliedSeq |-> 0, appliedGen |-> 0,
                leaseExpiresAt |-> 0, everLeased |-> FALSE, phase |-> "open"]

RecordType == [live : BOOLEAN, lLocal : Nat, inflight : Nat, expiresAt : Nat,
               share : Nat, committedGen : Nat, maxSeq : Nat, unackedHigh : Nat]
GuardType == [share : Nat, limit : Limits, inflight : Nat, heartbeatSeq : Nat, appliedSeq : Nat,
              appliedGen : Nat, leaseExpiresAt : Nat, everLeased : BOOLEAN,
              phase : {"open", "closed", "down"}]
\* sent: under way to the coordinator; replied: the grant under way; failed: rejects.
BeatType == [seq : Nat, lLocal : Limits, inflight : Nat, expiresAt : Nat, appliedGen : Nat,
             st : {"sent", "replied", "failed"}, share : Nat, gen : Nat]

\* TypeOK: a grant is never negative, also when the global limit has shrunk below what
\* the other nodes hold, and no release() drives the in-flight count below 0.
TypeOK ==
    /\ now \in 0..MaxTime
    /\ reg \in [Node -> RecordType]
    /\ guard \in [Node -> GuardType]
    /\ beats \in [Node -> SUBSET BeatType]
    /\ leaving \subseteq Node

Init ==
    /\ now = 0
    /\ reg = [n \in Node |-> NoRecord]
    /\ guard \in [Node -> {NewGuard(l) : l \in Limits}]
    /\ beats = [n \in Node |-> {}]
    /\ leaving = {}

----------------------------------------------------------------------------
(* The coordinator: applyHeartbeat(state, report, now, opts)               *)

Live(r) == {n \in Node : r[n].live}

\* aggregateOf(): the least local limit, or the lower median of them.
AggregateOf(r) ==
    LET locals == {r[n].lLocal : n \in Live(r)}
        Below(v) == Cardinality({n \in Live(r) : r[n].lLocal < v})
        UpTo(v) == Cardinality({n \in Live(r) : r[n].lLocal <= v})
        k == (Cardinality(Live(r)) - 1) \div 2
    IN  IF Aggregate = "min"
        THEN CHOOSE v \in locals : \A u \in locals : v <= u
        ELSE CHOOSE v \in locals : Below(v) <= k /\ k < UpTo(v)

\* The i-th of m nodes gets its part of b: the remainder goes to the first ones.
Part(b, m, i) == b \div m + IF i < b % m THEN 1 ELSE 0
RankIn(S, n) == Cardinality({m \in S : m < n})

\* targetFor(): a satisfied node aspires to what it uses and one probe slot, the
\* hungry ones split what the satisfied ones release.
Hungry(r) == {n \in Live(r) : r[n].inflight >= r[n].share}
ReleasedBudget(r, lGlobal) ==
    Larger(0, lGlobal - Sum([n \in Node |-> IF n \in Live(r) \ Hungry(r) THEN r[n].inflight + 1 ELSE 0], N))
TargetFor(r, n, lGlobal) ==
    IF Allocation = "equal-split" THEN Part(lGlobal, Cardinality(Live(r)), RankIn(Live(r), n))
    ELSE IF n \notin Hungry(r) THEN r[n].inflight + 1
    ELSE Larger(1, Part(ReleasedBudget(r, lGlobal), Cardinality(Hungry(r)), RankIn(Hungry(r), n)))

\* What the coordinator sets aside for a live node: at least what it reports to use.
ReserveAcked(rec) == Larger(rec.share, rec.inflight)   \* slip: un-acknowledged grants ignored
Reserve(rec) == Larger(IF Handoff THEN rec.unackedHigh ELSE rec.share, rec.inflight)
OtherReserved(r, n) == Sum([m \in Node |-> IF m # n /\ r[m].live THEN Reserve(r[m]) ELSE 0], N)

\* Step 1: upsert the reporting node, carrying its grant forward; a heartbeat that
\* was overtaken (handoff) pulls neither the in-flight count nor maxSeq backward.
Fresh(rec, b) == ~Handoff \/ b.seq > rec.maxSeq
Upsert(rec, b) ==
    [rec EXCEPT !.live = TRUE, !.lLocal = b.lLocal, !.expiresAt = b.expiresAt,
                !.inflight = IF Fresh(rec, b) THEN b.inflight ELSE @,
                !.maxSeq = IF Handoff THEN Larger(@, b.seq) ELSE 0]

\* Step 2: evict the others whose lease has expired.
EvictExpired(r, n, t) ==
    [m \in Node |-> IF m # n /\ r[m].live /\ r[m].expiresAt < t THEN NoRecord ELSE r[m]]

\* Steps 3-5: the grant of node n, capped by what the others hold.
GrantUncapped(r, n) == TargetFor(r, n, AggregateOf(r))   \* slip: the target is not capped
GrantUnfloored(r, n) ==   \* slip: a budget that has shrunk below what the others hold
    LET lGlobal == AggregateOf(r) IN Smaller(TargetFor(r, n, lGlobal), lGlobal - OtherReserved(r, n))
Grant(r, n) ==
    LET lGlobal == AggregateOf(r)
    IN  Larger(0, Smaller(TargetFor(r, n, lGlobal), lGlobal - OtherReserved(r, n)))

\* Step 6: record it; under handoff a value change starts a generation, and the
\* floor drops to the share once the node has applied the current generation.
Committed(rec, share, b) ==
    LET gen == IF share = rec.share THEN rec.committedGen ELSE rec.committedGen + 1
        high == Larger(rec.unackedHigh, share)
    IN  IF ~Handoff THEN [rec EXCEPT !.share = share]
        ELSE [rec EXCEPT !.share = share, !.committedGen = gen,
                         !.unackedHigh = IF b.appliedGen >= gen THEN share ELSE high]

ApplyHeartbeat(r, n, b, t) ==
    LET r1 == EvictExpired([r EXCEPT ![n] = Upsert(@, b)], n, t)
    IN  IF Fresh(r[n], b) THEN [r1 EXCEPT ![n] = Committed(@, Grant(r1, n), b)] ELSE r1

----------------------------------------------------------------------------
(* The guard *)

FencedAtExpiry(g) == SelfFence /\ g.everLeased /\ now > g.leaseExpiresAt   \* slip: no margin
Fenced(g) == SelfFence /\ g.everLeased /\ now >= g.leaseExpiresAt - FenceMargin
Ceiling(g) == IF Fenced(g) THEN 0 ELSE Smaller(g.share, g.limit)

Acquire(n) ==
    /\ guard[n].phase = "open" /\ guard[n].inflight < MaxLoad
    /\ guard[n].inflight < Ceiling(guard[n])
    /\ guard' = [guard EXCEPT ![n].inflight = @ + 1]
    /\ UNCHANGED <<now, reg, beats, leaving>>

\* release(): the private limiter may move its limit with every sample it takes.
Release(n) ==
    /\ guard[n].inflight > 0
    /\ \E l \in Limits : guard' = [guard EXCEPT ![n].inflight = @ - 1, ![n].limit = l]
    /\ UNCHANGED <<now, reg, beats, leaving>>

\* runHeartbeat() up to its await: timer, heartbeat() or eager beat.  The report is
\* sampled here.  close() stops the timers, but heartbeat() does not look at `closed`.
Beat(n) ==
    LET g == guard[n]
        seq == g.heartbeatSeq + 1
    IN  /\ g.phase # "down" /\ g.heartbeatSeq < MaxBeats /\ Cardinality(beats[n]) < MaxInFlight
        /\ guard' = [guard EXCEPT ![n].heartbeatSeq = seq]
        /\ beats' = [beats EXCEPT ![n] = @ \cup
              {[seq |-> seq, lLocal |-> g.limit, inflight |-> g.inflight, expiresAt |-> now + LeaseTtl,
                appliedGen |-> g.appliedGen, st |-> "sent", share |-> 0, gen |-> 0]}]
        /\ UNCHANGED <<now, reg, leaving>>

\* coordinator.heartbeat(report) takes effect.
Deliver(n, b) ==
    /\ b.st = "sent"
    /\ InOrder => \A c \in beats[n] : c.st = "sent" => b.seq <= c.seq
    /\ \E d \in 0..MaxSkew : reg' = ApplyHeartbeat(reg, n, b, now + d)
    /\ beats' = [beats EXCEPT ![n] = (@ \ {b}) \cup
          {[b EXCEPT !.st = "replied", !.share = reg'[n].share, !.gen = reg'[n].committedGen]}]
    /\ UNCHANGED <<now, guard, leaving>>

LoseCall(n, b) ==
    /\ CanFail /\ b.st \in {"sent", "replied"}
    /\ beats' = [beats EXCEPT ![n] = (@ \ {b}) \cup {[b EXCEPT !.st = "failed"]}]
    /\ UNCHANGED <<now, reg, guard, leaving>>

\* The reply lands: the lease is renewed, and the grant applied unless a later
\* heartbeat was answered before.
ApplyAny(g, b) == TRUE   \* slip: late replies are applied
NotOvertaken(g, b) == b.seq >= g.appliedSeq

Reply(n, b) ==
    LET renewed == [guard[n] EXCEPT !.leaseExpiresAt = b.expiresAt, !.everLeased = TRUE]
        applied == [renewed EXCEPT !.appliedSeq = b.seq, !.share = b.share,
                                   !.appliedGen = IF Handoff THEN b.gen ELSE @]
    IN  /\ b.st = "replied"
        /\ guard' = [guard EXCEPT ![n] = IF NotOvertaken(@, b) THEN applied ELSE renewed]
        /\ beats' = [beats EXCEPT ![n] = @ \ {b}]
        /\ UNCHANGED <<now, reg, leaving>>

\* The call rejects: the outage policy, unless a later heartbeat was answered before.
Outage(n, b) ==
    LET g == guard[n] IN
    /\ b.st = "failed"
    /\ guard' = [guard EXCEPT ![n] =
          IF NotOvertaken(g, b)
          THEN [g EXCEPT !.appliedSeq = b.seq, !.share = IF FailClosed THEN 0 ELSE g.limit]
          ELSE g]
    /\ beats' = [beats EXCEPT ![n] = @ \ {b}]
    /\ UNCHANGED <<now, reg, leaving>>

\* close(): no more acquires or timers; leave() is best effort.
Close(n) ==
    /\ CanStop /\ guard[n].phase = "open"
    /\ guard' = [guard EXCEPT ![n].phase = "closed"]
    /\ leaving' = leaving \cup {n}
    /\ UNCHANGED <<now, reg, beats>>

LeaveTakesEffect(n) ==
    /\ n \in leaving
    /\ reg' = [reg EXCEPT ![n] = NoRecord]
    /\ leaving' = leaving \ {n}
    /\ UNCHANGED <<now, guard, beats>>

LeaveFails(n) ==
    /\ CanFail /\ n \in leaving
    /\ leaving' = leaving \ {n}
    /\ UNCHANGED <<now, reg, guard, beats>>

\* The process dies: its requests with it; what it had sent may still arrive.
Crash(n) ==
    /\ CanStop /\ guard[n].phase # "down"
    /\ guard' = [guard EXCEPT ![n].phase = "down", ![n].inflight = 0]
    /\ beats' = [beats EXCEPT ![n] = {b \in @ : b.st = "sent"}]
    /\ UNCHANGED <<now, reg, leaving>>

Tick ==
    /\ now < MaxTime
    /\ DrainsInTime =>
          \A n \in Node : Fenced(guard[n]) /\ guard[n].inflight > 0
                             => now + 1 + MaxSkew <= guard[n].leaseExpiresAt
    /\ now' = now + 1
    /\ UNCHANGED <<reg, guard, beats, leaving>>

Next ==
    \/ \E n \in Node : Acquire(n) \/ Release(n) \/ Beat(n) \/ Close(n) \/ Crash(n)
                         \/ LeaveTakesEffect(n) \/ LeaveFails(n)
    \/ \E n \in Node : \E b \in beats[n] :
          Deliver(n, b) \/ LoseCall(n, b) \/ Reply(n, b) \/ Outage(n, b)
    \/ Tick

Spec == Init /\ [][Next]_vars

----------------------------------------------------------------------------
(* Properties *)

Inflight == Sum([n \in Node |-> guard[n].inflight], N)
GrantedShares == Sum([n \in Node |-> IF reg[n].live THEN reg[n].share ELSE 0], N)
Admitting(n) == guard[n].phase = "open" /\ Ceiling(guard[n]) > 0

\* GlobalCap (docs/FAILURE-MODES.md): under any interleaving of heartbeats the shares
\* of the live records never exceed the global limit, while the local limits are stable.
GlobalCap == GrantedShares <= MaxLimit

\* InflightCap: under acknowledged handoff "a hard instantaneous bound" on the requests
\* in flight in the whole fleet, in spite of late replies and stale reports.
InflightCap == Inflight <= MaxLimit

\* What makes it hold: whatever a guard may run or admit is set aside for it.
ReserveCovers ==
    \A n \in Node : guard[n].phase = "open" =>
        Larger(Ceiling(guard[n]), guard[n].inflight) <= Reserve(reg[n])

\* Self-fencing: a node stops admitting before the coordinator reclaims its budget, so
\* a node that admits has a record at the coordinator.
FenceBeforeReclaim == \A n \in Node : Admitting(n) => reg[n].live
=============================================================================
