----------------------------- MODULE Strategies -----------------------------
(***************************************************************************)
(* The rate-limiting strategies as functions of their options, the stored  *)
(* state, the time and the cost.  Exact arithmetic: a fraction of a        *)
(* millisecond or of a token is kept by scaling, a ceiling is CeilDiv.     *)
(* A state is a sequence, empty when nothing is stored.  Options:          *)
(*   gcra              limit units per `period` ms, `burst`                *)
(*   tokenBucket       `burst` tokens, refilled limit per `period` ms      *)
(*   leakyBucket       drains limit per `period` ms, waits at most `burst` *)
(*   fixedWindow       limit per `period` ms                               *)
(*   slidingWindow     limit per trailing `period` ms in `buckets`         *)
(*   slidingWindowLog  limit per trailing `period` ms, and its Lua form    *)
(*   quota             limit per calendar period or per `period` ms from   *)
(*                     `anchor` (cadence), at a fixed offset               *)
(***************************************************************************)
EXTENDS Integers, Sequences, FiniteSets

CONSTANT MsPerDay   \* MS_PER_DAY

Higher(a, b) == IF a >= b THEN a ELSE b
Lower(a, b) == IF a <= b THEN a ELSE b
CeilDiv(a, b) == -((-a) \div b)

\* A Decision with what the store is told: the state to keep and for how long.
AllowBriefly(left, reset, state, ttl) ==   \* slip: the store may forget the state a moment early
    [ok |-> TRUE, remaining |-> Higher(0, left), resetAt |-> reset, retry |-> 0, state |-> state, ttl |-> ttl - 1, wait |-> 0]
Allow(left, reset, state, ttl) ==
    [ok |-> TRUE, remaining |-> Higher(0, left), resetAt |-> reset, retry |-> 0, state |-> state, ttl |-> Higher(1, ttl), wait |-> 0]
Refuse(left, reset, retry, state) ==
    [ok |-> FALSE, remaining |-> Higher(0, left), resetAt |-> reset, retry |-> retry, state |-> state, ttl |-> 0, wait |-> 0]
Outlook(spendable, next, full) == [spendableNow |-> spendable, nextReplenishAt |-> next, fullAt |-> full]

----------------------------------------------------------------------------
(* GCRA: the theoretical arrival time, scaled by the limit *)

TatEff(o, st, now) == IF st = <<>> THEN now * o.limit ELSE Higher(st[1], now * o.limit)
Tau(o) == o.period * o.burst
GcraLeft(o, tat, now) == (Tau(o) - (tat - now * o.limit)) \div o.period

GcraCheck(o, st, now, cost) ==
    LET tat == TatEff(o, st, now)
        newTat == tat + o.period * cost
        allowAt == newTat - Tau(o)
    IN  IF now * o.limit < allowAt
        THEN Refuse(GcraLeft(o, tat, now), CeilDiv(tat, o.limit), CeilDiv(allowAt - now * o.limit, o.limit), st)
        ELSE Allow(GcraLeft(o, newTat, now), CeilDiv(newTat, o.limit), <<newTat>>, CeilDiv(newTat, o.limit) - now)

GcraPeek(o, st, now) ==
    LET tat == TatEff(o, st, now)
        left == GcraLeft(o, tat, now)
    IN  [ok |-> left >= 1, remaining |-> Higher(0, left), resetAt |-> CeilDiv(tat, o.limit),
         retry |-> IF left >= 1 THEN 0 ELSE CeilDiv(tat + o.period - Tau(o) - now * o.limit, o.limit)]

GcraForecast(o, st, now, cost) ==
    LET tat == TatEff(o, st, now)
        k == Higher(0, GcraLeft(o, tat, now))
        full == tat <= now * o.limit
    IN  Outlook(k \div cost, IF full THEN now ELSE CeilDiv(tat - Tau(o) + (k + 1) * o.period, o.limit),
                IF full THEN now ELSE CeilDiv(tat, o.limit))

----------------------------------------------------------------------------
(* Token bucket: tokens, scaled by the period, and the time they were brought current *)

Tokens(o, st, now) ==
    IF st = <<>> THEN o.burst * o.period
    ELSE Lower(o.burst * o.period, st[1] + Higher(0, now - st[2]) * o.limit)
RefillMs(o, missing) == CeilDiv(missing, o.limit)

TokenCheck(o, st, now, cost) ==
    LET t == Tokens(o, st, now)
        left == t - cost * o.period
        cap == o.burst * o.period
    IN  IF left >= 0
        THEN Allow(left \div o.period, now + RefillMs(o, cap - left), <<left, now>>, RefillMs(o, cap))
        ELSE Refuse(t \div o.period, now + RefillMs(o, cap - t), RefillMs(o, -left), st)

TokenPeek(o, st, now) ==
    LET t == Tokens(o, st, now)
    IN  [ok |-> t >= o.period, remaining |-> t \div o.period, resetAt |-> now + RefillMs(o, o.burst * o.period - t),
         retry |-> IF t >= o.period THEN 0 ELSE RefillMs(o, o.period - t)]

TokenForecastEarly(o, st, now, cost) ==   \* slip: the wait for the next token is rounded down
    LET t == Tokens(o, st, now)
        full == t >= o.burst * o.period
    IN  Outlook(t \div (o.period * cost),
                IF full THEN now ELSE now + ((t \div o.period + 1) * o.period - t) \div o.limit,
                IF full THEN now ELSE now + RefillMs(o, o.burst * o.period - t))
TokenForecast(o, st, now, cost) ==
    LET t == Tokens(o, st, now)
        full == t >= o.burst * o.period
    IN  Outlook(t \div (o.period * cost),
                IF full THEN now ELSE now + RefillMs(o, (t \div o.period + 1) * o.period - t),
                IF full THEN now ELSE now + RefillMs(o, o.burst * o.period - t))

----------------------------------------------------------------------------
(* Leaky bucket: the next departure, scaled like the TAT; an accepted request waits *)

LeakyReserve(o, st, now, cost) ==
    LET departure == TatEff(o, st, now)
        delay == departure - now * o.limit
        next == departure + o.period * cost
    IN  IF delay > o.burst * o.limit
        THEN Refuse(0, 0, CeilDiv(delay - o.burst * o.limit, o.limit), st)
        ELSE [Allow(0, 0, <<next>>, CeilDiv(next, o.limit) - now) EXCEPT !.wait = CeilDiv(delay, o.limit)]

----------------------------------------------------------------------------
(* Counters of a period: fixed window and quota.  State: the period's start and the count *)

FloorTo(x, n) == (x \div n) * n

\* calendar.ts: days since 1970-01-01 and civil dates.
DaysFromCivil(y, m, d) ==
    LET yy == y - IF m <= 2 THEN 1 ELSE 0
        era == (IF yy >= 0 THEN yy ELSE yy - 399) \div 400
        yoe == yy - era * 400
        doy == (153 * (m + IF m > 2 THEN -3 ELSE 9) + 2) \div 5 + d - 1
        doe == yoe * 365 + yoe \div 4 - yoe \div 100 + doy
    IN  era * 146097 + doe - 719468

\* The date in the year that starts in March.
DateOf(y, doy) ==
    LET mp == (5 * doy + 2) \div 153
        m == IF mp < 10 THEN mp + 3 ELSE mp - 9
    IN  [y |-> y + IF m <= 2 THEN 1 ELSE 0, m |-> m, d |-> doy - (153 * mp + 2) \div 5 + 1]
NoCentury(era, doe) ==   \* slip: centuries are leap years
    LET yoe == (doe - doe \div 1460 - doe \div 146096) \div 365
    IN  DateOf(yoe + era * 400, doe - (365 * yoe + yoe \div 4))
InEra(era, doe) ==
    LET yoe == (doe - doe \div 1460 + doe \div 36524 - doe \div 146096) \div 365
    IN  DateOf(yoe + era * 400, doe - (365 * yoe + yoe \div 4 - yoe \div 100))
CivilFromDays(z) ==
    LET zz == z + 719468
        era == (IF zz >= 0 THEN zz ELSE zz - 146096) \div 146097
    IN  InEra(era, zz - era * 146097)

\* calendarPeriod(), in days.
MonthOf(c) ==
    [start |-> DaysFromCivil(c.y, c.m, 1),
     reset |-> DaysFromCivil(IF c.m = 12 THEN c.y + 1 ELSE c.y, IF c.m = 12 THEN 1 ELSE c.m + 1, 1)]
PeriodDays(cadence, day, weekStartsOn) ==
    CASE cadence = "calendar-day" -> [start |-> day, reset |-> day + 1]
      [] cadence = "calendar-week" ->
            LET start == day - ((((day + 4) % 7) - weekStartsOn) % 7) IN [start |-> start, reset |-> start + 7]
      [] cadence = "calendar-month" -> MonthOf(CivilFromDays(day))

InMs(o, days) == [start |-> days.start * MsPerDay - o.offset, reset |-> days.reset * MsPerDay - o.offset]
Bounds(o, now) ==
    IF o.cadence = "fixed"
    THEN LET start == o.anchor + FloorTo(now - o.anchor, o.period) IN [start |-> start, reset |-> start + o.period]
    ELSE InMs(o, PeriodDays(o.cadence, (now + o.offset) \div MsPerDay, o.weekStartsOn))

\* In a period b.
CountedIn(st, b) == IF st # <<>> /\ st[1] = b.start THEN st[2] ELSE 0
CheckIn(o, st, now, cost, b) ==
    LET n == CountedIn(st, b)
    IN  IF n + cost <= o.limit THEN Allow(o.limit - n - cost, b.reset, <<b.start, n + cost>>, b.reset - now)
        ELSE Refuse(o.limit - n, b.reset, b.reset - now, st)
PeekIn(o, st, now, b) ==
    LET n == CountedIn(st, b)
    IN  [ok |-> n + 1 <= o.limit, remaining |-> Higher(0, o.limit - n), resetAt |-> b.reset,
         retry |-> IF n + 1 <= o.limit THEN 0 ELSE b.reset - now]

CounterCheck(o, st, now, cost) == CheckIn(o, st, now, cost, Bounds(o, now))
CounterPeek(o, st, now) == PeekIn(o, st, now, Bounds(o, now))
CounterForecast(o, st, now, cost) ==
    Outlook(CounterPeek(o, st, now).remaining \div cost, Bounds(o, now).reset, Bounds(o, now).reset)

----------------------------------------------------------------------------
(* Sliding window: a ring of buckets + 1 slots, <<tick of each slot, count of each slot>> *)

TickOf(o, now) == (now * o.buckets) \div o.period
Slot(o, tick) == tick % (o.buckets + 1)
GetCount(o, st, tick) ==
    IF st = <<>> \/ tick < 0 THEN 0 ELSE IF st[1][Slot(o, tick)] = tick THEN st[2][Slot(o, tick)] ELSE 0

\* The estimate and the part of it that decays, scaled by the period.
Estimate(o, st, now) ==
    LET c == TickOf(o, now)
        weight == o.period - (now * o.buckets - c * o.period)
        full[j \in 0..o.buckets] == IF j = 0 THEN 0 ELSE full[j - 1] + GetCount(o, st, c - o.buckets + j)
        oldest == GetCount(o, st, c - o.buckets)
    IN  [all |-> full[o.buckets] * o.period + oldest * weight, oldest |-> oldest, decays |-> oldest * weight]

NextTickMs(o, now) == CeilDiv((TickOf(o, now) + 1) * o.period - now * o.buckets, o.buckets)
WindowReset(o, now) == CeilDiv((TickOf(o, now) + 1 + o.buckets) * o.period, o.buckets)
WindowRetry(o, e, over, now) ==
    Higher(1, IF e.oldest > 0 /\ over <= e.decays THEN CeilDiv(over, o.buckets * e.oldest) ELSE NextTickMs(o, now))

BumpedOnTop(o, st, c, cost) ==   \* slip: the count of the slot's older lap is kept
    LET p == Slot(o, c)
        ring == IF st = <<>> THEN << [s \in 0..o.buckets |-> -1], [s \in 0..o.buckets |-> 0] >> ELSE st
    IN  << [ring[1] EXCEPT ![p] = c], [ring[2] EXCEPT ![p] = @ + cost] >>
Bumped(o, st, c, cost) ==
    LET p == Slot(o, c)
        ring == IF st = <<>> THEN << [s \in 0..o.buckets |-> -1], [s \in 0..o.buckets |-> 0] >> ELSE st
    IN  << [ring[1] EXCEPT ![p] = c], [ring[2] EXCEPT ![p] = GetCount(o, st, c) + cost] >>

SlidingCheck(o, st, now, cost) ==
    LET e == Estimate(o, st, now)
        over == e.all + cost * o.period - o.limit * o.period
    IN  IF over <= 0
        THEN Allow((-over) \div o.period, WindowReset(o, now), Bumped(o, st, TickOf(o, now), cost),
                   o.period + CeilDiv(o.period, o.buckets))
        ELSE Refuse((o.limit * o.period - e.all) \div o.period, WindowReset(o, now), WindowRetry(o, e, over, now), st)

SlidingPeekAtLimit(o, st, now) ==   \* slip: a full window still shows as open
    LET e == Estimate(o, st, now)
    IN  [ok |-> e.all <= o.limit * o.period, remaining |-> Higher(0, (o.limit * o.period - e.all) \div o.period),
         resetAt |-> WindowReset(o, now), retry |-> 0]
SlidingPeek(o, st, now) ==
    LET e == Estimate(o, st, now)
        over == e.all + o.period - o.limit * o.period
    IN  [ok |-> over <= 0, remaining |-> Higher(0, (o.limit * o.period - e.all) \div o.period),
         resetAt |-> WindowReset(o, now), retry |-> IF over <= 0 THEN 0 ELSE WindowRetry(o, e, over, now)]

SlidingForecast(o, st, now, cost) ==
    Outlook(SlidingPeek(o, st, now).remaining \div cost, now + NextTickMs(o, now), WindowReset(o, now))

----------------------------------------------------------------------------
(* Sliding window log: the stamps, one per unit.  The Lua form keeps a sorted set of *)
(* members named by the time and the rank they were added at.                         *)

\* The survivors are the suffix after the leading stale stamps.
Live(o, st, now) ==
    LET stale == {i \in 0..Len(st) : \A j \in 1..i : st[j] <= now - o.period}
    IN  SubSeq(st, (CHOOSE i \in stale : \A k \in stale : i >= k) + 1, Len(st))

LogRetry(o, live, now, cost) ==
    IF live = <<>> THEN o.period
    ELSE Higher(1, live[Lower(Len(live), Higher(1, Len(live) + cost - o.limit))] + o.period - now)
LogReset(o, live, now) == (IF live = <<>> THEN now ELSE Head(live)) + o.period

LogCheck(o, st, now, cost) ==
    LET live == Live(o, st, now)
        log == live \o [i \in 1..cost |-> now]
    IN  IF Len(log) <= o.limit THEN Allow(o.limit - Len(log), LogReset(o, log, now), log, o.period)
        ELSE Refuse(o.limit - Len(live), LogReset(o, live, now), LogRetry(o, live, now, cost), st)

LogPeek(o, st, now) ==
    LET live == Live(o, st, now)
        ok == Len(live) + 1 <= o.limit
    IN  [ok |-> ok, remaining |-> Higher(0, o.limit - Len(live)), resetAt |-> LogReset(o, live, now),
         retry |-> IF ok THEN 0 ELSE LogRetry(o, live, now, 1)]

LogForecastFirst(o, st, now, cost) ==   \* slip: full again as soon as the oldest stamp is gone
    LET live == Live(o, st, now)
    IN  Outlook(Higher(0, o.limit - Len(live)) \div cost, LogReset(o, live, now), LogReset(o, live, now))
LogForecast(o, st, now, cost) ==
    LET live == Live(o, st, now)
    IN  Outlook(Higher(0, o.limit - Len(live)) \div cost,
                IF live = <<>> THEN now ELSE Head(live) + o.period,
                IF live = <<>> THEN now ELSE live[Len(live)] + o.period)

\* SLIDING_LOG_LUA.
NamedByTime(now, n, cost) == {<<now, i>> : i \in 1..cost}   \* slip: names repeat within a millisecond
Named(now, n, cost) == {<<now, n + i>> : i \in 1..cost}
LogLuaCheck(o, st, now, cost) ==
    LET kept == IF st = <<>> THEN {} ELSE {x \in st[1] : x[1] > now - o.period}
        n == Cardinality(kept)
        added == kept \cup Named(now, n, cost)
        score(set, k) == (CHOOSE x \in set : Cardinality({z \in set : z[1] < x[1] \/ (z[1] = x[1] /\ z[2] < x[2])}) = k - 1)[1]
        oldest(set) == IF set = {} THEN now ELSE score(set, 1)
    IN  IF n + cost <= o.limit
        THEN Allow(o.limit - n - cost, oldest(added) + o.period, <<added>>, o.period)
        ELSE Refuse(o.limit - n, oldest(kept) + o.period,
                    IF n = 0 THEN o.period
                    ELSE Higher(1, score(kept, Lower(n, Higher(1, n + cost - o.limit))) + o.period - now),
                    IF kept = {} THEN <<>> ELSE <<kept>>)

----------------------------------------------------------------------------
(* The strategy interface *)

Check(o, st, now, cost) ==
    CASE o.name = "gcra" -> GcraCheck(o, st, now, cost)
      [] o.name = "tokenBucket" -> TokenCheck(o, st, now, cost)
      [] o.name = "leakyBucket" -> LeakyReserve(o, st, now, cost)
      [] o.name \in {"fixedWindow", "quota"} -> CounterCheck(o, st, now, cost)
      [] o.name = "slidingWindow" -> SlidingCheck(o, st, now, cost)
      [] o.name = "slidingWindowLog" -> LogCheck(o, st, now, cost)
      [] o.name = "slidingWindowLogLua" -> LogLuaCheck(o, st, now, cost)

Peeks(o) == o.name \notin {"leakyBucket", "slidingWindowLogLua"}
Peek(o, st, now) ==
    CASE o.name = "gcra" -> GcraPeek(o, st, now)
      [] o.name = "tokenBucket" -> TokenPeek(o, st, now)
      [] o.name \in {"fixedWindow", "quota"} -> CounterPeek(o, st, now)
      [] o.name = "slidingWindow" -> SlidingPeek(o, st, now)
      [] o.name = "slidingWindowLog" -> LogPeek(o, st, now)

Forecast(o, st, now, cost) ==
    CASE o.name = "gcra" -> GcraForecast(o, st, now, cost)
      [] o.name = "tokenBucket" -> TokenForecast(o, st, now, cost)
      [] o.name \in {"fixedWindow", "quota"} -> CounterForecast(o, st, now, cost)
      [] o.name = "slidingWindow" -> SlidingForecast(o, st, now, cost)
      [] o.name = "slidingWindowLog" -> LogForecast(o, st, now, cost)
=============================================================================
