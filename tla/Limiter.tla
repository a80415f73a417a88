------------------------------ MODULE Limiter ------------------------------
(***************************************************************************)
(* rateLimit() and multiRateLimit() over a store that keeps a state until  *)
(* its time to live is over, for one key per dimension, and the calendar   *)
(* the quotas count by.  A plain limiter is a composite of one dimension;  *)
(* a leaky bucket is a limiter whose admissions wait.  A check is one step *)
(* (a synchronous store, or one script).                                   *)
(***************************************************************************)
EXTENDS Strategies, Sums

CONSTANTS
    LimiterPlans,   \* [mode, dims, from, jumps]: how the dimensions combine, their options (with the
                    \* `weight` a dimension multiplies the cost by), the time the clock starts at and
                    \* how often it may be set back
    LimiterCosts,   \* costs of a check
    LimiterSpan,    \* how far the clock may advance
    MaxChecks,      \* bound on the admissions of a dimension
    FirstDays,      \* days the calendar walks start at: [z, y, m, d]
    WalkDays        \* their length

ASSUME LimiterAssumption ==
    /\ LimiterCosts \subseteq Nat \ {0} /\ {LimiterSpan, MaxChecks, WalkDays} \subseteq Nat
    /\ MsPerDay \in Nat \ {0}
    /\ \A p \in LimiterPlans : p.mode \in {"all", "any"} /\ Len(p.dims) > 0 /\ p.jumps \in Nat

VARIABLES
    lplan,     \* the limiter
    at,        \* the clock
    jumps,     \* times it was set back
    st,        \* the stored state of each dimension
    expires,   \* when the store may drop it
    hist,      \* history: admissions of each dimension since its last reset, [at, cost, leaves]
    walk       \* the calendar: a day and its civil date

limiterVars == <<lplan, at, jumps, st, expires, hist, walk>>

Dims == DOMAIN lplan.dims

\* The stored states are what the strategies keep, within their capacity.
LimiterTypeOK ==
    /\ lplan \in LimiterPlans /\ at \in Int /\ jumps \in 0..lplan.jumps
    /\ \A d \in Dims :
          LET o == lplan.dims[d] IN
          \/ st[d] = <<>>
          \/ o.name \in {"gcra", "leakyBucket"} /\ st[d] \in [1..1 -> Nat]
          \/ o.name = "tokenBucket" /\ st[d][1] \in 0..(o.burst * o.period) /\ st[d][2] \in Int
          \/ o.name \in {"fixedWindow", "quota"} /\ st[d][1] \in Int /\ st[d][2] \in 0..o.limit
          \/ o.name = "slidingWindow" /\ st[d][1] \in [0..o.buckets -> Int] /\ st[d][2] \in [0..o.buckets -> 0..o.limit]
          \/ o.name = "slidingWindowLog" /\ st[d] \in Seq(Int) /\ Len(st[d]) <= o.limit
          \/ o.name = "slidingWindowLogLua" /\ Cardinality(st[d][1]) <= o.limit

LimiterInit ==
    /\ lplan \in LimiterPlans
    /\ at = lplan.from /\ jumps = 0
    /\ st = [d \in Dims |-> <<>>] /\ expires = [d \in Dims |-> 0] /\ hist = [d \in Dims |-> <<>>]
    /\ walk \in FirstDays

----------------------------------------------------------------------------
(* Checks *)

Verdicts(now, cost) == [d \in Dims |-> Check(lplan.dims[d], st[d], now, cost * lplan.dims[d].weight)]

\* The dimension that decides: the first with the least value of f.
FirstWith(D, f) == CHOOSE d \in D : \A e \in D : f[d] < f[e] \/ (f[d] = f[e] /\ d <= e)

\* combine(): the binding dimension and the answer.
CombinedSoonest(v) ==   \* slip: of several denials the one that clears first is reported
    LET no == {d \in Dims : ~v[d].ok}
        yes == Dims \ no
        less == [d \in Dims |-> v[d].remaining]
        more == [d \in Dims |-> -v[d].remaining]
        sooner == [d \in Dims |-> v[d].retry]
    IN  CASE lplan.mode = "all" /\ no = {} -> v[FirstWith(Dims, less)]
          [] lplan.mode = "all" /\ no # {} -> v[FirstWith(no, sooner)]
          [] lplan.mode = "any" /\ yes # {} -> v[FirstWith(yes, more)]
          [] lplan.mode = "any" /\ yes = {} -> v[FirstWith(Dims, sooner)]
Combined(v) ==
    LET no == {d \in Dims : ~v[d].ok}
        yes == Dims \ no
        less == [d \in Dims |-> v[d].remaining]
        more == [d \in Dims |-> -v[d].remaining]
        sooner == [d \in Dims |-> v[d].retry]
        later == [d \in Dims |-> -v[d].retry]
    IN  CASE lplan.mode = "all" /\ no = {} -> v[FirstWith(Dims, less)]
          [] lplan.mode = "all" /\ no # {} -> v[FirstWith(no, later)]
          [] lplan.mode = "any" /\ yes # {} -> v[FirstWith(yes, more)]
          [] lplan.mode = "any" /\ yes = {} -> v[FirstWith(Dims, sooner)]

Answer(now, cost) == Combined(Verdicts(now, cost))

\* The dimensions an admitted check is charged to.  The log's script prunes on denials too.
ChargedAllowing(v) == {d \in Dims : v[d].ok}   \* slip: a dimension is charged for a denied check
Charged(v) == IF Combined(v).ok THEN {d \in Dims : v[d].ok} ELSE {}
Prunes(d) == lplan.dims[d].name = "slidingWindowLogLua"

\* With verdicts v the dimensions `in` are charged.
Commit(cost, v, in) ==
    LET entry(d) == [at |-> at, cost |-> cost * lplan.dims[d].weight, leaves |-> at + v[d].wait]
    IN  /\ \A d \in Dims : Len(hist[d]) < MaxChecks
        /\ st' = [d \in Dims |-> IF d \in in \/ Prunes(d) THEN v[d].state ELSE st[d]]
        /\ expires' = [d \in Dims |-> IF d \in in THEN at + v[d].ttl ELSE expires[d]]
        /\ hist' = [d \in Dims |-> IF d \in in THEN Append(hist[d], entry(d)) ELSE hist[d]]
        /\ UNCHANGED <<lplan, at, jumps, walk>>
LimiterCheck(cost) == Commit(cost, Verdicts(at, cost), Charged(Verdicts(at, cost)))

\* The store drops a state whose time to live is over, at once or any time later (not in the
\* plans whose clock is set back: a state dropped before that is missed by every strategy).
Expire(d) ==
    /\ lplan.jumps = 0 /\ st[d] # <<>> /\ at >= expires[d]
    /\ st' = [st EXCEPT ![d] = <<>>]
    /\ UNCHANGED <<lplan, at, jumps, expires, hist, walk>>

\* reset(ctx): every dimension of the request.
LimiterReset ==
    /\ st # [d \in Dims |-> <<>>]
    /\ st' = [d \in Dims |-> <<>>] /\ hist' = [d \in Dims |-> <<>>]
    /\ UNCHANGED <<lplan, at, jumps, expires, walk>>

LimiterTick ==
    /\ at < lplan.from + LimiterSpan
    /\ at' = at + 1
    /\ UNCHANGED <<lplan, jumps, st, expires, hist, walk>>

\* The wall clock is set back.
Jump(back) ==
    /\ jumps < lplan.jumps /\ back <= at
    /\ at' = at - back /\ jumps' = jumps + 1
    /\ UNCHANGED <<lplan, st, expires, hist, walk>>

\* The reference calendar: the next day of the Gregorian calendar.
LeapYear(y) == y % 4 = 0 /\ (y % 100 # 0 \/ y % 400 = 0)
MonthLength(y, m) == IF m = 2 THEN IF LeapYear(y) THEN 29 ELSE 28 ELSE IF m \in {4, 6, 9, 11} THEN 30 ELSE 31
NextDay ==
    LET last == walk.d = MonthLength(walk.y, walk.m)
        year == last /\ walk.m = 12
    IN  /\ walk.n < WalkDays
        /\ walk' = [n |-> walk.n + 1, z |-> walk.z + 1, d |-> IF last THEN 1 ELSE walk.d + 1,
                    m |-> IF year THEN 1 ELSE IF last THEN walk.m + 1 ELSE walk.m,
                    y |-> IF year THEN walk.y + 1 ELSE walk.y]
        /\ UNCHANGED <<lplan, at, jumps, st, expires, hist>>

LimiterNext ==
    \/ \E cost \in LimiterCosts : LimiterCheck(cost)
    \/ \E d \in Dims : Expire(d)
    \/ \E back \in 1..2 : Jump(back)
    \/ LimiterReset \/ LimiterTick

LimiterSpec == LimiterInit /\ [][LimiterNext]_limiterVars

----------------------------------------------------------------------------
(* Properties *)

Units(d, i, j) == Sum([k \in 1..(j - i + 1) |-> hist[d][i + k - 1].cost], j - i + 1)
\* The units of all admissions in the period of the j-th.
InPeriodOf(d, j) ==
    LET o == lplan.dims[d]
        h == hist[d]
    IN  Sum([k \in 1..Len(h) |-> IF Bounds(o, h[k].at) = Bounds(o, h[j].at) THEN h[k].cost ELSE 0], Len(h))

\* What a dimension may admit from its i-th admission to its j-th: a bucket and GCRA the
\* burst and what accrues in between; a leaky bucket no faster than it drains; the log the
\* limit in any trailing window; the sliding window the limit in as many buckets as a window
\* has; a counter the limit in a period.
WithinRate(d, i, j) ==
    LET o == lplan.dims[d]
        h == hist[d]
        total == Units(d, i, j)
    IN  CASE o.name \in {"gcra", "tokenBucket"} -> (total - o.burst) * o.period <= (h[j].at - h[i].at) * o.limit
          [] o.name = "leakyBucket" ->
                /\ h[j].leaves - h[j].at <= o.burst
                /\ (total - h[j].cost) * o.period < (h[j].leaves - h[i].leaves + 1) * o.limit
          [] o.name \in {"slidingWindowLog", "slidingWindowLogLua"} -> h[i].at > h[j].at - o.period => total <= o.limit
          [] o.name = "slidingWindow" -> TickOf(o, h[i].at) > TickOf(o, h[j].at) - o.buckets => total <= o.limit
          [] o.name \in {"fixedWindow", "quota"} -> InPeriodOf(d, j) <= o.limit

\* No sequence of checks, expiries of the stored state and (where the plan allows it) clocks
\* set back admits more than the strategy promises, in any interval.
RateBound == \A d \in Dims : \A i \in DOMAIN hist[d] : \A j \in i..Len(hist[d]) : WithinRate(d, i, j)

\* The most units a strategy has to spend at once.
Capacity(o) == IF o.name \in {"gcra", "tokenBucket"} THEN o.burst ELSE o.limit
Fits(cost) == \A d \in Dims : lplan.dims[d].name = "leakyBucket"
    \/ cost * lplan.dims[d].weight <= Capacity(lplan.dims[d])
Advisory == \E d \in Dims : lplan.dims[d].name = "slidingWindow"

\* retryAfterMs of a denial, of one strategy or of the binding dimension of several, is the
\* first moment at which the same check is admitted if nothing else happens.  (The sliding
\* window documents its value as advisory: it is never too long, but may be too short.)
RetryIsHonest ==
    \A cost \in LimiterCosts :
        LET a == Answer(at, cost)
        IN  (~a.ok /\ Fits(cost)) =>
                /\ Advisory \/ Answer(at + a.retry, cost).ok
                /\ \A k \in 1..(a.retry - 1) : ~Answer(at + k, cost).ok

\* peek() promises exactly what check() grants: the cost it calls remaining and no more, now,
\* and the same delay for one unit.
PeekIsExact ==
    \A d \in Dims : Peeks(lplan.dims[d]) =>
        LET o == lplan.dims[d]
            p == Peek(o, st[d], at)
            one == Check(o, st[d], at, 1)
        IN  /\ \A c \in 1..(p.remaining + 1) : Check(o, st[d], at, c).ok <=> c <= p.remaining
            /\ p.ok = one.ok /\ (~p.ok => p.retry = one.retry)

\* forecast(): everything is available at fullAt, and unless that is now, nextReplenishAt is the
\* first moment at which a unit more is.  The sliding window is exempt from the second part: it
\* names the next boundary of its buckets, and its weight may free a unit before, or none at all then
\* (sliding-window.ts:245 against types.ts:88).
MoreFrom(o, state, f, now) ==
    /\ f.nextReplenishAt > now
    /\ Peek(o, state, f.nextReplenishAt).remaining > f.spendableNow
    /\ \A k \in now..(f.nextReplenishAt - 1) : Peek(o, state, k).remaining <= f.spendableNow
ForecastHolds ==
    \A d \in Dims : Peeks(lplan.dims[d]) =>
        LET o == lplan.dims[d]
            f == Forecast(o, st[d], at, 1)
        IN  /\ f.spendableNow = Peek(o, st[d], at).remaining
            /\ Peek(o, st[d], f.fullAt).remaining = Capacity(o)
            /\ o.name # "slidingWindow" /\ f.spendableNow < Capacity(o) => MoreFrom(o, st[d], f, at)

\* A composite charges all its dimensions or, when it denies, none: every dimension of an
\* "all" limiter has admitted the same checks.
AllOrNone ==
    lplan.mode = "all" =>
        \A d, e \in Dims : Len(hist[d]) = Len(hist[e])

\* Pairs that are documented to decide alike: GCRA and the token bucket of the same rate, the
\* log and its script.
Twins == \E p \in {<<"gcra", "tokenBucket">>, <<"slidingWindowLog", "slidingWindowLogLua">>} :
    Len(lplan.dims) = 2 /\ lplan.dims[1].name = p[1] /\ lplan.dims[2].name = p[2] /\ lplan.jumps = 0
Alike(v, w) == v.ok = w.ok /\ v.remaining = w.remaining /\ v.retry = w.retry
TwinsAgree == Twins => \A cost \in LimiterCosts : Alike(Verdicts(at, cost)[1], Verdicts(at, cost)[2])

\* The civil-date arithmetic agrees with the Gregorian calendar day by day, and the period of
\* a day is the month, week or day it lies in.
CalendarAgrees ==
    LET c == CivilFromDays(walk.z)
        month == PeriodDays("calendar-month", walk.z, 1)
    IN  /\ c.y = walk.y /\ c.m = walk.m /\ c.d = walk.d
        /\ DaysFromCivil(walk.y, walk.m, walk.d) = walk.z
        /\ month.start = walk.z - walk.d + 1 /\ month.reset = month.start + MonthLength(walk.y, walk.m)
        /\ \A s \in 0..6 : LET w == PeriodDays("calendar-week", walk.z, s)
                           IN  walk.z \in w.start..(w.reset - 1) /\ w.reset = w.start + 7 /\ (w.start + 4) % 7 = s
=============================================================================
