----------------------------- MODULE MCLimiter -----------------------------
(* Small limiters of every strategy and the composites of two; the calendar walks. *)
EXTENDS Limiter

Opt(name, limit, period, burst) ==
    [name |-> name, limit |-> limit, period |-> period, burst |-> burst, buckets |-> 2, weight |-> 1,
     cadence |-> "fixed", anchor |-> 0, offset |-> 0, weekStartsOn |-> 1]
Gcra == Opt("gcra", 2, 3, 2)          \* an emission interval of 1.5 ms
Bucket == Opt("tokenBucket", 2, 3, 2)
Log == Opt("slidingWindowLog", 3, 3, 0)
Quota(cadence) == [Opt("quota", 2, 3, 0) EXCEPT !.cadence = cadence, !.anchor = 1, !.offset = 1]

One(o, from, back) == [mode |-> "all", dims |-> <<o>>, from |-> from, jumps |-> back]
Two(mode, o, p) == [mode |-> mode, dims |-> <<o, p>>, from |-> 4, jumps |-> 0]

MCPlans ==
    {One(Gcra, 4, 1), One(Opt("leakyBucket", 2, 3, 2), 4, 1), One(Bucket, 4, 0),
     One(Opt("fixedWindow", 2, 3, 0), 4, 0),
     One(Opt("slidingWindow", 3, 4, 0), 4, 0), One([Opt("slidingWindow", 2, 5, 0) EXCEPT !.buckets = 3], 4, 0),
     One(Log, 4, 0), One(Quota("fixed"), 4, 0),
     \* the last days of February 1972, the week around a Monday and the turn of a day, at 2 ms a day
     One(Quota("calendar-month"), 2 * DaysFromCivil(1972, 2, 28), 0),
     One(Quota("calendar-week"), 2 * 8, 0), One(Quota("calendar-day"), 4, 0),
     Two("all", Gcra, Bucket), Two("all", Log, [Log EXCEPT !.name = "slidingWindowLogLua"]),
     Two("all", Gcra, [Opt("fixedWindow", 3, 4, 0) EXCEPT !.weight = 2]),
     Two("any", Bucket, Opt("fixedWindow", 2, 4, 0)), Two("all", Log, Opt("slidingWindow", 3, 4, 0))}

Walk(y, m, d) == [n |-> 0, z |-> DaysFromCivil(y, m, d), y |-> y, m |-> m, d |-> d]
MCFirstDays == {[n |-> 0, z |-> 0, y |-> 1970, m |-> 1, d |-> 1], Walk(1999, 12, 1), Walk(2099, 12, 30), Walk(1899, 12, 30)}

Init == LimiterInit /\ (walk.z # 0 => lplan = One(Gcra, 4, 1))
Idle == hist = [d \in Dims |-> <<>>] /\ at = lplan.from /\ lplan = One(Gcra, 4, 1)
Next ==
    \/ walk.n = 0 /\ walk.z = 0 /\ LimiterNext
    \/ Idle /\ NextDay
Spec == Init /\ [][Next]_limiterVars
=============================================================================
