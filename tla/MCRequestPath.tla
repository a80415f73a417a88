---------------------------- MODULE MCRequestPath ----------------------------
(* What happens to a request in one process, one part at a time: `part` is   *)
(* the limiter's check, the adapters around a request, the concurrency guard *)
(* under a bare caller, or the tallies.  The others stay as created.         *)
EXTENDS MCLimiter, RequestLifecycle, HeavyHitters

VARIABLE part
pathVars == <<limiterVars, lifeVars, tallyVars, part>>

PathInit ==
    /\ Init /\ LifeInit /\ TallyInit
    /\ part \in {"limiter", "adapters", "guard", "tallies"}
    /\ part = "limiter" \/ (lplan = One(Gcra, 4, 1) /\ walk.z = 0)
    /\ part = "guard" \/ guard = NewGuard("aimd")
    /\ part = "tallies" \/ tally.wrapper = "limiter"

PathNext ==
    /\ UNCHANGED part
    /\ \/ part = "limiter" /\ Next /\ UNCHANGED <<lifeVars, tallyVars>>
       \/ part = "adapters" /\ LifeNext /\ UNCHANGED <<limiterVars, tallyVars>>
       \/ part = "guard" /\ GuardNext /\ UNCHANGED <<req, limiterVars, tallyVars>>
       \/ part = "tallies" /\ TallyNext /\ UNCHANGED <<limiterVars, lifeVars>>

PathSpec == PathInit /\ [][PathNext]_pathVars /\ LifeFairness

-----------------------------------------------------------------------------

\* What a limiter says beyond the decision is true: peek() answers what check()
\* would, forecast() names the moment the next check passes, and a composite that
\* denies has charged none of its dimensions.
AnswersHold == part = "limiter" => PeekIsExact /\ ForecastHolds /\ AllOrNone

\* What is computed fast is what the plain definition gives: a Lua twin decides as
\* the TypeScript strategy, civil dates follow the calendar day by day, the
\* baseline is the minimum of its window, the summaries bracket the true counts.
ReferencesAgree ==
    CASE part = "limiter" -> TwinsAgree /\ CalendarAgrees
      [] part \in {"adapters", "guard"} -> BaselineIsWindowMin
      [] part = "tallies" -> TalliesHold

\* Each slot is given back once, and with the right report: inflight counts the
\* leases that are held, and only what was cut short is reported as dropped.
\* With it the type invariants of the modules.
SlotsSettledRight ==
    /\ IF part = "limiter" THEN LimiterTypeOK ELSE LifeTypeOK
    /\ part \in {"adapters", "guard"} => InflightIsHeld /\ DropsAreCuts
=============================================================================
