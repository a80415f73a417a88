--------------------------- MODULE UnifiedAdmission ---------------------------
(***************************************************************************)
(* unifiedAdmission: one admit() takes a concurrency slot, passes the      *)
(* joint-LP bid-price filter, and then spends rate and cost, either one    *)
(* after the other with an await each or in one fused script.  The axes    *)
(* themselves are reduced to the units they have left (Limiter models how  *)
(* they count); a step of a call ends where the code awaits.               *)
(***************************************************************************)
EXTENDS FluidLp

CONSTANTS
    Admits,        \* the admit() calls
    AdmitCosts,    \* what a call may cost on the cost axis
    AdmitValues,   \* what a call may be worth
    Layouts,       \* the deployments: [conc, rate, cost, fused, policy]
    ConcLimit,     \* guard.limit
    RateUnits,     \* units of the rate axis
    CostUnits,     \* units of the cost axis
    Workload,      \* jointLp.workload: its duals are the prior
    SampleWindow   \* jointLp.adaptive.sampleWindow

\* The options unifiedAdmission() takes: lua-fused comes with the options of both axes.
ASSUME UnifiedAssumption ==
    /\ Layouts \subseteq [conc : BOOLEAN, rate : BOOLEAN, cost : BOOLEAN, fused : BOOLEAN,
                         policy : {"none", "static", "adaptive"}]
    /\ \A d \in Layouts : d.fused => d.rate /\ d.cost
    /\ ConcLimit \in Nat /\ RateUnits \in Nat /\ CostUnits \in Nat
    /\ AdmitCosts \subseteq Nat
    /\ SampleWindow \in Nat \ {0}

VARIABLES
    layout,     \* the deployment
    left,       \* [rate, cost]: units left
    inflight,   \* slots the guard counts as taken
    warm,       \* the warm-up: [active, buf, frozen]
    admit,      \* the calls
    lastSnap    \* what lastDecisions() reports

unifiedVars == <<layout, left, inflight, warm, admit, lastSnap>>

Axes == {"conc", "rate", "cost"}
Answers == {"none", "allow", "deny"}
NoSnap == [x \in Axes |-> "none"]
FreshAdmit == [pc |-> "idle", cost |-> 1, snap |-> NoSnap, heard |-> NoSnap, slot |-> FALSE, lane |-> "none"]
Waiting == {"rate", "rateAnswer", "cost", "costAnswer", "fused", "fusedAnswer"}
Over == {"held", "released", "denied", "threw"}

UnifiedInit ==
    /\ layout \in Layouts
    /\ left = [rate |-> RateUnits, cost |-> CostUnits]
    /\ inflight = 0
    /\ warm = [active |-> Duals(Workload), buf |-> <<>>, frozen |-> layout.policy # "adaptive"]
    /\ admit = [c \in Admits |-> FreshAdmit]
    /\ lastSnap = NoSnap

UnifiedTypeOK ==
    /\ layout \in Layouts
    /\ left \in [rate : 0..RateUnits, cost : 0..CostUnits]
    /\ inflight \in 0..ConcLimit
    /\ warm.frozen \in BOOLEAN /\ Len(warm.buf) < SampleWindow
    /\ admit \in [Admits -> [pc : Waiting \cup Over \cup {"idle"}, cost : AdmitCosts \cup {1},
                             snap : [Axes -> Answers], heard : [Axes -> Answers], slot : BOOLEAN,
                             lane : Axes \cup {"none", "policy"}]]
    /\ lastSnap \in [Axes -> Answers]

----------------------------------------------------------------------------
(* The bid prices *)

Bid(p, cost) == QAdd(p[1], QMul(p[2], Whole(cost)))

\* replaySampleRevenue: what the sample is worth under prices p, in arrival order, within the budgets.
Revenue(buf, p, budget) ==
    LET after[k \in 0..Len(buf)] ==
            IF k = 0 THEN [rate |-> budget[1], cost |-> budget[2], worth |-> 0]
            ELSE LET s == after[k - 1]
                     a == buf[k]
                 IN  IF s.rate >= 1 /\ s.cost >= a.cost /\ QLeq(Bid(p, a.cost), Whole(a.value))
                     THEN [rate |-> s.rate - 1, cost |-> s.cost - a.cost, worth |-> s.worth + a.value]
                     ELSE s
    IN  after[Len(buf)].worth

TotalWeight(lp) == QFloor(QSum([i \in Types(lp) |-> Whole(lp.types[i].weight)]))
\* The mixture seen, as a workload: one type for every (cost, value), weighted by how often it came;
\* the budgets per arrival times the number of arrivals.
Observed(buf) ==
    LET kinds == {buf[k] : k \in DOMAIN buf}
        listed == CHOOSE s \in [1..Cardinality(kinds) -> kinds] : \A i, j \in DOMAIN s : s[i] = s[j] => i = j
        times(a) == Cardinality({k \in DOMAIN buf : buf[k] = a})
    IN  [types |-> [i \in DOMAIN listed |->
                       [use |-> <<1, listed[i].cost>>, value |-> listed[i].value, weight |-> times(listed[i])]],
         budget |-> [b \in 1..2 |-> (Workload.budget[b] * Len(buf)) \div TotalWeight(Workload)]]

\* refineWarmup: when the window is full the prices learned from the sample replace the prior if
\* they would have earned more on it, and stay for good.
Better(buf, budget, learned, prior) ==
    IF Revenue(buf, learned, budget) > Revenue(buf, prior, budget) THEN learned ELSE prior
Refined(w, a) ==
    LET buf == Append(w.buf, a)
    IN  IF w.frozen THEN w
        ELSE IF Len(buf) < SampleWindow THEN [w EXCEPT !.buf = buf]
        ELSE [active |-> Better(buf, Observed(buf).budget, Duals(Observed(buf)), w.active),
              buf |-> <<>>, frozen |-> TRUE]

\* applyPolicyGate, before rate or cost is spent.
Filtered(w, a) == layout.policy # "none" /\ QLess(Whole(a.value), Bid(w.active, a.cost))

----------------------------------------------------------------------------
(* The axes *)

\* What an axis answers to a request for n units, and what it has left then.
AxisAnswer(has, n) == IF has >= n THEN "allow" ELSE "deny"
AxisLeft(has, n) == IF has >= n THEN has - n ELSE has

\* The fused script runs both axes, each writing by its own answer.
FusedLeft(l, cost) == [rate |-> AxisLeft(l.rate, 1), cost |-> AxisLeft(l.cost, cost)]

----------------------------------------------------------------------------
(* Ends of a call *)

\* combineDecisions over the snapshot: an axis that was not asked counts as allowing.
Combined(snap) == \A x \in Axes : snap[x] # "deny"
\* deriveBindingAxis.
Binding(snap) ==
    IF snap["conc"] = "deny" THEN "conc"
    ELSE IF snap["rate"] = "deny" THEN "rate"
    ELSE IF snap["cost"] = "deny" THEN "cost" ELSE "policy"

\* Slip: the snapshot shared by all calls.
SnapShared(c) == lastSnap
\* The call's own snapshot.
SnapOf(c) == admit[c].snap

\* Slip: only a refusal by rate hands it back.
ReturnedOnRate(c) == IF admit[c].slot /\ admit[c].pc \in {"rateAnswer", "fusedAnswer"} THEN inflight - 1 ELSE inflight
\* A refusal hands the slot back: how many the guard counts then.
Returned(c) == IF admit[c].slot THEN inflight - 1 ELSE inflight

Deny(c, snap) ==
    /\ admit' = [admit EXCEPT ![c].pc = "denied", ![c].snap = snap, ![c].slot = FALSE, ![c].lane = Binding(snap)]
    /\ inflight' = Returned(c)
    /\ lastSnap' = snap
Finalize(c, snap) ==
    /\ admit' = [admit EXCEPT ![c].pc = "held", ![c].snap = snap]
    /\ lastSnap' = snap
    /\ UNCHANGED inflight

----------------------------------------------------------------------------
(* One admit() *)

\* The first await after the synchronous part.
FirstWait == IF layout.fused THEN "fused" ELSE IF layout.rate THEN "rate" ELSE IF layout.cost THEN "cost" ELSE "held"

\* startWithConcurrency.
Full == layout.conc /\ inflight >= ConcLimit
ConcSnap == [NoSnap EXCEPT !["conc"] = IF ~layout.conc THEN "none" ELSE IF Full THEN "deny" ELSE "allow"]

\* The synchronous part: the slot, then the bid price, with the prices w.
AdmitAt(c, a, w) ==
    LET snap == ConcSnap
        call == [FreshAdmit EXCEPT !.cost = a.cost, !.snap = snap, !.heard = snap]
    IN  /\ admit[c].pc = "idle"
        /\ IF Full
           THEN /\ admit' = [admit EXCEPT ![c] = [call EXCEPT !.pc = "denied", !.lane = "conc"]]
                /\ lastSnap' = snap
                /\ UNCHANGED <<inflight, warm>>
           ELSE /\ warm' = w
                /\ IF Filtered(w, a)
                   THEN /\ admit' = [admit EXCEPT ![c] = [call EXCEPT !.pc = "denied", !.lane = "policy"]]
                        /\ lastSnap' = snap
                        /\ UNCHANGED inflight
                   ELSE /\ admit' = [admit EXCEPT ![c] = [call EXCEPT !.pc = FirstWait, !.slot = layout.conc]]
                        /\ inflight' = inflight + (IF layout.conc THEN 1 ELSE 0)
                        /\ lastSnap' = IF FirstWait = "held" THEN snap ELSE lastSnap
        /\ UNCHANGED <<layout, left>>
Admit(c, a) == AdmitAt(c, a, Refined(warm, a))

\* admitSync: the same steps without an await between them; the fused backend throws at once.
AdmitSyncAt(c, a, w) ==
    LET stopped == Full \/ Filtered(w, a)
        rate == IF layout.rate /\ ~stopped THEN AxisAnswer(left.rate, 1) ELSE "none"
        cost == IF layout.cost /\ ~stopped /\ rate # "deny" THEN AxisAnswer(left.cost, a.cost) ELSE "none"
        snap == [ConcSnap EXCEPT !["rate"] = rate, !["cost"] = cost]
        admitted == ~stopped /\ Combined(snap)
        call == [FreshAdmit EXCEPT !.cost = a.cost, !.snap = snap, !.heard = snap]
    IN  /\ admit[c].pc = "idle" /\ ~layout.fused
        /\ warm' = IF Full THEN warm ELSE w
        /\ admit' = [admit EXCEPT ![c] =
                        IF admitted THEN [call EXCEPT !.pc = "held", !.slot = layout.conc]
                        ELSE [call EXCEPT !.pc = "denied", !.lane = Binding(snap)]]
        /\ inflight' = inflight + (IF admitted /\ layout.conc THEN 1 ELSE 0)
        /\ left' = [rate |-> IF rate = "none" THEN left.rate ELSE AxisLeft(left.rate, 1),
                     cost |-> IF cost = "none" THEN left.cost ELSE AxisLeft(left.cost, a.cost)]
        /\ lastSnap' = snap
        /\ UNCHANGED layout
AdmitSync(c, a) == AdmitSyncAt(c, a, Refined(warm, a))

\* The store runs the rate check of call c.
RateServed(c) ==
    /\ admit[c].pc = "rate"
    /\ admit' = [admit EXCEPT ![c].pc = "rateAnswer", ![c].heard["rate"] = AxisAnswer(left.rate, 1)]
    /\ left' = [left EXCEPT !.rate = AxisLeft(@, 1)]
    /\ UNCHANGED <<layout, inflight, warm, lastSnap>>

\* The answer of the rate check reaches call c.
RateAnswered(c) ==
    LET snap == [SnapOf(c) EXCEPT !["rate"] = admit[c].heard["rate"]]
    IN  /\ admit[c].pc = "rateAnswer"
        /\ IF ~Combined(snap) THEN Deny(c, snap)
           ELSE IF layout.cost
           THEN /\ admit' = [admit EXCEPT ![c].pc = "cost", ![c].snap = snap]
                /\ UNCHANGED <<inflight, lastSnap>>
           ELSE Finalize(c, snap)
        /\ UNCHANGED <<layout, left, warm>>

CostServed(c) ==
    /\ admit[c].pc = "cost"
    /\ admit' = [admit EXCEPT ![c].pc = "costAnswer", ![c].heard["cost"] = AxisAnswer(left.cost, admit[c].cost)]
    /\ left' = [left EXCEPT !.cost = AxisLeft(@, admit[c].cost)]
    /\ UNCHANGED <<layout, inflight, warm, lastSnap>>

CostAnswered(c) ==
    LET snap == [SnapOf(c) EXCEPT !["cost"] = admit[c].heard["cost"]]
    IN  /\ admit[c].pc = "costAnswer"
        /\ IF Combined(snap) THEN Finalize(c, snap) ELSE Deny(c, snap)
        /\ UNCHANGED <<layout, left, warm>>

FusedServed(c) ==
    /\ admit[c].pc = "fused"
    /\ admit' = [admit EXCEPT ![c].pc = "fusedAnswer", ![c].heard["rate"] = AxisAnswer(left.rate, 1),
                              ![c].heard["cost"] = AxisAnswer(left.cost, admit[c].cost)]
    /\ left' = FusedLeft(left, admit[c].cost)
    /\ UNCHANGED <<layout, inflight, warm, lastSnap>>

FusedAnswered(c) ==
    LET snap == [SnapOf(c) EXCEPT !["rate"] = admit[c].heard["rate"], !["cost"] = admit[c].heard["cost"]]
    IN  /\ admit[c].pc = "fusedAnswer"
        /\ IF Combined(snap) THEN Finalize(c, snap) ELSE Deny(c, snap)
        /\ UNCHANGED <<layout, left, warm>>

\* The limiter or its store throws, before or after it spent: the slot goes back.
Thrown(c) ==
    /\ admit[c].pc \in Waiting
    /\ admit' = [admit EXCEPT ![c].pc = "threw", ![c].slot = FALSE]
    /\ inflight' = Returned(c)
    /\ UNCHANGED <<layout, left, warm, lastSnap>>

\* The caller's release(), of a slot it still holds.
Release(c) ==
    /\ admit[c].pc = "held"
    /\ admit' = [admit EXCEPT ![c].pc = "released", ![c].slot = FALSE]
    /\ inflight' = Returned(c)
    /\ UNCHANGED <<layout, left, warm, lastSnap>>

\* Time gives an axis a unit back.
Replenish ==
    /\ \/ left.rate < RateUnits /\ left' = [left EXCEPT !.rate = @ + 1]
       \/ left.cost < CostUnits /\ left' = [left EXCEPT !.cost = @ + 1]
    /\ \E c \in Admits : admit[c].pc = "idle"
    /\ UNCHANGED <<layout, inflight, warm, admit, lastSnap>>

\* Slip: nobody waits for the reply of the fused script.
AnsweredUnfused(c) == RateServed(c) \/ RateAnswered(c) \/ CostServed(c) \/ CostAnswered(c) \/ FusedServed(c)
Answered(c) == RateServed(c) \/ RateAnswered(c) \/ CostServed(c) \/ CostAnswered(c) \/ FusedServed(c) \/ FusedAnswered(c)

UnifiedNext ==
    \/ \E c \in Admits :
          \/ \E cost \in AdmitCosts, value \in AdmitValues :
                LET a == [cost |-> cost, value |-> value] IN Admit(c, a) \/ AdmitSync(c, a)
          \/ Answered(c) \/ Thrown(c) \/ Release(c)
    \/ Replenish

\* A store or client call that is started ends, and a caller releases what it holds.
UnifiedFairness == \A c \in Admits : WF_unifiedVars(Answered(c)) /\ WF_unifiedVars(Release(c))

----------------------------------------------------------------------------
(* Properties *)

\* The guard's count is the number of calls that hold a slot, and only a call that is under way or
\* admitted holds one: a refusal by a later axis, a throw or a bid-price refusal hands the slot back,
\* once (unified.ts, the short circuits, the catch and the release).
SlotsConserved ==
    /\ inflight = Cardinality({c \in Admits : admit[c].slot})
    /\ \A c \in Admits : admit[c].slot => layout.conc /\ admit[c].pc \in Waiting \cup {"held"}

\* However the calls interleave across their awaits, a call's verdict is made of the answers it got
\* itself: an admitted call was allowed by every axis configured and a refused one names an axis that
\* refused it, or the bid price, in which case neither rate nor cost was asked (the per-call snapshot).
VerdictsAreOwn ==
    \A c \in Admits :
        LET asked == {x \in Axes : admit[c].heard[x] # "none"}
            configured == {x \in Axes : CASE x = "conc" -> layout.conc [] x = "rate" -> layout.rate [] OTHER -> layout.cost}
        IN  /\ admit[c].pc \in {"held", "released"} =>
                  asked = configured /\ \A x \in asked : admit[c].heard[x] = "allow"
            /\ admit[c].pc = "denied" =>
                  IF admit[c].lane = "policy" THEN asked \subseteq {"conc"} /\ \A x \in asked : admit[c].heard[x] = "allow"
                  ELSE admit[c].heard[admit[c].lane] = "deny"

==============================================================================
