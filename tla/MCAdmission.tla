----------------------------- MODULE MCAdmission -----------------------------
(* The admission layer and the server around it, for TLC.  A behaviour is    *)
(* about one subject: admits over the three axes, a shared budget, one       *)
(* allocation or one workload of the fluid LP, the leases or the meters of   *)
(* the service door, the capture log, or the leases of a fleet; the others   *)
(* stay as they start.                                                       *)
EXTENDS UnifiedAdmission, AdmissionBudgets, ServiceDoor, CaptureLog, FleetLease

CONSTANTS Subjects, LpValues, LpCosts, LpBudgets, MaxDemand, MaxWeight, MaxSplit

VARIABLES subject, lp, split
serverVars == <<doorVars, logVars, fleetVars>>
admissionVars == <<unifiedVars, budgetVars, serverVars, subject, lp, split>>

\* What is deployed: all axes one by one behind prices that are learned, the fused script behind fixed
\* ones, and axes left out.
MCLayouts ==
    {[conc |-> TRUE, rate |-> TRUE, cost |-> TRUE, fused |-> FALSE, policy |-> "adaptive"],
     [conc |-> TRUE, rate |-> TRUE, cost |-> TRUE, fused |-> TRUE, policy |-> "static"],
     [conc |-> FALSE, rate |-> TRUE, cost |-> FALSE, fused |-> FALSE, policy |-> "none"],
     [conc |-> TRUE, rate |-> FALSE, cost |-> TRUE, fused |-> FALSE, policy |-> "none"],
     [conc |-> TRUE, rate |-> FALSE, cost |-> FALSE, fused |-> FALSE, policy |-> "none"]}

\* The model the bid prices start from: half the arrivals are cheap and dull, half dear and worth more.
MCWorkload ==
    [types |-> <<[use |-> <<1, 1>>, value |-> 1, weight |-> 1], [use |-> <<1, 2>>, value |-> 4, weight |-> 1]>>,
     budget |-> <<1, 2>>]

\* The workloads of the fluid LP, of two budgets and of three.
LpType2(c, v) == [use |-> <<1, c>>, value |-> v, weight |-> 1]
LpType3(c, v, h) == [use |-> <<1, c, h>>, value |-> v, weight |-> 1]
Lps2 == {[types |-> <<LpType2(c1, v1), LpType2(c2, v2), LpType2(c3, v3)>>, budget |-> <<r, k>>] :
            c1, c2, c3 \in LpCosts, v1, v2, v3 \in LpValues, r \in LpBudgets, k \in LpBudgets}
Lps3 == {[types |-> <<LpType3(c1, v1, h1), LpType3(c2, v2, h2)>>, budget |-> <<r, k, n>>] :
            c1, c2 \in LpCosts, h1, h2 \in LpCosts \ {0}, v1, v2 \in LpValues \ {0}, r, k, n \in LpBudgets}
Splits == {[demand |-> d, weight |-> w, limit |-> n] :
              d \in [1..3 -> 0..MaxDemand], w \in [1..3 -> 1..MaxWeight], n \in 0..MaxSplit}

AnLp == CHOOSE x \in Lps2 : TRUE
ASplit == CHOOSE x \in Splits : TRUE

Init ==
    /\ subject \in Subjects
    /\ UnifiedInit /\ (subject # "unified" => layout = CHOOSE x \in Layouts : TRUE)
    /\ BudgetInit /\ (subject # "budgets" => tool = "fair")
    /\ lp \in IF subject = "lp" THEN Lps2 \cup Lps3 ELSE {AnLp}
    /\ split \in IF subject = "split" THEN Splits ELSE {ASplit}
    /\ DoorInit /\ (subject # "meters" => fail = "open" /\ ~shared)
    /\ LogInit
    /\ FleetInit /\ (subject # "fleet" => ~late)

Next ==
    /\ UNCHANGED <<subject, lp, split>>
    /\ \/ subject = "unified" /\ UnifiedNext /\ UNCHANGED <<budgetVars, serverVars>>
       \/ subject = "budgets" /\ BudgetNext /\ UNCHANGED <<unifiedVars, serverVars>>
       \/ subject = "leases" /\ LeaseNext /\ UNCHANGED <<unifiedVars, budgetVars, logVars, fleetVars>>
       \/ subject = "meters" /\ MeterNext /\ UNCHANGED <<unifiedVars, budgetVars, logVars, fleetVars>>
       \/ subject = "capture" /\ LogNext /\ UNCHANGED <<unifiedVars, budgetVars, doorVars, fleetVars>>
       \/ subject = "fleet" /\ FleetNext /\ UNCHANGED <<unifiedVars, budgetVars, doorVars, logVars>>

Spec == Init /\ [][Next]_admissionVars /\ UnifiedFairness /\ DoorFairness /\ DiskFairness /\ FleetFairness

----------------------------------------------------------------------------

\* A plan takes a fraction of each type and stays within every budget.
Plannable(x) ==
    /\ \A i \in Types(lp) : QLeq(Whole(0), x[i]) /\ QLeq(x[i], Whole(1))
    /\ \A b \in Budgets(lp) : QLeq(Usage(lp, x, b), Whole(lp.budget[b]))
\* Plans of two types to a twelfth.  The best plan lies where two budget lines or bounds meet, and on
\* the grid of Lps3 their determinants are at most 4.
Twelfths == {Ratio(k, 12) : k \in 0..12}

\* The prices of solveFluidLp are optimal: some plan within the budgets is worth as much as the dual
\* costs with them, so no vertex is cheaper and no plan is worth more.  With two budgets that plan is
\* the one recovered; with three the recovered one is a best effort that only keeps the budgets, and
\* the witness is looked for among all plans of the two types.
Certifies(p, x) ==
    /\ Plannable(x)
    /\ \E y \in IF Len(lp.budget) = 2 THEN {x} ELSE Twelfths \X Twelfths :
          Worth(lp, y) = DualObjective(lp, p) /\ Plannable(y)
LpCertified == subject = "lp" => Certifies(Duals(lp), AdmitFractions(lp, Duals(lp)))

\* The split of a budget over the tenants is the weighted max-min fair one.
SplitIsFair == subject = "split" => MaxMinFair(split)

\* No unit is spent twice: the shared budgets add up, meter alike wherever they are kept and leave a
\* healthy backend alone; the door's meters survive their eviction, and a fleet client spends what it was
\* granted.
BudgetsHold ==
    CASE subject = "budgets" -> SharesAddUp /\ MetersAgree /\ HealthyNeverShed /\ BudgetTypeOK
      [] subject = "meters" -> MetersSurviveEviction /\ DoorTypeOK
      [] subject = "fleet" -> SpendsCovered /\ FleetTypeOK
      [] OTHER -> TRUE

\* For every workload of the grid the bid prices are optimal, and so is the plan recovered for two
\* budgets (for three it is within them); the split of a budget is the fair one for every demand.
AllocationsOptimal == LpCertified /\ SplitIsFair

\* A concurrency slot has one owner and goes back once: in the process, and behind the door, where the
\* lease table stands for it.
SlotsHeldOnce ==
    CASE subject = "unified" -> SlotsConserved /\ UnifiedTypeOK
      [] subject = "leases" -> LeasesOwnSlots /\ DoorTypeOK
      [] OTHER -> TRUE

\* The capture loses no decision it does not account for, and its timer never overlaps itself.
CaptureSound == subject = "capture" => EventsAccounted /\ TimerFlushesAlone /\ LogTypeOK

\* What the i-th call, lease, flush or request of the behaviour has started and not ended.
Owes(i) ==
    CASE subject = "unified" -> admit[i].pc \in Waiting \cup {"held"}
      [] subject = "leases" -> i \in DOMAIN leases
      [] subject = "capture" -> i \in Flushes /\ flush[i].st # "idle"
      [] subject = "fleet" -> req[i].st \in {"asking", "granted"}
      [] OTHER -> FALSE

\* Everything that was started ends: an admit settles and its slot returns (the try/catch around rate and
\* cost); the lease of a client that crashed leaves the table once no beat renews it (the bounded clock
\* ends the beats); a flush finishes, even when the disk fails every call; and a fleet call is answered
\* by a spend, a denial, an error or the limit on its rounds.
EverythingSettles == \A i \in Admits : Owes(i) ~> ~Owes(i)
==============================================================================
