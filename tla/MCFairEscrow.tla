---------------------------- MODULE MCFairEscrow ----------------------------
(* What shares or estimates a limit beside the plain limiter, one at a time: *)
(* the fair escrow of a region and of a federation, the sketch as a limiter  *)
(* and as a mergeable table, and the cache of denials.                       *)
EXTENDS FairEscrow, FederatedFairEscrow, Sketch, CachedDeny

VARIABLE subject   \* which of them this behaviour is about

Plan(l2, keys, procs, n) == [l2 |-> l2, maxKeys |-> keys, procs |-> procs, asks |-> n]
MCPlans == {Plan(FALSE, 1, 1, 4), Plan(FALSE, 2, 1, 5), Plan(TRUE, 2, 1, 3), Plan(TRUE, 1, 2, 2)}

PoolPlan(async, keys, regions, n) == [async |-> async, maxKeys |-> keys, regions |-> regions, asks |-> n]
MCPoolPlans == {PoolPlan(FALSE, 1, 2, 4), PoolPlan(FALSE, 2, 1, 4), PoolPlan(TRUE, 2, 1, 3), PoolPlan(TRUE, 2, 2, 2)}

Init ==
    /\ subject \in {"region", "federation", "sketch", "merges", "denials"}
    /\ EscrowInit /\ FairInit /\ SketchInit /\ DenyInit
    /\ subject # "region" => plan = Plan(FALSE, 1, 1, 4)
    /\ subject # "federation" => setup = PoolPlan(FALSE, 1, 2, 4)
    /\ subject # "sketch" => careful
    /\ subject \notin {"sketch", "merges"} => hash = [r \in Rows |-> [k \in Keys |-> 1]]
    /\ subject # "denials" => serverTime

Next ==
    /\ UNCHANGED subject
    /\ \/ subject = "region" /\ EscrowNext /\ UNCHANGED <<fairVars, sketchVars, denyVars>>
       \/ subject = "federation" /\ FairNext /\ UNCHANGED <<escrowVars, sketchVars, denyVars>>
       \/ subject = "sketch" /\ LimiterNext /\ UNCHANGED <<escrowVars, fairVars, denyVars>>
       \/ subject = "merges" /\ MergeNext /\ UNCHANGED <<escrowVars, fairVars, denyVars>>
       \/ subject = "denials" /\ DenyNext /\ UNCHANGED <<escrowVars, fairVars, sketchVars>>
Spec == Init /\ [][Next]_<<subject, escrowVars, fairVars, sketchVars, denyVars>>

\* The hard caps of the fair escrows: a window admits the limit, plus only what evictions
\* and resets forgive, and the grants to all regions stay within the global limit whatever
\* weights they report; and no budget, grant or counter leaves its range, however rolls, late
\* releases, weight changes and evictions follow one another.
FairCapsHold ==
    /\ EscrowCap /\ PoolWithinLimit /\ FederatedCap
    /\ EscrowTypeOK /\ FairTypeOK

\* What approximates the exact limiter errs on the safe side: the sketch never admits a key past the
\* limit, its merges lose no count, and a cached denial is one L2 would repeat.
ApproximationsSafe ==
    /\ subject \in {"sketch", "merges"} => SketchTypeOK /\ SketchNeverUnder
    /\ subject = "denials" => DenyTypeOK /\ DenialsHonest
=============================================================================
