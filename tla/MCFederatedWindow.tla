-------------------------- MODULE MCFederatedWindow --------------------------
(* Small instances of FederatedWindow for TLC, and the property that adds up *)
(* every place a unit of budget can be.                                      *)
EXTENDS FederatedWindow, Functions

\* The first process has two concurrent checks.
MCCallers == {<<1, 1, 1>>, <<1, 2, 2>>, <<2, 1, 1>>}
MCDeployments ==
    {[skew |-> [p \in Procs |-> 0], mode |-> "fail-closed", l2 |-> FALSE],
     [skew |-> [p \in Procs |-> IF p = 1 THEN MaxSkew ELSE 0], mode |-> "fail-closed", l2 |-> FALSE],
     [skew |-> [p \in Procs |-> 0], mode |-> "regional-only", l2 |-> TRUE]}
OneRegion == [p \in Procs |-> 1]

InEscrow ==
    SumFunction([p \in Procs |-> entry[p].balance]) + SumFunction([g \in DOMAIN l2 |-> Escrow(g).balance])

Awaited(p, s) == \E r \in Reqs : check[p][r].st = "await" /\ check[p][r].slot = s

\* Grants on their way to the process that asked, answers of the regional escrow, and
\* what is on its way back.
OnTheWay ==
    SumFunction([x \in Procs \X Slots |->
        LET c == lease[x[1]][x[2]] IN
        IF c.st \in {"granted", "refill"} \/ (c.st = "settled" /\ Awaited(x[1], x[2])) THEN c.grant ELSE 0])
    + SumFunction([p \in Procs |-> SumFunction([j \in jobs[p] |-> j.left])])
    + SumFunction([x \in Procs \X Reqs |->
        IF check[x[1]][x[2]].st = "l2done" THEN check[x[1]][x[2]].got ELSE 0])

\* No unit of the global budget is spent or held twice: the coordinator never has more than the
\* budget of a window out, and what was admitted and what sits in an escrow or is on its way there
\* never exceeds what it has out, across rolls, failed pushes to the regional escrow, releases,
\* late reconciles and reset().  TypeOK is part of it: no term of the sum is negative, so that no
\* debt in one escrow hides a unit too many in another.
EscrowConserved ==
    /\ TypeOK /\ L3WithinLimit
    /\ admitted + InEscrow + OnTheWay <= SumFunction(granted) - SumFunction(returned)
===============================================================================
