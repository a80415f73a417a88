------------------------------ MODULE FleetLease ------------------------------
(***************************************************************************)
(* Tier-2 leases: the LeaseSpender of a client (src/twotier/lease-spender) *)
(* and the Fleet.Reserve door it refreshes from (server/src/fleet).  Calls *)
(* of one client share its spender; each captures the time, and loops over *)
(* an awaited reserve until its cost is covered, the server denies it or   *)
(* it gives up.  The coordinator behind the door grants what is left of    *)
(* the window it reads; client and server read one clock.                  *)
(***************************************************************************)
EXTENDS Integers, FiniteSets, Functions

CONSTANTS
    Spenders,      \* clients, one LeaseSpender each
    Requests,      \* calls of spendOrRefresh, numbered as they come
    SpendCosts,    \* their costs
    Asks,          \* what a client's reserve callback asks for on top of the wants
    FleetLimit,    \* the policy's limit per window
    FleetWindow,   \* windowMs
    MaxRounds,     \* maxRounds
    FleetSpan      \* bound: the clock stops here

\* requireCost, and the limit and window of a policy.
ASSUME SpenderAssumption ==
    /\ IsFiniteSet(Spenders) /\ IsFiniteSet(Requests)
    /\ SpendCosts \subseteq Nat \ {0} /\ Asks \subseteq Int
    /\ FleetLimit \in Nat /\ FleetWindow \in Nat \ {0}
    /\ MaxRounds \in Nat /\ FleetSpan \in Nat

VARIABLES
    fnow,      \* the clock
    late,      \* a reply may arrive after the window that granted it
    drained,   \* the coordinator: window -> units granted of it
    purse,     \* the spenders: [credits, expiresAt]
    req,       \* the calls
    out,       \* history: per spender [granted, spent, lost]
    served     \* history: window -> units spent by the calls that arrived in it

fleetVars == <<fnow, late, drained, purse, req, out, served>>

NoExpiry == 0                       \* undefined: credits are 0 then, so nothing looks at it
Windows == 0..(FleetSpan \div FleetWindow)
WindowOf(t) == t \div FleetWindow
EndOf(w) == (w + 1) * FleetWindow
Unborn == [st |-> "new", by |-> 0, cost |-> 0, at |-> 0, round |-> 0, asked |-> 0, cap |-> 0, exp |-> 0]
Ended(st) == [Unborn EXCEPT !.st = st]
Least(a, b) == IF a < b THEN a ELSE b

FleetInit ==
    /\ fnow = 0
    /\ late \in BOOLEAN
    /\ drained = [w \in Windows |-> 0]
    /\ purse = [s \in Spenders |-> [credits |-> 0, expiresAt |-> NoExpiry]]
    /\ req = [r \in Requests |-> Unborn]
    /\ out = [s \in Spenders |-> [granted |-> 0, spent |-> 0, lost |-> 0]]
    /\ served = [w \in Windows |-> 0]

FleetTypeOK ==
    /\ fnow \in 0..FleetSpan
    /\ \A w \in Windows : drained[w] \in 0..FleetLimit
    /\ \A s \in Spenders : purse[s].credits >= 0
    /\ \A r \in Requests : req[r].st \in {"new", "asking", "granted", "allowed", "denied", "failed", "threw"}
    /\ \A r \in Requests : req[r].round <= MaxRounds

----------------------------------------------------------------------------
(* The spender *)

\* expireIfRolled.
RolledOut(p) == IF fnow >= p.expiresAt THEN [p EXCEPT !.credits = 0] ELSE p

\* Slip: the grant replaces what the other calls of the client still hold.
AppliedOver(p, cap, exp) == [credits |-> cap, expiresAt |-> exp]
\* applyLease.
Applied(p, cap, exp) == [credits |-> p.credits + cap, expiresAt |-> exp]

\* One turn of the loop: spend, ask for more, or give up after maxRounds.
Turn(r, q, s, p, o) ==
    LET short == p.credits < q.cost
    IN  \E extra \in Asks :
        /\ req' = [req EXCEPT ![r] =
                    IF ~short THEN Ended("allowed")
                    ELSE IF q.round = MaxRounds THEN Ended("threw")
                    ELSE [q EXCEPT !.st = "asking", !.asked = q.cost + extra]]
        /\ purse' = [purse EXCEPT ![s] = IF short THEN p ELSE [p EXCEPT !.credits = @ - q.cost]]
        /\ out' = [out EXCEPT ![s] = IF short THEN o ELSE [o EXCEPT !.spent = @ + q.cost]]
        /\ served' = IF short THEN served ELSE [served EXCEPT ![WindowOf(q.at)] = @ + q.cost]

\* spendOrRefresh: the discard happens once, before the first turn.
Call(r, s, cost) ==
    LET p == RolledOut(purse[s])
    IN  /\ req[r].st = "new" /\ \A x \in Requests : x < r => req[x].st # "new"
        /\ Turn(r, [Unborn EXCEPT !.by = s, !.cost = cost, !.at = fnow], s, p,
                [out[s] EXCEPT !.lost = @ + purse[s].credits - p.credits])
        /\ UNCHANGED <<fnow, late, drained>>

\* The reply: denied, an error of the transport or the door, or a grant and the next turn.
Reply(r) ==
    LET q == req[r]
        s == q.by
    IN  /\ q.st = "granted"
        /\ \/ /\ q.cap > 0
              /\ Turn(r, [q EXCEPT !.round = @ + 1], s, Applied(purse[s], q.cap, q.exp), [out[s] EXCEPT !.granted = @ + q.cap])
           \/ /\ q.cap = 0
              /\ req' = [req EXCEPT ![r] = Ended("denied")]
              /\ UNCHANGED <<purse, out, served>>
        /\ UNCHANGED <<fnow, late, drained>>

\* The call or its answer is lost, or the door refuses it (unknown policy, an axis it does not lease):
\* the await throws and the units, if any were granted, are nobody's.
ReserveFails(r) ==
    /\ req[r].st \in {"asking", "granted"}
    /\ req' = [req EXCEPT ![r] = Ended("failed")]
    /\ UNCHANGED <<fnow, late, drained, purse, out, served>>

\* reset(), on a reconnect for one: calls that await a reply go on.
ResetSpender(s) ==
    /\ purse[s].credits > 0
    /\ purse' = [purse EXCEPT ![s] = [credits |-> 0, expiresAt |-> NoExpiry]]
    /\ out' = [out EXCEPT ![s].lost = @ + purse[s].credits]
    /\ UNCHANGED <<fnow, late, drained, req, served>>

----------------------------------------------------------------------------
(* The door *)

\* Slip: the grant is what was asked for.
GrantedInFull(w, want) == want
\* The coordinator's partial grant.
GrantedOf(w, want) == Least(want, FleetLimit - drained[w])

\* wantsOf: an amount that is not positive asks for one unit.
WantsOf(n) == IF n > 0 THEN n ELSE 1

\* The window the budget drained against, computed with the grant.
Boundary(w) == EndOf(w)

\* reserve and source.lease: one atomic read-and-drain of the coordinator.
Reserve(r) ==
    LET w == WindowOf(fnow)
        n == GrantedOf(w, WantsOf(req[r].asked))
    IN  /\ req[r].st = "asking"
        /\ drained' = [drained EXCEPT ![w] = @ + n]
        /\ req' = [req EXCEPT ![r].st = "granted", ![r].cap = n, ![r].exp = Boundary(w)]
        /\ UNCHANGED <<fnow, late, purse, out, served>>

Prompt == \A r \in Requests : req[r].st \notin {"asking", "granted"}

FleetTick ==
    /\ fnow < FleetSpan
    /\ late \/ Prompt
    /\ fnow' = fnow + 1
    /\ UNCHANGED <<late, drained, purse, req, out, served>>

Answer(r) == Reserve(r) \/ Reply(r) \/ ReserveFails(r)

FleetNext ==
    \/ \E r \in Requests, s \in Spenders, cost \in SpendCosts : Call(r, s, cost)
    \/ \E r \in Requests : Answer(r)
    \/ \E s \in Spenders : ResetSpender(s)
    \/ FleetTick

\* Replies come, or the transport gives up.
FleetFairness == \A r \in Requests : WF_fleetVars(Answer(r))

----------------------------------------------------------------------------

\* A client never spends a unit the server did not grant it: whatever calls share the spender across
\* their awaits, what it spent, still holds and threw away is what it was granted.  And when every reply
\* arrives in the window that granted it, the calls of one window spend at most the limit, fleet-wide
\* (src/twotier/lease-spender.ts:20-24, "holding the per-window global total to exactly the limit").
SpendsCovered ==
    /\ \A s \in Spenders : out[s].granted = out[s].spent + out[s].lost + purse[s].credits
    /\ FoldFunction(+, 0, [s \in Spenders |-> out[s].granted]) <= FoldFunction(+, 0, drained)
    /\ ~late => \A w \in Windows : served[w] <= FleetLimit

==============================================================================
