-------------------------- MODULE FederatedWindow --------------------------
(***************************************************************************)
(* Window-coupled federation (src/src/federation): the processes of all    *)
(* regions lease parts of the budget of a window from a global coordinator *)
(* (L3) and hold them in a local escrow (L1); a region may share a second  *)
(* escrow (L2) between its processes.  Every lease, refill, release and    *)
(* reconcile is a call that takes effect and answers later, while the      *)
(* window rolls.  One key.                                                 *)
(***************************************************************************)
EXTENDS Integers, FiniteSets

CONSTANTS
    Procs,          \* the processes of the federation
    RegionOf,       \* the region of each process
    Limit,          \* perKeyBudget: the global budget of a window
    Batch,          \* batch
    WindowMs,       \* windowMs
    MaxSkew,        \* how far the clock of a process may run ahead of the coordinator's
    Deployments,    \* deployments [skew, mode, l2]: the clocks, onCoordinatorOutage and whether
                    \* there is a regionalEscrow
    LateClock,      \* TRUE: the coordinator's time is read before its row is locked (Postgres)
    Riders,         \* FALSE: only behaviours in which no two checks share a pending lease
    PushFaults,     \* steps of pushing a grant to L2 that may reject: a subset of {"refill", "back"}
    Landed,         \* whether a rejected refill may have taken effect: a subset of BOOLEAN
    Reqs,           \* identities of the concurrent checks of one process
    Callers,        \* the checks that are ever called: <<process, identity, cost>>
    Slots,          \* identities of the leases of one process
    NoSlot,         \* entry.pending === undefined
    MaxCalls,       \* bound on the calls of check()
    MaxResets,      \* bound on the calls of reset()
    MaxTime         \* bound on the clock

\* The options federate() and the coordinators accept.
ValidFederateOptions ==
    /\ Limit \in Nat \ {0} /\ Batch \in Nat \ {0} /\ WindowMs \in Nat \ {0}
    /\ Deployments \subseteq [skew : [Procs -> 0..MaxSkew], mode : {"fail-closed", "regional-only"}, l2 : BOOLEAN]

ASSUME FederationAssumption ==
    /\ ValidFederateOptions
    /\ MaxSkew \in Nat /\ MaxCalls \in Nat /\ MaxResets \in Nat /\ MaxTime \in Nat
    /\ {LateClock, Riders} \subseteq BOOLEAN
    /\ PushFaults \subseteq {"refill", "back"} /\ Landed \subseteq BOOLEAN /\ NoSlot \notin Slots
    /\ Callers \subseteq Procs \X Reqs \X (Nat \ {0})

VARIABLES
    now,       \* the clock of the coordinator and of the regional stores
    opt,       \* the deployment: [skew, mode, l2], fixed at the start
    l3,        \* the coordinator's row: [win, budget, rec]
    l2,        \* the escrow of each region: [has, balance, src]
    entry,     \* entries.get(key) of each process
    healthy,   \* coordinatorHealthy of each process
    lease,     \* the coordinator leases of each process
    check,     \* the checks of each process
    jobs,      \* the releases and reconciles each process has under way
    calls,     \* calls of check() so far
    resets,    \* calls of reset() so far
    granted,   \* history: units the coordinator granted in each of its windows
    returned,  \* history: units reconciled back into each window
    admitted,  \* history: units admitted
    prompt     \* history: units of checks answered in the window they arrived in

vars == <<now, opt, l3, l2, entry, healthy, lease, check, jobs, calls, resets,
          granted, returned, admitted, prompt>>

Smaller(a, b) == IF a <= b THEN a ELSE b
Larger(a, b) == IF a >= b THEN a ELSE b

----------------------------------------------------------------------------
(* State *)

\* windowFor(now): windows are numbered; the one of number w ends at (w + 1) * WindowMs.
WindowFor(t) == t \div WindowMs
Windows == 0..WindowFor(MaxTime + MaxSkew)
LocalWindow(p) == WindowFor(now + opt.skew[p])

NoEntry == [has |-> FALSE, balance |-> 0, win |-> 0, pending |-> NoSlot, pendingWin |-> 0, lastRec |-> -1]
FreshEntry(w) == [NoEntry EXCEPT !.has = TRUE, !.win = w, !.pendingWin = w]
EmptyEscrow == [has |-> FALSE, balance |-> 0, src |-> 0]
NoBudget == [win |-> -1, budget |-> 0, rec |-> {}]
FreeLease == [st |-> "free", tokens |-> 0, win |-> 0, at |-> 0, grant |-> 0]
IdleCheck == [st |-> "idle", cost |-> 0, win |-> 0, slot |-> NoSlot, leaseWin |-> 0, got |-> 0]

EntryType == [has : BOOLEAN, balance : Nat, win : Nat, pending : Slots \cup {NoSlot},
              pendingWin : Nat, lastRec : Int]
\* asked: under way to the coordinator; granted: the answer under way; refill, back:
\* the grant is pushed to L2 and the own share leased back; settled: `grant` is known.
LeaseType == [st : {"free", "asked", "granted", "refill", "back", "leased", "settled"},
              tokens : Nat, win : Nat, at : Nat, grant : Nat]
\* probe: awaits isHealthy(); l2: a lease of the regional escrow is under way;
\* l2done: its answer is; await: awaits the lease `slot`.
CheckType == [st : {"idle", "probe", "l2", "l2done", "await"}, cost : Nat, win : Nat,
              slot : Slots \cup {NoSlot}, leaseWin : Nat, got : Nat]
RowType == [win : Int, budget : 0..Limit, rec : SUBSET Nat]
EscrowType == [has : BOOLEAN, balance : Nat, src : Nat]
JobType == [st : {"release", "reconcile"}, left : Nat, win : Nat]

\* TypeOK: no escrow, grant or budget is ever negative, whatever overlaps.
TypeOK ==
    /\ now \in 0..MaxTime
    /\ opt \in Deployments
    /\ l3 \in RowType
    /\ l2 \in [{RegionOf[p] : p \in Procs} -> EscrowType]
    /\ entry \in [Procs -> EntryType]
    /\ healthy \in [Procs -> BOOLEAN]
    /\ lease \in [Procs -> [Slots -> LeaseType]]
    /\ check \in [Procs -> [Reqs -> CheckType]]
    /\ jobs \in [Procs -> SUBSET JobType]
    /\ {calls, resets} \subseteq Nat /\ admitted \in Nat
    /\ {granted, returned, prompt} \subseteq [Windows -> Nat]

Init ==
    /\ now = 0
    /\ opt \in Deployments
    /\ l3 = NoBudget
    /\ l2 = [r \in {RegionOf[p] : p \in Procs} |-> EmptyEscrow]
    /\ entry = [p \in Procs |-> NoEntry]
    /\ healthy = [p \in Procs |-> TRUE]
    /\ lease = [p \in Procs |-> [s \in Slots |-> FreeLease]]
    /\ check = [p \in Procs |-> [r \in Reqs |-> IdleCheck]]
    /\ jobs = [p \in Procs |-> {}]
    /\ calls = 0 /\ resets = 0 /\ admitted = 0
    /\ granted = [w \in Windows |-> 0]
    /\ returned = [w \in Windows |-> 0]
    /\ prompt = [w \in Windows |-> 0]

----------------------------------------------------------------------------
(* The coordinator (L3) and the regional escrow (L2): atomic scripts        *)

\* Initialize or roll: a row of another window is replaced by a fresh budget.
RowAt(w) == IF l3.win = w THEN l3 ELSE [win |-> w, budget |-> Limit, rec |-> {}]

\* LEASE: as much of the request as the budget has.
GrantAll(row, tokens) == tokens   \* slip: the grant is not cut to the budget
GrantOf(row, tokens) == Smaller(tokens, row.budget)

\* RECONCILE credits the leftover of the active window only, and once.
CreditsBack(row, left, win) == win = row.win /\ win \notin row.rec
Reconciled(row, left, win) ==
    [row EXCEPT !.budget = Smaller(Limit, @ + left), !.rec = @ \cup {win}]

\* The escrow's hash expires with its window.
Escrow(r) == IF l2[r].has /\ WindowFor(now) <= l2[r].src THEN l2[r] ELSE EmptyEscrow

\* REFILL: drop a grant of a window that is over, add to the same window, replace otherwise.
Refilled(e, left, win) ==
    [has |-> TRUE, balance |-> IF e.has /\ e.src = win THEN e.balance + left ELSE left, src |-> win]
RefillKept(win) == WindowFor(now) <= win

----------------------------------------------------------------------------
(* The engine: check() *)

\* advance(): at the first check of a new window the old escrow is forfeited, its lease
\* is dropped, and what is left of it goes back to the coordinator.
NeedsRoll(e, w) == e.has /\ w > e.win
RolledKeeping(e, w) ==   \* slip: the old balance is not forfeited
    [e EXCEPT !.win = w, !.pending = NoSlot, !.pendingWin = w, !.lastRec = e.win]
Rolled(e, w) ==
    [e EXCEPT !.balance = 0, !.win = w, !.pending = NoSlot, !.pendingWin = w, !.lastRec = e.win]
Advance(e, w) == IF ~e.has THEN FreshEntry(w) ELSE IF NeedsRoll(e, w) THEN Rolled(e, w) ELSE e
RollJobs(e, w) ==
    IF ~NeedsRoll(e, w) \/ e.lastRec = e.win THEN {}
    ELSE IF opt.l2 THEN {[st |-> "release", left |-> e.balance, win |-> e.win]}
    ELSE IF e.balance > 0 THEN {[st |-> "reconcile", left |-> e.balance, win |-> e.win]} ELSE {}

RegionalOnly == opt.mode = "regional-only" /\ opt.l2

\* The balance covers the cost: admit.
Admit(p, r, c, e) ==
    /\ e.balance >= c.cost
    /\ entry' = [entry EXCEPT ![p] = [e EXCEPT !.balance = @ - c.cost]]
    /\ check' = [check EXCEPT ![p][r] = IdleCheck]
    /\ admitted' = admitted + c.cost
    /\ prompt' = [prompt EXCEPT ![LocalWindow(p)] = @ + IF c.win = LocalWindow(p) THEN c.cost ELSE 0]
    /\ UNCHANGED lease

Deny(p, r, e) ==
    /\ entry' = [entry EXCEPT ![p] = e]
    /\ check' = [check EXCEPT ![p][r] = IdleCheck]
    /\ UNCHANGED <<lease, admitted, prompt>>

\* It does not, and there is a regional escrow: ask it for what is missing.
AskEscrow(p, r, c, e) ==
    /\ e.balance < c.cost /\ opt.l2
    /\ entry' = [entry EXCEPT ![p] = e]
    /\ check' = [check EXCEPT ![p][r] = [c EXCEPT !.st = "l2", !.got = Larger(Batch, c.cost) - e.balance]]
    /\ UNCHANGED <<lease, admitted, prompt>>

FreeSlots(p) == {s \in Slots : lease[p][s].st = "free"}
Await(p, r, c, s, win) ==
    check' = [check EXCEPT ![p][r] = [c EXCEPT !.st = "await", !.slot = s, !.leaseWin = win, !.got = 0]]

\* L2 had nothing, or there is none: await the pending lease, or start one.  A region
\* that serves from L2 alone denies while the coordinator is thought down.
AskCoordinator(p, r, c, e, up) ==
    \/ RegionalOnly /\ ~up /\ Deny(p, r, e)
    \/ /\ ~(RegionalOnly /\ ~up) /\ e.pending # NoSlot /\ Riders
       /\ entry' = [entry EXCEPT ![p] = e]
       /\ Await(p, r, c, e.pending, e.pendingWin)
       /\ UNCHANGED <<lease, admitted, prompt>>
    \/ /\ ~(RegionalOnly /\ ~up) /\ e.pending = NoSlot
       /\ FreeSlots(p) # {}
       /\ LET s == CHOOSE x \in FreeSlots(p) : TRUE IN
             /\ lease' = [lease EXCEPT ![p][s] =
                   [FreeLease EXCEPT !.st = "asked", !.tokens = Larger(Batch, c.cost),
                                     !.win = e.win, !.at = now]]
             /\ entry' = [entry EXCEPT ![p] = [e EXCEPT !.pending = s, !.pendingWin = e.win]]
             /\ Await(p, r, c, s, e.win)
       /\ UNCHANGED <<admitted, prompt>>

\* The head of the while loop.
Loop(p, r, c, e, up) ==
    \/ Admit(p, r, c, e)
    \/ AskEscrow(p, r, c, e)
    \/ e.balance < c.cost /\ ~opt.l2 /\ AskCoordinator(p, r, c, e, up)

\* No continuation of the process is ready to run.
Quiet(p) == \A s \in Slots : lease[p][s].st # "settled"
Enter(p, r, c, up) ==
    /\ jobs' = [jobs EXCEPT ![p] = @ \cup RollJobs(entry[p], c.win)]
    /\ Loop(p, r, c, Advance(entry[p], c.win), up)

\* check(key, cost): it first awaits a probe when the coordinator is thought down.
Begin(p, r, cost) ==
    LET c == [IdleCheck EXCEPT !.st = "probe", !.cost = cost, !.win = LocalWindow(p)] IN
    \/ /\ RegionalOnly /\ ~healthy[p]
       /\ check' = [check EXCEPT ![p][r] = c]
       /\ UNCHANGED <<entry, lease, jobs, admitted, prompt>>
    \/ ~(RegionalOnly /\ ~healthy[p]) /\ Enter(p, r, c, healthy[p])

Call(p, r, cost) ==
    /\ <<p, r, cost>> \in Callers /\ Quiet(p) /\ check[p][r].st = "idle"
    /\ calls < MaxCalls
    /\ calls' = calls + 1
    /\ Begin(p, r, cost)
    /\ UNCHANGED <<now, opt, l3, l2, healthy, resets, granted, returned>>

\* The probe answers, or is not due yet: healthy again, or not.
Probed(p, r) ==
    /\ Quiet(p) /\ check[p][r].st = "probe"
    /\ \E up \in {healthy[p], TRUE} :
          /\ healthy' = [healthy EXCEPT ![p] = up]
          /\ Enter(p, r, check[p][r], up)
    /\ UNCHANGED <<now, opt, l3, l2, calls, resets, granted, returned>>

\* The lease of L2 takes effect, or rejects before or after it did.
EscrowLease(p, r) ==
    LET g == RegionOf[p]
        e == Escrow(g)
        got == Smaller(check[p][r].got, e.balance)
    IN  /\ check[p][r].st = "l2"
        /\ \/ /\ l2' = [l2 EXCEPT ![g] = [e EXCEPT !.balance = @ - got]]
              /\ check' = [check EXCEPT ![p][r].st = "l2done", ![p][r].got = got]
           \/ /\ l2' \in {l2, [l2 EXCEPT ![g] = [e EXCEPT !.balance = @ - got]]}
              /\ check' = [check EXCEPT ![p][r].st = "l2done", ![p][r].got = 0]
        /\ UNCHANGED <<now, opt, l3, entry, healthy, lease, jobs, calls, resets, granted, returned, admitted, prompt>>

\* Its answer arrives; the entry is looked up again.  After a reset() check starts over.
EscrowAnswers(p, r) ==
    LET c == check[p][r]
        e == entry[p]
    IN  /\ Quiet(p) /\ c.st = "l2done"
        /\ \/ ~e.has /\ Begin(p, r, c.cost)
           \/ e.has /\ c.got > 0 /\ Loop(p, r, c, [e EXCEPT !.balance = @ + c.got], healthy[p]) /\ UNCHANGED jobs
           \/ e.has /\ c.got = 0 /\ AskCoordinator(p, r, c, e, healthy[p]) /\ UNCHANGED jobs
        /\ UNCHANGED <<now, opt, l3, l2, healthy, calls, resets, granted, returned>>

----------------------------------------------------------------------------
(* The lease *)

\* coordinator.lease() takes effect at the coordinator's time.
CoordinatorLease(p, s) ==
    LET c == lease[p][s] IN
    /\ c.st = "asked"
    /\ \E t \in (IF LateClock THEN c.at ELSE now)..now :
          LET w == WindowFor(t)
              row == RowAt(w)
              g == GrantOf(row, c.tokens)
          IN  /\ l3' = [row EXCEPT !.budget = @ - g]
              /\ granted' = [granted EXCEPT ![w] = @ + g]
              /\ lease' = [lease EXCEPT ![p][s].st = "granted", ![p][s].grant = g]
    /\ UNCHANGED <<now, opt, l2, entry, healthy, check, jobs, calls, resets, returned, admitted, prompt>>

\* Its answer arrives: push the grant to L2, or settle.
LeaseAnswers(p, s) ==
    LET c == lease[p][s] IN
    /\ c.st = "granted"
    /\ lease' = [lease EXCEPT ![p][s].st = IF c.grant > 0 /\ opt.l2 THEN "refill" ELSE "settled"]
    /\ healthy' = [healthy EXCEPT ![p] = TRUE]
    /\ UNCHANGED <<now, opt, l3, l2, entry, check, jobs, calls, resets, granted, returned, admitted, prompt>>

\* It rejects, though it may have taken effect: the outage mode.
LeaseFails(p, s) ==
    /\ lease[p][s].st \in {"asked", "granted"}
    /\ lease' = [lease EXCEPT ![p][s].st = "settled", ![p][s].grant = 0]
    /\ healthy' = [healthy EXCEPT ![p] = ~RegionalOnly /\ @]
    /\ UNCHANGED <<now, opt, l3, l2, entry, check, jobs, calls, resets, granted, returned, admitted, prompt>>

PushToEscrow(p, s) ==
    LET c == lease[p][s]
        g == RegionOf[p]
    IN  /\ c.st = "refill"
        /\ l2' = [l2 EXCEPT ![g] = IF RefillKept(c.win) THEN Refilled(Escrow(g), c.grant, c.win) ELSE Escrow(g)]
        /\ lease' = [lease EXCEPT ![p][s].st = "back"]
        /\ UNCHANGED <<now, opt, l3, entry, healthy, check, jobs, calls, resets, granted, returned, admitted, prompt>>

LeaseBack(p, s) ==
    LET c == lease[p][s]
        g == RegionOf[p]
        got == Smaller(c.tokens, Escrow(g).balance)
    IN  /\ c.st = "back"
        /\ l2' = [l2 EXCEPT ![g] = [Escrow(g) EXCEPT !.balance = @ - got]]
        /\ lease' = [lease EXCEPT ![p][s].st = "settled", ![p][s].grant = got]
        /\ UNCHANGED <<now, opt, l3, entry, healthy, check, jobs, calls, resets, granted, returned, admitted, prompt>>

\* Either of the two rejects: the whole grant stays with the process.
PushFails(p, s) ==
    LET c == lease[p][s]
        g == RegionOf[p]
    IN  /\ c.st \in PushFaults
        /\ \E landed \in Landed :
              l2' = IF c.st = "refill" /\ landed /\ RefillKept(c.win)
                    THEN [l2 EXCEPT ![g] = Refilled(Escrow(g), c.grant, c.win)] ELSE l2
        /\ lease' = [lease EXCEPT ![p][s].st = "settled"]
        /\ UNCHANGED <<now, opt, l3, entry, healthy, check, jobs, calls, resets, granted, returned, admitted, prompt>>

\* A check that awaits a settled lease continues.  A grant of a window that has rolled
\* since is handed back; otherwise it is credited.
ClearPending(e, s) == IF e.pending = s THEN [e EXCEPT !.pending = NoSlot] ELSE e
StaleNever(e, c) == FALSE   \* slip: a late grant is credited to the new window
Stale(e, c) == e.win # c.leaseWin

Resume(p, r) ==
    LET c == check[p][r]
        s == c.slot
        e == ClearPending(entry[p], s)
        grant == lease[p][s].grant
    IN  /\ c.st = "await" /\ lease[p][s].st = "settled"
        /\ \/ ~entry[p].has /\ Begin(p, r, c.cost)
           \/ /\ entry[p].has /\ grant > 0 /\ Stale(e, c)
              /\ jobs' = [jobs EXCEPT ![p] = @ \cup {[st |-> "reconcile", left |-> grant, win |-> c.leaseWin]}]
              /\ Loop(p, r, c, e, healthy[p])
           \/ /\ entry[p].has /\ grant > 0 /\ ~Stale(e, c)
              /\ Loop(p, r, c, [e EXCEPT !.balance = @ + grant], healthy[p])
              /\ UNCHANGED jobs
           \/ /\ entry[p].has /\ grant = 0
              /\ Deny(p, r, e)
              /\ UNCHANGED jobs
        /\ UNCHANGED <<now, opt, l3, l2, healthy, calls, resets, granted, returned>>

\* Nobody awaits the settled lease any more.
Collect(p, s) ==
    /\ lease[p][s].st = "settled"
    /\ \A r \in Reqs : ~(check[p][r].st = "await" /\ check[p][r].slot = s)
    /\ lease' = [lease EXCEPT ![p][s] = FreeLease]
    /\ UNCHANGED <<now, opt, l3, l2, entry, healthy, check, jobs, calls, resets, granted, returned, admitted, prompt>>

----------------------------------------------------------------------------
(* Handing escrow back, and the environment *)

\* release(): the first process to close the window takes what L2 has left of it.
Release(p, j) ==
    LET g == RegionOf[p]
        left == j.left + IF Escrow(g).has /\ Escrow(g).src = j.win THEN Escrow(g).balance ELSE 0
    IN  /\ j.st = "release"
        /\ l2' = IF Escrow(g).src = j.win THEN [l2 EXCEPT ![g] = EmptyEscrow] ELSE l2
        /\ jobs' = [jobs EXCEPT ![p] = (@ \ {j}) \cup
                       IF left > 0 THEN {[st |-> "reconcile", left |-> left, win |-> j.win]} ELSE {}]
        /\ UNCHANGED <<now, opt, l3, entry, healthy, lease, check, calls, resets, granted, returned, admitted, prompt>>

Reconcile(p, j) ==
    LET w == WindowFor(now)
        row == RowAt(w)
        credits == CreditsBack(row, j.left, j.win)
    IN  /\ j.st = "reconcile"
        /\ l3' = IF credits THEN Reconciled(row, j.left, j.win) ELSE l3
        /\ returned' = [returned EXCEPT ![w] = @ + IF credits THEN Smaller(Limit - row.budget, j.left) ELSE 0]
        /\ jobs' = [jobs EXCEPT ![p] = @ \ {j}]
        /\ UNCHANGED <<now, opt, l2, entry, healthy, lease, check, calls, resets, granted, admitted, prompt>>

\* Best effort: a rejected call is swallowed.
JobLost(p, j) ==
    /\ jobs' = [jobs EXCEPT ![p] = @ \ {j}]
    /\ UNCHANGED <<now, opt, l3, l2, entry, healthy, lease, check, calls, resets, granted, returned, admitted, prompt>>

\* reset(key), or close(): the entry is dropped with its escrow.
Reset(p) ==
    /\ Quiet(p) /\ resets < MaxResets
    /\ resets' = resets + 1
    /\ entry' = [entry EXCEPT ![p] = NoEntry]
    /\ UNCHANGED <<now, opt, l3, l2, healthy, lease, check, jobs, calls, granted, returned, admitted, prompt>>

Tick ==
    /\ now < MaxTime /\ \A p \in Procs : Quiet(p)
    /\ now' = now + 1
    /\ UNCHANGED <<opt, l3, l2, entry, healthy, lease, check, jobs, calls, resets, granted, returned, admitted, prompt>>

LeaseStep(p, s) ==
    \/ CoordinatorLease(p, s) \/ LeaseAnswers(p, s) \/ LeaseFails(p, s) \/ PushToEscrow(p, s)
    \/ LeaseBack(p, s) \/ PushFails(p, s) \/ Collect(p, s)
CheckStep(p, r) == Probed(p, r) \/ EscrowLease(p, r) \/ EscrowAnswers(p, r) \/ Resume(p, r)

Next ==
    \/ \E p \in Procs, r \in Reqs : CheckStep(p, r)
    \/ \E c \in Callers : Call(c[1], c[2], c[3])
    \/ \E p \in Procs, s \in Slots : LeaseStep(p, s)
    \/ \E p \in Procs : \E j \in jobs[p] : Release(p, j) \/ Reconcile(p, j) \/ JobLost(p, j)
    \/ \E p \in Procs : Reset(p)
    \/ Tick

Spec == Init /\ [][Next]_vars

----------------------------------------------------------------------------
(* Properties *)

\* The coordinator never has more than the budget of a window out, however leases,
\* late reconciles, duplicated reconciles and rolls of the row interleave.
L3WithinLimit == \A w \in Windows : granted[w] - returned[w] <= Limit

\* The federation bound (overshoot 0) for regions of one process whose clocks do not run
\* ahead: the checks that arrive and are answered in one window spend at most the global
\* limit, though leases, their answers and their hand-backs straddle the boundary.
FederationBound ==
    (~opt.l2 /\ \A p \in Procs : opt.skew[p] = 0) => \A w \in Windows : prompt[w] <= Limit
=============================================================================
