----------------------- MODULE FederatedWindowProofs -----------------------
(*****************************************************************************)
(* Theorems about FederatedWindow for any number of processes, checks and     *)
(* calls: its types, the budget of the coordinator, and the federation bound. *)
(*****************************************************************************)
EXTENDS MCFederatedWindow, SumTheorems, TLAPS

----------------------------------------------------------------------------
(* Windows *)

LEMMA WindowNat == \A t \in Nat : WindowFor(t) \in Nat
BY FederationAssumption DEF WindowFor, ValidFederateOptions

\* Time never moves back to an earlier window.
LEMMA WindowMonotone == ASSUME NEW t \in Nat, NEW u \in Nat, t <= u PROVE WindowFor(t) <= WindowFor(u)
<1> DEFINE W == WindowMs
           p == t \div W
           q == u \div W
<1>1. W \in Nat /\ W > 0
  BY FederationAssumption DEF ValidFederateOptions
<1>2. p \in Nat /\ W * p <= t /\ t < W * p + W
  BY <1>1
<1>3. q \in Nat /\ W * q <= u /\ u < W * q + W
  BY <1>1
<1>4. ASSUME q < p PROVE FALSE
  <2>1. q + 1 <= p BY <1>2, <1>3, <1>4
  <2>2. W * (q + 1) <= W * p BY <2>1, <1>1, <1>2, <1>3
  <2>3. W * (q + 1) = W * q + W BY <1>1, <1>3
  <2> QED BY <2>2, <2>3, <1>1, <1>2, <1>3
<1> QED BY <1>2, <1>3, <1>4 DEF WindowFor

\* The window of the coordinator's clock is one of the model's.
Current == WindowFor(now)
LEMMA CurrentInRange == ASSUME now \in 0..MaxTime PROVE Current \in Windows /\ Current \in Nat
<1>1. now \in Nat /\ MaxTime + MaxSkew \in Nat /\ now <= MaxTime + MaxSkew
  BY FederationAssumption
<1> QED BY <1>1, WindowNat, WindowMonotone DEF Current, Windows

\* What a deployment may be.
LEMMA Deployed ==
    ASSUME opt \in Deployments
    PROVE  /\ opt.skew \in [Procs -> 0..MaxSkew] /\ opt.mode \in {"fail-closed", "regional-only"}
           /\ opt.l2 \in BOOLEAN
BY FederationAssumption DEF ValidFederateOptions

LEMMA Options == /\ Limit \in Nat \ {0} /\ Batch \in Nat \ {0} /\ WindowMs \in Nat \ {0}
                 /\ MaxSkew \in Nat /\ MaxTime \in Nat /\ NoSlot \notin Slots
                 /\ \A c \in Callers : c[1] \in Procs /\ c[2] \in Reqs /\ c[3] \in Nat
BY FederationAssumption DEF ValidFederateOptions

----------------------------------------------------------------------------
(* Typing of the pieces a step writes *)

LEMMA LocalNat == ASSUME TypeOK, NEW p \in Procs PROVE LocalWindow(p) \in Nat
<1>1. opt.skew[p] \in Nat /\ now \in Nat
  BY Deployed, Options DEF TypeOK
<1> QED BY <1>1, WindowNat DEF LocalWindow

LEMMA RecordTyped ==
    ASSUME NEW h \in BOOLEAN, NEW b \in Nat, NEW w \in Nat, NEW v \in Int
    PROVE  [has |-> h, balance |-> b, win |-> w, pending |-> NoSlot, pendingWin |-> w, lastRec |-> v] \in EntryType
BY DEF EntryType

LEMMA AdvanceTyped ==
    ASSUME NEW e \in EntryType, NEW w \in Nat PROVE Advance(e, w) \in EntryType
<1>1. FreshEntry(w) \in EntryType
  <2>1. NoEntry = [has |-> FALSE, balance |-> 0, win |-> 0, pending |-> NoSlot, pendingWin |-> 0, lastRec |-> -1]
    BY DEF NoEntry
  <2>2. FreshEntry(w) = [[[NoEntry EXCEPT !.has = TRUE] EXCEPT !.win = w] EXCEPT !.pendingWin = w]
    BY Zenon DEF FreshEntry
  <2>3. FreshEntry(w) =
           [has |-> TRUE, balance |-> 0, win |-> w, pending |-> NoSlot, pendingWin |-> w, lastRec |-> -1]
    BY <2>1, <2>2
  <2>4. -1 \in Int /\ 0 \in Nat /\ TRUE \in BOOLEAN
    OBVIOUS
  <2> QED BY <2>3, <2>4, RecordTyped, Zenon
<1>2. Rolled(e, w) \in EntryType
  <2>1. \A v \in Int : [e EXCEPT !.balance = 0, !.win = w, !.pending = NoSlot, !.pendingWin = w, !.lastRec = v]
                          \in EntryType
    BY DEF EntryType
  <2>2. e.win \in Int
    BY DEF EntryType
  <2> QED BY <2>1, <2>2 DEF Rolled
<1> QED BY <1>1, <1>2 DEF Advance

LEMMA RollJobsTyped ==
    ASSUME NEW e \in EntryType, NEW w \in Nat PROVE RollJobs(e, w) \subseteq JobType
BY DEF RollJobs, EntryType, JobType

LEMMA SmallerNat == \A a, b \in Nat : Smaller(a, b) \in Nat /\ Smaller(a, b) <= a /\ Smaller(a, b) <= b
BY DEF Smaller

LEMMA LargerNat == \A a, b \in Nat : Larger(a, b) \in Nat /\ Larger(a, b) >= a /\ Larger(a, b) >= b
BY DEF Larger

LEMMA EscrowTyped ==
    ASSUME TypeOK, NEW p \in Procs
    PROVE  Escrow(RegionOf[p]) \in EscrowType /\ Escrow(RegionOf[p]).balance \in Nat
BY DEF TypeOK, Escrow, EmptyEscrow, EscrowType

\* A count of a window that goes up stays one.
LEMMA AddTyped ==
    ASSUME NEW f \in [Windows -> Nat], NEW w, NEW k \in Nat
    PROVE  [f EXCEPT ![w] = @ + k] \in [Windows -> Nat]
<1>1. CASE w \in Windows
  BY <1>1
<1>2. CASE w \notin Windows
  <2>1. [f EXCEPT ![w] = @ + k] = f
    BY <1>2
  <2> QED BY <2>1
<1> QED BY <1>1, <1>2

\* What the loop of a check writes, from an entry and a check that are well formed; a check
\* that waits for a lease knows which.
AwaitsSlot == \A p \in Procs, r \in Reqs : check[p][r].st = "await" => check[p][r].slot \in Slots
TypeInv == TypeOK /\ AwaitsSlot
Owned == /\ AwaitsSlot
         /\ entry \in [Procs -> EntryType]
         /\ lease \in [Procs -> [Slots -> LeaseType]]
         /\ check \in [Procs -> [Reqs -> CheckType]]
         /\ admitted \in Nat /\ prompt \in [Windows -> Nat]

LEMMA DenyTyped ==
    ASSUME TypeInv, NEW p \in Procs, NEW r \in Reqs, NEW e \in EntryType, Deny(p, r, e)
    PROVE  Owned'
BY DEF TypeInv, TypeOK, Owned, AwaitsSlot, Deny, IdleCheck, CheckType

LEMMA AskTyped ==
    ASSUME TypeInv, NEW p \in Procs, NEW r \in Reqs, NEW c \in CheckType, NEW e \in EntryType, NEW up,
           AskCoordinator(p, r, c, e, up)
    PROVE  Owned'
<1>1. CASE Deny(p, r, e)
  BY <1>1, DenyTyped
<1>2. ASSUME e.pending # NoSlot, entry' = [entry EXCEPT ![p] = e],
             Await(p, r, c, e.pending, e.pendingWin), UNCHANGED <<lease, admitted, prompt>>
      PROVE  Owned'
  <2>1. [c EXCEPT !.st = "await", !.slot = e.pending, !.leaseWin = e.pendingWin, !.got = 0] \in CheckType
    BY DEF CheckType, EntryType
  <2>2. e.pending \in Slots
    BY <1>2 DEF EntryType
  <2> QED BY <1>2, <2>1, <2>2 DEF TypeInv, TypeOK, Owned, AwaitsSlot, Await, CheckType
<1>3. ASSUME NEW s \in Slots,
             lease' = [lease EXCEPT ![p][s] = [FreeLease EXCEPT !.st = "asked", !.tokens = Larger(Batch, c.cost),
                                                                !.win = e.win, !.at = now]],
             entry' = [entry EXCEPT ![p] = [e EXCEPT !.pending = s, !.pendingWin = e.win]],
             Await(p, r, c, s, e.win), UNCHANGED <<admitted, prompt>>
      PROVE  Owned'
  <2>1. Larger(Batch, c.cost) \in Nat /\ e.win \in Nat /\ now \in Nat
    <3>1. c.cost \in Nat /\ e.win \in Nat
      BY DEF CheckType, EntryType
    <3>2. now \in Nat
      BY Options DEF TypeInv, TypeOK
    <3> QED BY <3>1, <3>2, LargerNat, Options
  <2>2. [FreeLease EXCEPT !.st = "asked", !.tokens = Larger(Batch, c.cost), !.win = e.win, !.at = now] \in LeaseType
    BY <2>1 DEF FreeLease, LeaseType
  <2>3. [e EXCEPT !.pending = s, !.pendingWin = e.win] \in EntryType
    BY <2>1 DEF EntryType
  <2>4. [c EXCEPT !.st = "await", !.slot = s, !.leaseWin = e.win, !.got = 0] \in CheckType
    BY <2>1 DEF CheckType
  <2> QED BY <1>3, <2>2, <2>3, <2>4 DEF TypeInv, TypeOK, Owned, AwaitsSlot, Await, CheckType
<1>4. FreeSlots(p) # {} => (CHOOSE x \in FreeSlots(p) : TRUE) \in Slots
  BY DEF FreeSlots
<1> QED BY <1>1, <1>2, <1>3, <1>4 DEF AskCoordinator

LEMMA LoopTyped ==
    ASSUME TypeInv, NEW p \in Procs, NEW r \in Reqs, NEW c \in CheckType, NEW e \in EntryType, NEW up,
           Loop(p, r, c, e, up)
    PROVE  Owned'
<1>1. CASE Admit(p, r, c, e)
  <2>1. c.cost \in Nat /\ e.balance \in Nat /\ e.balance - c.cost \in Nat
    BY <1>1 DEF CheckType, EntryType, Admit
  <2>2. [e EXCEPT !.balance = @ - c.cost] \in EntryType /\ IdleCheck \in CheckType
    BY <2>1 DEF EntryType, CheckType, IdleCheck
  <2>3. prompt \in [Windows -> Nat]
    BY DEF TypeInv, TypeOK
  <2>4. prompt' \in [Windows -> Nat]
    <3>1. ASSUME NEW w, NEW k \in Nat PROVE [prompt EXCEPT ![w] = @ + k] \in [Windows -> Nat]
      BY <2>3, AddTyped
    <3>2. (IF c.win = LocalWindow(p) THEN c.cost ELSE 0) \in Nat
      BY <2>1
    <3> QED BY <1>1, <3>1, <3>2, Zenon DEF Admit
  <2> QED BY <1>1, <2>1, <2>2, <2>4 DEF TypeInv, TypeOK, Owned, AwaitsSlot, Admit, IdleCheck
<1>2. CASE AskEscrow(p, r, c, e)
  <2>1. Larger(Batch, c.cost) - e.balance \in Nat
    BY <1>2, LargerNat, Options DEF CheckType, EntryType, AskEscrow
  <2>2. [c EXCEPT !.st = "l2", !.got = Larger(Batch, c.cost) - e.balance] \in CheckType
    BY <2>1 DEF CheckType
  <2> QED BY <1>2, <2>2 DEF TypeInv, TypeOK, Owned, AwaitsSlot, AskEscrow, CheckType
<1>3. CASE AskCoordinator(p, r, c, e, up)
  BY <1>3, AskTyped
<1> QED BY <1>1, <1>2, <1>3 DEF Loop

LEMMA EnterTyped ==
    ASSUME TypeInv, NEW p \in Procs, NEW r \in Reqs, NEW c \in CheckType, NEW up, Enter(p, r, c, up)
    PROVE  Owned' /\ jobs' \in [Procs -> SUBSET JobType]
<1>1. entry[p] \in EntryType /\ c.win \in Nat /\ jobs[p] \subseteq JobType
  BY DEF TypeInv, TypeOK, CheckType
<1>2. Owned'
  BY <1>1, AdvanceTyped, LoopTyped DEF Enter
<1>3. jobs[p] \cup RollJobs(entry[p], c.win) \subseteq JobType
  BY <1>1, RollJobsTyped
<1> QED BY <1>2, <1>3 DEF Enter, TypeInv, TypeOK

LEMMA BeginTyped ==
    ASSUME TypeInv, NEW p \in Procs, NEW r \in Reqs, NEW cost \in Nat, Begin(p, r, cost)
    PROVE  Owned' /\ jobs' \in [Procs -> SUBSET JobType]
<1> DEFINE c == [IdleCheck EXCEPT !.st = "probe", !.cost = cost, !.win = LocalWindow(p)]
<1>1. c \in CheckType
  <2>1. LocalWindow(p) \in Nat
    BY LocalNat DEF TypeInv
  <2> QED BY <2>1 DEF IdleCheck, CheckType
<1>2. CASE Enter(p, r, c, healthy[p])
  BY <1>1, <1>2, EnterTyped
<1>3. CASE check' = [check EXCEPT ![p][r] = c] /\ UNCHANGED <<entry, lease, jobs, admitted, prompt>>
  BY <1>1, <1>3 DEF TypeInv, TypeOK, Owned, AwaitsSlot, IdleCheck, CheckType
<1> QED BY <1>2, <1>3 DEF Begin

----------------------------------------------------------------------------
(* TypeOK *)

LEMMA TypeInit == Init => TypeInv
<1> SUFFICES ASSUME Init PROVE TypeInv
  OBVIOUS
<1>1. NoEntry \in EntryType
  <2>1. -1 \in Int /\ 0 \in Nat /\ FALSE \in BOOLEAN
    OBVIOUS
  <2> QED BY <2>1, RecordTyped, Zenon DEF NoEntry
<1>2. FreeLease \in LeaseType /\ IdleCheck \in CheckType /\ EmptyEscrow \in EscrowType
  BY DEF FreeLease, LeaseType, IdleCheck, CheckType, EmptyEscrow, EscrowType
<1>3. NoBudget \in RowType
  <2>1. -1 \in Int /\ 0 \in 0..Limit
    BY Options
  <2> QED BY <2>1, Zenon DEF NoBudget, RowType
<1>4. now \in 0..MaxTime /\ opt \in Deployments
  BY Options DEF Init
<1> QED BY <1>1, <1>2, <1>3, <1>4 DEF Init, TypeInv, TypeOK, AwaitsSlot, IdleCheck

\* The steps of a check leave everything but what they own as typed as it was.
LEMMA CheckTyped ==
    ASSUME TypeInv, Owned', jobs' \in [Procs -> SUBSET JobType], healthy' \in [Procs -> BOOLEAN],
           calls' \in Nat,
           l2' \in [{RegionOf[p] : p \in Procs} -> EscrowType],
           UNCHANGED <<now, opt, l3, resets, granted, returned>>
    PROVE  TypeInv'
BY DEF TypeInv, TypeOK, Owned

LEMMA CallTyped ==
    ASSUME TypeInv, NEW c \in Callers, Call(c[1], c[2], c[3])
    PROVE  TypeInv'
<1>1. c[1] \in Procs /\ c[2] \in Reqs /\ c[3] \in Nat
  BY Options
<1>2. Owned' /\ jobs' \in [Procs -> SUBSET JobType]
  BY <1>1, BeginTyped DEF Call
<1>3. calls' \in Nat /\ healthy' = healthy /\ l2' = l2
  BY DEF Call, TypeInv, TypeOK
<1> QED BY <1>2, <1>3, CheckTyped DEF Call, TypeInv, TypeOK

LEMMA ProbedTyped ==
    ASSUME TypeInv, NEW p \in Procs, NEW r \in Reqs, Probed(p, r)
    PROVE  TypeInv'
<1>1. PICK up \in {healthy[p], TRUE} : healthy' = [healthy EXCEPT ![p] = up] /\ Enter(p, r, check[p][r], up)
  BY DEF Probed
<1>2. check[p][r] \in CheckType /\ up \in BOOLEAN
  BY DEF TypeInv, TypeOK
<1>3. Owned' /\ jobs' \in [Procs -> SUBSET JobType]
  BY <1>1, <1>2, EnterTyped
<1>4. healthy' \in [Procs -> BOOLEAN] /\ calls' = calls /\ l2' = l2
  BY <1>1, <1>2 DEF TypeInv, TypeOK, Probed
<1> QED BY <1>3, <1>4, CheckTyped DEF Probed, TypeInv, TypeOK

LEMMA EscrowLeaseTyped ==
    ASSUME TypeInv, NEW p \in Procs, NEW r \in Reqs, EscrowLease(p, r)
    PROVE  TypeInv'
<1> DEFINE g == RegionOf[p]
           e == Escrow(g)
           got == Smaller(check[p][r].got, e.balance)
<1>1. e \in EscrowType /\ check[p][r] \in CheckType /\ got \in Nat /\ got <= e.balance
  <2>1. e \in EscrowType /\ e.balance \in Nat
    BY EscrowTyped DEF TypeInv
  <2>2. check[p][r] \in CheckType /\ check[p][r].got \in Nat
    BY DEF TypeInv, TypeOK, CheckType
  <2> QED BY <2>1, <2>2, SmallerNat
<1>2. [e EXCEPT !.balance = @ - got] \in EscrowType
  BY <1>1 DEF EscrowType
<1>3. [l2 EXCEPT ![g] = [e EXCEPT !.balance = @ - got]] \in [{RegionOf[q] : q \in Procs} -> EscrowType]
  BY <1>2 DEF TypeInv, TypeOK
<1>4. l2' \in [{RegionOf[q] : q \in Procs} -> EscrowType]
  BY <1>3 DEF EscrowLease, TypeInv, TypeOK
<1>5. ASSUME NEW n \in Nat, check' = [check EXCEPT ![p][r].st = "l2done", ![p][r].got = n]
      PROVE  check' \in [Procs -> [Reqs -> CheckType]] /\ AwaitsSlot'
  <2> DEFINE d == [check[p][r] EXCEPT !.st = "l2done", !.got = n]
  <2>1. d \in CheckType /\ d.st = "l2done"
    BY <1>1 DEF CheckType
  <2>2. check' = [check EXCEPT ![p][r] = d]
    BY <1>5 DEF TypeInv, TypeOK
  <2> QED BY <2>1, <2>2 DEF TypeInv, TypeOK, AwaitsSlot
<1>6. check' \in [Procs -> [Reqs -> CheckType]] /\ AwaitsSlot'
  <2>1. 0 \in Nat
    OBVIOUS
  <2> QED BY <1>1, <1>5, <2>1 DEF EscrowLease
<1>7. Owned' /\ jobs' = jobs /\ healthy' = healthy /\ calls' = calls
  BY <1>6 DEF EscrowLease, TypeInv, TypeOK, Owned
<1> QED BY <1>4, <1>7, CheckTyped DEF EscrowLease, TypeInv, TypeOK

LEMMA EscrowAnswersTyped ==
    ASSUME TypeInv, NEW p \in Procs, NEW r \in Reqs, EscrowAnswers(p, r)
    PROVE  TypeInv'
<1> DEFINE c == check[p][r]
           e == entry[p]
<1>1. c \in CheckType /\ e \in EntryType /\ c.cost \in Nat
  BY DEF TypeInv, TypeOK, CheckType
<1>2. [e EXCEPT !.balance = @ + c.got] \in EntryType
  BY <1>1 DEF EntryType, CheckType
<1>3. Owned' /\ jobs' \in [Procs -> SUBSET JobType]
  <2>1. CASE Begin(p, r, c.cost)
    BY <1>1, <2>1, BeginTyped
  <2>2. CASE Loop(p, r, c, [e EXCEPT !.balance = @ + c.got], healthy[p]) /\ UNCHANGED jobs
    BY <1>1, <1>2, <2>2, LoopTyped DEF TypeInv, TypeOK
  <2>3. CASE AskCoordinator(p, r, c, e, healthy[p]) /\ UNCHANGED jobs
    BY <1>1, <2>3, AskTyped DEF TypeInv, TypeOK
  <2> QED BY <2>1, <2>2, <2>3 DEF EscrowAnswers
<1> QED BY <1>3, CheckTyped DEF EscrowAnswers, TypeInv, TypeOK

LEMMA ClearTyped == \A e \in EntryType : \A s : ClearPending(e, s) \in EntryType
BY DEF ClearPending, EntryType

LEMMA ResumeTyped ==
    ASSUME TypeInv, NEW p \in Procs, NEW r \in Reqs, Resume(p, r)
    PROVE  TypeInv'
<1> DEFINE c == check[p][r]
           s == c.slot
           e == ClearPending(entry[p], s)
           grant == lease[p][s].grant
           job == [st |-> "reconcile", left |-> grant, win |-> c.leaseWin]
<1>1. c \in CheckType /\ e \in EntryType /\ c.cost \in Nat /\ grant \in Nat /\ c.leaseWin \in Nat
  <2>1. c \in CheckType /\ entry[p] \in EntryType /\ s \in Slots
    BY DEF TypeInv, TypeOK, AwaitsSlot, Resume
  <2>2. lease[p][s] \in LeaseType
    BY <2>1 DEF TypeInv, TypeOK
  <2> QED BY <2>1, <2>2, ClearTyped DEF CheckType, LeaseType
<1>2. [e EXCEPT !.balance = @ + grant] \in EntryType
  BY <1>1 DEF EntryType
<1>3. job \in JobType
  BY <1>1 DEF JobType
<1>4. jobs[p] \cup {job} \subseteq JobType
  BY SMTT(60), <1>3 DEF TypeInv, TypeOK
<1>5. Owned' /\ jobs' \in [Procs -> SUBSET JobType]
  <2>1. CASE Begin(p, r, c.cost)
    BY <1>1, <2>1, BeginTyped
  <2>2. CASE Loop(p, r, c, e, healthy[p]) /\ jobs' = [jobs EXCEPT ![p] = @ \cup {job}]
    BY <1>1, <1>4, <2>2, LoopTyped DEF TypeInv, TypeOK
  <2>3. CASE Loop(p, r, c, [e EXCEPT !.balance = @ + grant], healthy[p]) /\ UNCHANGED jobs
    BY <1>1, <1>2, <2>3, LoopTyped DEF TypeInv, TypeOK
  <2>4. CASE Deny(p, r, e) /\ UNCHANGED jobs
    BY <1>1, <2>4, DenyTyped DEF TypeInv, TypeOK
  <2> QED BY <2>1, <2>2, <2>3, <2>4 DEF Resume
<1> QED BY <1>5, CheckTyped DEF Resume, TypeInv, TypeOK

\* The steps of a lease.
LeaseStates == {"free", "asked", "granted", "refill", "back", "leased", "settled"}

LEMMA LeaseUpdated ==
    ASSUME TypeInv, NEW p \in Procs, NEW s \in Slots, NEW x \in LeaseStates, NEW n \in Nat
    PROVE  /\ [lease EXCEPT ![p][s].st = x] \in [Procs -> [Slots -> LeaseType]]
           /\ [lease EXCEPT ![p][s].st = x, ![p][s].grant = n] \in [Procs -> [Slots -> LeaseType]]
<1> DEFINE c == lease[p][s]
           d == [c EXCEPT !.st = x]
           e == [c EXCEPT !.st = x, !.grant = n]
<1>1. lease \in [Procs -> [Slots -> LeaseType]] /\ c \in LeaseType
  BY DEF TypeInv, TypeOK
<1>2. d \in LeaseType /\ e \in LeaseType
  BY <1>1 DEF LeaseType, LeaseStates
<1>3. [lease EXCEPT ![p][s].st = x] = [lease EXCEPT ![p][s] = d]
  BY <1>1
<1>4. [lease EXCEPT ![p][s].st = x, ![p][s].grant = n] = [lease EXCEPT ![p][s] = e]
  <2> DEFINE f == [lease EXCEPT ![p][s] = d]
  <2>1. f \in [Procs -> [Slots -> LeaseType]] /\ f[p][s] = d
    BY <1>1, <1>2
  <2>2. [lease EXCEPT ![p][s].st = x, ![p][s].grant = n] = [f EXCEPT ![p][s].grant = n]
    BY <1>1
  <2>3. [f EXCEPT ![p][s].grant = n] = [lease EXCEPT ![p][s] = [d EXCEPT !.grant = n]]
    BY <1>1, <2>1
  <2>4. [d EXCEPT !.grant = n] = e
    BY <1>1 DEF LeaseType
  <2> QED BY <2>2, <2>3, <2>4
<1>5. \A v \in LeaseType : [lease EXCEPT ![p][s] = v] \in [Procs -> [Slots -> LeaseType]]
  BY <1>1
<1> QED BY <1>2, <1>3, <1>4, <1>5
LEMMA CoordinatorLeaseTyped ==
    ASSUME TypeInv, NEW p \in Procs, NEW s \in Slots, CoordinatorLease(p, s)
    PROVE  TypeInv'
<1> DEFINE c == lease[p][s]
<1>1. PICK t \in (IF LateClock THEN c.at ELSE now)..now :
         LET w == WindowFor(t)
             row == RowAt(w)
             g == GrantOf(row, c.tokens)
         IN  /\ l3' = [row EXCEPT !.budget = @ - g]
             /\ granted' = [granted EXCEPT ![w] = @ + g]
             /\ lease' = [lease EXCEPT ![p][s].st = "granted", ![p][s].grant = g]
  BY DEF CoordinatorLease
<1> DEFINE w == WindowFor(t)
           row == RowAt(w)
           g == GrantOf(row, c.tokens)
<1>2. c \in LeaseType /\ c.at \in Nat /\ c.tokens \in Nat /\ now \in Nat
  <2>1. c \in LeaseType
    BY DEF TypeInv, TypeOK
  <2> QED BY <2>1, Options DEF LeaseType, TypeInv, TypeOK
<1>3. t \in Nat
  BY <1>2
<1>4. w \in Nat
  BY <1>3, WindowNat
<1>5. row \in RowType /\ row.budget \in 0..Limit /\ row.budget \in Nat
  <2>1. [win |-> w, budget |-> Limit, rec |-> {}] \in RowType
    BY <1>4, Options DEF RowType
  <2>2. row \in RowType
    BY <2>1 DEF RowAt, TypeInv, TypeOK
  <2> QED BY <2>2, Options DEF RowType
<1>6. g \in Nat /\ g <= row.budget
  BY <1>2, <1>5, SmallerNat DEF GrantOf
<1> HIDE DEF g, row, w
<1>7. l3' = [row EXCEPT !.budget = @ - g] /\ granted' = [granted EXCEPT ![w] = @ + g]
      /\ lease' = [lease EXCEPT ![p][s].st = "granted", ![p][s].grant = g]
  BY <1>1 DEF g, row, w
<1>8. l3' \in RowType
  <2>1. row.budget - g \in 0..Limit
    BY <1>5, <1>6, Options
  <2> QED BY <1>5, <1>7, <2>1 DEF RowType
<1>9. granted' \in [Windows -> Nat]
  BY <1>6, <1>7, AddTyped DEF TypeInv, TypeOK
<1>10. lease' \in [Procs -> [Slots -> LeaseType]]
  BY ZenonT(60), <1>6, <1>7, LeaseUpdated DEF LeaseStates
<1> QED BY <1>8, <1>9, <1>10 DEF CoordinatorLease, TypeInv, TypeOK, AwaitsSlot

LEMMA LeaseStepTyped ==
    ASSUME TypeInv, NEW p \in Procs, NEW s \in Slots, LeaseStep(p, s)
    PROVE  TypeInv'
<1> DEFINE c == lease[p][s]
           g == RegionOf[p]
<1>1. c \in LeaseType /\ c.win \in Nat /\ c.grant \in Nat /\ c.tokens \in Nat
  <2>1. c \in LeaseType
    BY DEF TypeInv, TypeOK
  <2> QED BY <2>1 DEF LeaseType
<1>2. Escrow(g) \in EscrowType /\ Escrow(g).balance \in Nat
  BY EscrowTyped DEF TypeInv
<1>3. Refilled(Escrow(g), c.grant, c.win) \in EscrowType
  BY <1>1, <1>2 DEF Refilled, EscrowType
<1>4. CASE CoordinatorLease(p, s)
  BY <1>4, CoordinatorLeaseTyped
<1>5. CASE LeaseAnswers(p, s)
  <2>1. lease' \in [Procs -> [Slots -> LeaseType]]
    <3>1. 0 \in Nat
      OBVIOUS
    <3> QED BY ZenonT(60), <1>5, <3>1, LeaseUpdated DEF LeaseAnswers, LeaseStates
  <2> QED BY <1>5, <2>1 DEF LeaseAnswers, TypeInv, TypeOK, AwaitsSlot
<1>6. CASE LeaseFails(p, s)
  <2>1. lease' \in [Procs -> [Slots -> LeaseType]]
    <3>1. 0 \in Nat
      OBVIOUS
    <3> QED BY ZenonT(60), <1>6, <3>1, LeaseUpdated DEF LeaseFails, LeaseStates
  <2>2. (~RegionalOnly /\ healthy[p]) \in BOOLEAN
    OBVIOUS
  <2> QED BY <1>6, <2>1, <2>2 DEF LeaseFails, TypeInv, TypeOK, AwaitsSlot
<1>7. CASE PushToEscrow(p, s)
  <2>1. lease' \in [Procs -> [Slots -> LeaseType]]
    <3>1. 0 \in Nat
      OBVIOUS
    <3> QED BY <1>7, <3>1, LeaseUpdated DEF PushToEscrow, LeaseStates
  <2>2. l2' \in [{RegionOf[q] : q \in Procs} -> EscrowType]
    BY <1>2, <1>3, <1>7 DEF PushToEscrow, TypeInv, TypeOK
  <2> QED BY SMTT(30), <1>7, <2>1, <2>2 DEF PushToEscrow, TypeInv, TypeOK, AwaitsSlot
<1>8. CASE LeaseBack(p, s)
  <2> DEFINE got == Smaller(c.tokens, Escrow(g).balance)
  <2>1. got \in Nat /\ got <= Escrow(g).balance
    BY <1>1, <1>2, SmallerNat
  <2>2. [Escrow(g) EXCEPT !.balance = @ - got] \in EscrowType
    BY <1>2, <2>1 DEF EscrowType
  <2>3. l2' \in [{RegionOf[q] : q \in Procs} -> EscrowType]
    BY <1>8, <2>2 DEF LeaseBack, TypeInv, TypeOK
  <2> HIDE DEF got
  <2>4. lease' = [lease EXCEPT ![p][s].st = "settled", ![p][s].grant = got]
    BY <1>8 DEF LeaseBack, got
  <2>5. lease' \in [Procs -> [Slots -> LeaseType]]
    BY ZenonT(60), <2>1, <2>4, LeaseUpdated DEF LeaseStates
  <2> QED BY <1>8, <2>3, <2>5 DEF LeaseBack, TypeInv, TypeOK, AwaitsSlot
<1>9. CASE PushFails(p, s)
  <2>1. lease' \in [Procs -> [Slots -> LeaseType]]
    <3>1. 0 \in Nat
      OBVIOUS
    <3> QED BY <1>9, <3>1, LeaseUpdated DEF PushFails, LeaseStates
  <2>2. l2' \in [{RegionOf[q] : q \in Procs} -> EscrowType]
    BY <1>3, <1>9 DEF PushFails, TypeInv, TypeOK
  <2> QED BY SMTT(30), <1>9, <2>1, <2>2 DEF PushFails, TypeInv, TypeOK, AwaitsSlot
<1>10. CASE Collect(p, s)
  <2>1. lease' \in [Procs -> [Slots -> LeaseType]]
    BY <1>10 DEF Collect, TypeInv, TypeOK, LeaseType, FreeLease
  <2> QED BY <1>10, <2>1 DEF Collect, TypeInv, TypeOK, AwaitsSlot
<1> QED BY <1>4, <1>5, <1>6, <1>7, <1>8, <1>9, <1>10 DEF LeaseStep

\* Handing escrow back.
LEMMA JobTyped ==
    ASSUME TypeInv, NEW p \in Procs, NEW j \in jobs[p], Release(p, j) \/ Reconcile(p, j) \/ JobLost(p, j)
    PROVE  TypeInv'
<1> DEFINE g == RegionOf[p]
<1>1. j \in JobType /\ j.left \in Nat /\ j.win \in Nat /\ jobs[p] \subseteq JobType
  <2>1. jobs[p] \subseteq JobType
    BY DEF TypeInv, TypeOK
  <2> QED BY <2>1 DEF JobType
<1>2. Escrow(g) \in EscrowType /\ Escrow(g).balance \in Nat
  BY EscrowTyped DEF TypeInv
<1>3. CASE Release(p, j)
  <2> DEFINE left == j.left + IF Escrow(g).has /\ Escrow(g).src = j.win THEN Escrow(g).balance ELSE 0
             next == IF left > 0 THEN {[st |-> "reconcile", left |-> left, win |-> j.win]} ELSE {}
  <2>1. left \in Nat
    BY <1>1, <1>2
  <2> HIDE DEF left
  <2>2. (jobs[p] \ {j}) \cup next \subseteq JobType
    BY <1>1, <2>1 DEF JobType
  <2>3. jobs' = [jobs EXCEPT ![p] = (@ \ {j}) \cup next]
    BY <1>3 DEF Release, left
  <2> HIDE DEF next
  <2>4. jobs' \in [Procs -> SUBSET JobType]
    BY <2>2, <2>3 DEF TypeInv, TypeOK
  <2>5. EmptyEscrow \in EscrowType
    BY DEF EmptyEscrow, EscrowType
  <2>6. l2' \in [{RegionOf[q] : q \in Procs} -> EscrowType]
    BY <1>3, <2>5 DEF Release, TypeInv, TypeOK
  <2> QED BY <1>3, <2>4, <2>6 DEF Release, TypeInv, TypeOK, AwaitsSlot
<1>4. CASE Reconcile(p, j)
  <2> DEFINE w == WindowFor(now)
             row == RowAt(w)
             credits == CreditsBack(row, j.left, j.win)
             k == IF credits THEN Smaller(Limit - row.budget, j.left) ELSE 0
  <2>1. w \in Nat
    BY WindowNat, Options DEF TypeInv, TypeOK
  <2>2. row \in RowType /\ row.budget \in 0..Limit
    <3>1. [win |-> w, budget |-> Limit, rec |-> {}] \in RowType
      BY <2>1, Options DEF RowType
    <3>2. row \in RowType
      BY <3>1 DEF RowAt, TypeInv, TypeOK
    <3> QED BY <3>2 DEF RowType
  <2> HIDE DEF row, w
  <2>3. k \in Nat
    BY <1>1, <2>2, SmallerNat, Options
  <2>4. Reconciled(row, j.left, j.win) \in RowType
    <3>1. Smaller(Limit, row.budget + j.left) \in 0..Limit
      BY <1>1, <2>2, SmallerNat, Options
    <3>2. row.rec \cup {j.win} \in SUBSET Nat
      BY <1>1, <2>2 DEF RowType
    <3> QED BY <2>2, <3>1, <3>2 DEF Reconciled, RowType
  <2>5. /\ l3' = IF credits THEN Reconciled(row, j.left, j.win) ELSE l3
        /\ returned' = [returned EXCEPT ![w] = @ + k]
        /\ jobs' = [jobs EXCEPT ![p] = @ \ {j}]
    BY <1>4 DEF Reconcile, row, w
  <2> HIDE DEF k, credits
  <2>6. returned' \in [Windows -> Nat]
    BY <2>3, <2>5, AddTyped DEF TypeInv, TypeOK
  <2>7. l3' \in RowType /\ jobs' \in [Procs -> SUBSET JobType]
    BY <2>4, <2>5 DEF TypeInv, TypeOK
  <2> QED BY <1>4, <2>6, <2>7 DEF Reconcile, TypeInv, TypeOK, AwaitsSlot
<1>5. CASE JobLost(p, j)
  BY <1>5 DEF JobLost, TypeInv, TypeOK, AwaitsSlot
<1> QED BY <1>3, <1>4, <1>5

LEMMA TypeStep == TypeInv /\ [Next]_vars => TypeInv'
<1> SUFFICES ASSUME TypeInv, [Next]_vars PROVE TypeInv'
  OBVIOUS
<1>1. ASSUME NEW p \in Procs, NEW r \in Reqs, CheckStep(p, r) PROVE TypeInv'
  BY <1>1, ProbedTyped, EscrowLeaseTyped, EscrowAnswersTyped, ResumeTyped DEF CheckStep
<1>2. ASSUME NEW c \in Callers, Call(c[1], c[2], c[3]) PROVE TypeInv'
  BY <1>2, CallTyped
<1>3. ASSUME NEW p \in Procs, NEW s \in Slots, LeaseStep(p, s) PROVE TypeInv'
  BY <1>3, LeaseStepTyped
<1>4. ASSUME NEW p \in Procs, NEW j \in jobs[p], Release(p, j) \/ Reconcile(p, j) \/ JobLost(p, j) PROVE TypeInv'
  BY <1>4, JobTyped
<1>5. ASSUME NEW p \in Procs, Reset(p) PROVE TypeInv'
  <2>1. NoEntry \in EntryType
    <3>1. -1 \in Int /\ 0 \in Nat /\ FALSE \in BOOLEAN
      OBVIOUS
    <3> QED BY <3>1, RecordTyped, Zenon DEF NoEntry
  <2> QED BY <1>5, <2>1 DEF Reset, TypeInv, TypeOK, AwaitsSlot
<1>6. CASE Tick
  BY <1>6, Options DEF Tick, TypeInv, TypeOK, AwaitsSlot
<1>7. CASE UNCHANGED vars
  BY <1>7 DEF vars, TypeInv, TypeOK, AwaitsSlot
<1> QED BY <1>1, <1>2, <1>3, <1>4, <1>5, <1>6, <1>7 DEF Next

\* TypeOK, for any number of processes and every deployment: no escrow, grant or budget goes
\* negative, although a check goes on from what it read before its awaits (window-coupled.ts, check).
THEOREM FederationTypeCorrect == Spec => []TypeOK
<1>1. TypeInv => TypeOK
  BY DEF TypeInv
<1> QED BY <1>1, TypeInit, TypeStep, PTL DEF Spec

----------------------------------------------------------------------------
(* The budget of the coordinator *)

\* The row accounts for its window: what is out of the budget was granted and not returned; the
\* windows after it are untouched, those before it are closed.
RowInv ==
    /\ l3.win <= Current
    /\ \A w \in Windows :
          /\ w > l3.win => granted[w] = 0 /\ returned[w] = 0
          /\ w = l3.win => granted[w] - returned[w] = Limit - l3.budget
          /\ granted[w] - returned[w] <= Limit

\* The steps that leave the row and its histories alone.
LEMMA RowKept ==
    ASSUME TypeInv, RowInv, UNCHANGED <<now, l3, granted, returned>>
    PROVE  RowInv'
BY DEF RowInv, Current

\* The row of the current window, rolled if need be, has out what its histories say.
LEMMA RowAccounts ==
    ASSUME TypeInv, RowInv
    PROVE  LET w == Current
               row == RowAt(w)
           IN  /\ w \in Windows /\ w \in Nat /\ row.win = w /\ row.budget \in 0..Limit /\ row \in RowType
               /\ granted[w] \in Nat /\ returned[w] \in Nat
               /\ granted[w] - returned[w] = Limit - row.budget
<1> DEFINE w == Current
<1>1. w \in Windows /\ w \in Nat
  BY CurrentInRange DEF TypeInv, TypeOK
<1>2. granted[w] \in Nat /\ returned[w] \in Nat
  BY <1>1 DEF TypeInv, TypeOK
<1>3. l3 \in RowType /\ l3.win \in Int /\ l3.budget \in 0..Limit
  BY DEF TypeInv, TypeOK, RowType
<1>4. CASE l3.win = w
  BY <1>1, <1>2, <1>3, <1>4 DEF RowAt, RowInv
<1>5. CASE l3.win # w
  <2>1. l3.win < w
    BY <1>1, <1>3, <1>5 DEF RowInv
  <2>2. [win |-> w, budget |-> Limit, rec |-> {}] \in RowType
    BY <1>1, Options DEF RowType
  <2> QED BY <1>1, <1>2, <1>5, <2>1, <2>2, Options DEF RowAt, RowInv
<1> QED BY <1>4, <1>5

\* A lease takes from the row what it grants.
LEMMA RowLease ==
    ASSUME ~LateClock, TypeInv, RowInv, NEW p \in Procs, NEW s \in Slots, CoordinatorLease(p, s)
    PROVE  LET g == GrantOf(RowAt(Current), lease[p][s].tokens)
           IN  /\ RowInv' /\ g \in Nat
               /\ granted' = [granted EXCEPT ![Current] = @ + g]
               /\ lease' = [lease EXCEPT ![p][s].st = "granted", ![p][s].grant = g]
<1> DEFINE w == Current
           row == RowAt(w)
           g == GrantOf(row, lease[p][s].tokens)
<1>0. now \in Nat
  BY Options DEF TypeInv, TypeOK
<1>1. /\ l3' = [row EXCEPT !.budget = @ - g]
      /\ granted' = [granted EXCEPT ![w] = @ + g]
      /\ lease' = [lease EXCEPT ![p][s].st = "granted", ![p][s].grant = g]
      /\ now' = now /\ returned' = returned
  <2>1. PICK t \in now..now :
           LET w1 == WindowFor(t)
               row1 == RowAt(w1)
               g1 == GrantOf(row1, lease[p][s].tokens)
           IN  /\ l3' = [row1 EXCEPT !.budget = @ - g1]
               /\ granted' = [granted EXCEPT ![w1] = @ + g1]
               /\ lease' = [lease EXCEPT ![p][s].st = "granted", ![p][s].grant = g1]
    BY DEF CoordinatorLease
  <2>2. t = now
    BY <1>0
  <2> QED BY <2>1, <2>2, Zenon DEF CoordinatorLease, Current
<1>2. /\ w \in Windows /\ w \in Nat /\ row.win = w /\ row.budget \in 0..Limit /\ row \in RowType
      /\ granted[w] \in Nat /\ returned[w] \in Nat
      /\ granted[w] - returned[w] = Limit - row.budget
  BY RowAccounts
<1>3. g \in Nat /\ g <= row.budget
  <2>1. lease[p][s].tokens \in Nat
    BY DEF TypeInv, TypeOK, LeaseType
  <2>2. row.budget \in Nat
    BY <1>2, Options
  <2> QED BY <2>1, <2>2, SmallerNat DEF GrantOf
<1> HIDE DEF g, row
<1>4. l3'.win = w /\ l3'.budget = row.budget - g
  BY <1>1, <1>2 DEF RowType
<1>5. granted \in [Windows -> Nat] /\ returned \in [Windows -> Nat] /\ l3.win \in Int
  BY DEF TypeInv, TypeOK, RowType
<1>6. ASSUME NEW v \in Windows
      PROVE  /\ v > l3'.win => granted'[v] = 0 /\ returned'[v] = 0
             /\ v = l3'.win => granted'[v] - returned'[v] = Limit - l3'.budget
             /\ granted'[v] - returned'[v] <= Limit
  <2>1. CASE v = w
    BY <1>1, <1>2, <1>3, <1>4, <1>5, <2>1, Options
  <2>2. CASE v # w
    <3>1. granted'[v] = granted[v] /\ returned'[v] = returned[v] /\ v \in Nat
      BY <1>1, <1>5, <2>2 DEF Windows
    <3>2. v > w => v > l3.win
      BY <1>2, <1>5, <3>1 DEF RowInv
    <3> QED BY <1>2, <1>4, <2>2, <3>1, <3>2 DEF RowInv
  <2> QED BY <2>1, <2>2
<1>7. Current' = w
  BY <1>1 DEF Current
<1>8. RowInv'
  BY <1>2, <1>4, <1>6, <1>7 DEF RowInv
<1>9. g = GrantOf(RowAt(Current), lease[p][s].tokens)
  BY DEF g, row
<1> QED BY <1>1, <1>3, <1>8, <1>9

\* A reconcile puts back what it returns.
LEMMA RowReconcile ==
    ASSUME TypeInv, RowInv, NEW p \in Procs, NEW j \in jobs[p], Reconcile(p, j)
    PROVE  RowInv'
<1> DEFINE w == Current
           row == RowAt(w)
           credits == CreditsBack(row, j.left, j.win)
           k == IF credits THEN Smaller(Limit - row.budget, j.left) ELSE 0
<1>1. /\ l3' = IF credits THEN Reconciled(row, j.left, j.win) ELSE l3
      /\ returned' = [returned EXCEPT ![w] = @ + k]
      /\ now' = now /\ granted' = granted
  BY DEF Reconcile, Current
<1>2. /\ w \in Windows /\ w \in Nat /\ row.win = w /\ row.budget \in 0..Limit /\ row \in RowType
      /\ granted[w] \in Nat /\ returned[w] \in Nat
      /\ granted[w] - returned[w] = Limit - row.budget
  BY RowAccounts
<1>3. j.left \in Nat
  BY DEF TypeInv, TypeOK, JobType
<1>4. granted \in [Windows -> Nat] /\ returned \in [Windows -> Nat] /\ l3.win \in Int
  BY DEF TypeInv, TypeOK, RowType
<1>5. Current' = w
  BY <1>1 DEF Current
<1>6. CASE ~credits
  <2>1. k = 0 /\ l3' = l3
    BY <1>1, <1>6
  <2>2. returned' = returned
    BY <1>1, <1>2, <1>4, <2>1
  <2> QED BY <1>1, <2>1, <2>2, RowKept
<1>7. CASE credits
  <2>1. k = Smaller(Limit - row.budget, j.left) /\ l3' = Reconciled(row, j.left, j.win)
    BY <1>1, <1>7
  <2>2. k \in Nat /\ l3'.win = w /\ l3'.budget = row.budget + k
    BY <1>2, <1>3, <2>1, Options DEF Reconciled, Smaller, RowType
  <2> HIDE DEF k, row
  <2>3. ASSUME NEW v \in Windows
        PROVE  /\ v > l3'.win => granted'[v] = 0 /\ returned'[v] = 0
               /\ v = l3'.win => granted'[v] - returned'[v] = Limit - l3'.budget
               /\ granted'[v] - returned'[v] <= Limit
    <3>1. CASE v = w
      BY <1>1, <1>2, <1>4, <2>2, <3>1, Options
    <3>2. CASE v # w
      <4>1. granted'[v] = granted[v] /\ returned'[v] = returned[v] /\ v \in Nat
        BY <1>1, <1>4, <3>2 DEF Windows
      <4>2. v > w => v > l3.win
        BY <1>2, <1>4, <4>1 DEF RowInv
      <4> QED BY <1>2, <2>2, <3>2, <4>1, <4>2 DEF RowInv
    <3> QED BY <3>1, <3>2
  <2> QED BY <1>2, <1>5, <2>2, <2>3 DEF RowInv
<1> QED BY <1>6, <1>7

\* The clock only opens later windows.
LEMMA RowTick == ASSUME TypeInv, RowInv, Tick PROVE RowInv' /\ Current <= Current' /\ Current' \in Nat
<1>1. now \in Nat /\ now' = now + 1 /\ UNCHANGED <<l3, granted, returned>>
  BY Options DEF Tick, TypeInv, TypeOK
<1>2. Current \in Nat /\ Current' \in Nat /\ Current <= Current'
  BY <1>1, WindowNat, WindowMonotone DEF Current
<1>3. l3.win \in Int
  BY DEF TypeInv, TypeOK, RowType
<1> QED BY <1>1, <1>2, <1>3 DEF RowInv

LEMMA RowInit == Init => RowInv
<1> SUFFICES ASSUME Init PROVE RowInv
  OBVIOUS
<1>1. l3.win = -1 /\ now = 0
  BY DEF Init, NoBudget
<1>2. Current \in Nat
  BY <1>1, WindowNat DEF Current
<1>3. \A w \in Windows : w \in Nat /\ granted[w] = 0 /\ returned[w] = 0
  BY SMTT(30) DEF Init, Windows
<1> QED BY <1>1, <1>2, <1>3, Options DEF RowInv

LEMMA RowStep == ~LateClock /\ TypeInv /\ RowInv /\ [Next]_vars => RowInv'
<1> SUFFICES ASSUME ~LateClock, TypeInv, RowInv, [Next]_vars PROVE RowInv'
  BY SMTT(30)
<1>1. ASSUME NEW p \in Procs, NEW r \in Reqs, CheckStep(p, r) PROVE RowInv'
  BY <1>1, RowKept DEF CheckStep, Probed, EscrowLease, EscrowAnswers, Resume
<1>2. ASSUME NEW c \in Callers, Call(c[1], c[2], c[3]) PROVE RowInv'
  BY <1>2, RowKept DEF Call
<1>3. ASSUME NEW p \in Procs, NEW s \in Slots, LeaseStep(p, s) PROVE RowInv'
  <2>1. CASE CoordinatorLease(p, s)
    BY <2>1, RowLease
  <2>2. CASE ~CoordinatorLease(p, s)
    BY <1>3, <2>2, RowKept DEF LeaseStep, LeaseAnswers, LeaseFails, PushToEscrow, LeaseBack, PushFails, Collect
  <2> QED BY <2>1, <2>2
<1>4. ASSUME NEW p \in Procs, NEW j \in jobs[p], Release(p, j) \/ Reconcile(p, j) \/ JobLost(p, j) PROVE RowInv'
  BY <1>4, RowReconcile, RowKept DEF Release, JobLost
<1>5. ASSUME NEW p \in Procs, Reset(p) PROVE RowInv'
  BY <1>5, RowKept DEF Reset
<1>6. CASE Tick
  BY <1>6, RowTick
<1>7. CASE UNCHANGED vars
  BY <1>7, RowKept DEF vars
<1> QED BY SMTT(30), <1>1, <1>2, <1>3, <1>4, <1>5, <1>6, <1>7 DEF Next

\* L3WithinLimit, with a coordinator that reads its clock under the lock of its row: with skewed
\* processes, a regional escrow, lost calls and late or repeated reconciles, it never has more than
\* the budget of a window out (coordinator-*.ts, lease and reconcile).
THEOREM CoordinatorWithinBudget == ~LateClock /\ Spec => []L3WithinLimit
<1>1. RowInv => L3WithinLimit
  BY DEF RowInv, L3WithinLimit
<1>2. ~LateClock /\ TypeInv /\ RowInv /\ [Next]_vars => TypeInv' /\ RowInv'
  BY TypeStep, RowStep
<1>3. Init => TypeInv /\ RowInv
  BY TypeInit, RowInit
<1>4. ASSUME ~LateClock PROVE Spec => []L3WithinLimit
  <2>1. TypeInv /\ RowInv /\ [Next]_vars => TypeInv' /\ RowInv'
    BY <1>2, <1>4
  <2> QED BY <1>1, <1>3, <2>1, PTL DEF Spec
<1> QED BY <1>4

----------------------------------------------------------------------------
(* The federation bound *)

\* The deployment the bound is claimed for.
Plain == ~opt.l2 /\ \A p \in Procs : opt.skew[p] = 0
\* One check waits for a lease, and the coordinator reads its clock under the lock of its row.
OneByOne == ~Riders /\ ~LateClock /\ IsFiniteSet(Procs) /\ IsFiniteSet(Reqs)

\* What process p holds of the current window, and what is on its way to check r of p.
Hand(p) == IF entry[p].has /\ entry[p].win = Current THEN entry[p].balance ELSE 0
Credit(p, r) ==
    LET c == check[p][r] IN
    IF c.st = "await" /\ c.leaseWin = Current /\ lease[p][c.slot].st \in {"granted", "settled"}
    THEN lease[p][c.slot].grant ELSE 0
Waits == Procs \X Reqs
InHand == SumFunctionOnSet([p \in Procs |-> Hand(p)], Procs)
UnderWay == SumFunctionOnSet([x \in Waits |-> Credit(x[1], x[2])], Waits)

\* A waiting check has a lease of its own, asked for in the window its entry was in then.
AwaitInv(p, r) ==
    LET c == check[p][r] IN
    /\ c.st \in {"idle", "await"}
    /\ c.st = "await" =>
          /\ lease[p][c.slot].st # "free"
          /\ c.win <= c.leaseWin /\ c.leaseWin <= Current
          /\ entry[p].has => c.leaseWin <= entry[p].win
          /\ \A q \in Reqs : check[p][q].st = "await" /\ check[p][q].slot = c.slot => q = r

\* The processes and their books: no L2 step is under way, nothing is ahead of the clock, what goes
\* back is of a window that is over, so that nothing granted is ever granted again.
ProcInv(p) ==
    /\ \A r \in Reqs : AwaitInv(p, r)
    /\ \A s \in Slots : lease[p][s].st \notin {"refill", "back"}
    /\ entry[p].has => entry[p].win <= Current
    /\ \A j \in jobs[p] : j.win < Current

Books ==
    /\ \A w \in Windows : /\ returned[w] = 0 /\ prompt[w] <= Limit
                          /\ w > Current => prompt[w] = 0
    /\ prompt[Current] + InHand + UnderWay <= granted[Current]

PlainInv == (\A p \in Procs : ProcInv(p)) /\ Books

----------------------------------------------------------------------------
(* Sums *)

LEMMA HandNat == ASSUME TypeInv, NEW p \in Procs PROVE Hand(p) \in Nat
BY DEF TypeInv, TypeOK, EntryType, Hand

LEMMA CreditNat == ASSUME TypeInv, NEW p \in Procs, NEW r \in Reqs PROVE Credit(p, r) \in Nat
<1>1. ASSUME check[p][r].st = "await" PROVE lease[p][check[p][r].slot].grant \in Nat
  BY <1>1 DEF TypeInv, TypeOK, AwaitsSlot, LeaseType
<1> QED BY <1>1 DEF Credit

LEMMA WaitsFinite == OneByOne => IsFiniteSet(Waits)
BY FS_Product DEF OneByOne, Waits

LEMMA SumsNat == ASSUME OneByOne, TypeInv PROVE InHand \in Nat /\ UnderWay \in Nat
<1> DEFINE f == [p \in Procs |-> Hand(p)]
           c == [x \in Waits |-> Credit(x[1], x[2])]
<1>1. \A p \in Procs : f[p] \in Nat
  BY HandNat
<1>2. \A x \in Waits : c[x] \in Nat
  BY CreditNat DEF Waits
<1> HIDE DEF f, c
<1>3. SumFunctionOnSet(f, Procs) \in Nat /\ SumFunctionOnSet(c, Waits) \in Nat
  BY <1>1, <1>2, SetSumNat, WaitsFinite DEF OneByOne
<1> QED BY <1>3 DEF InHand, UnderWay, f, c

\* Nothing in any hand and nothing under way.
LEMMA SumsZero ==
    ASSUME OneByOne, \A p \in Procs : Hand(p) = 0, \A p \in Procs, r \in Reqs : Credit(p, r) = 0
    PROVE  InHand = 0 /\ UnderWay = 0
<1> DEFINE f == [p \in Procs |-> Hand(p)]
           c == [x \in Waits |-> Credit(x[1], x[2])]
<1>1. \A p \in Procs : f[p] = 0
  OBVIOUS
<1>2. \A x \in Waits : c[x] = 0
  BY DEF Waits
<1> HIDE DEF f, c
<1>3. SumFunctionOnSet(f, Procs) = 0 /\ SumFunctionOnSet(c, Waits) = 0
  BY <1>1, <1>2, SetSumZero, WaitsFinite DEF OneByOne
<1> QED BY <1>3 DEF InHand, UnderWay, f, c

\* A step of one process changes its term of the sum and no other.
LEMMA InHandMoves ==
    ASSUME OneByOne, TypeInv, TypeInv', NEW p \in Procs, \A q \in Procs : q # p => Hand(q)' = Hand(q)
    PROVE  InHand' = InHand - Hand(p) + Hand(p)'
<1> DEFINE f == [q \in Procs |-> Hand(q)]
           g == [q \in Procs |-> Hand(q)']
<1>1. \A q \in Procs : f[q] \in Int /\ g[q] \in Int /\ (q # p => f[q] = g[q])
  <2>1. ASSUME NEW q \in Procs PROVE Hand(q) \in Nat /\ Hand(q)' \in Nat
    <3>1. Hand(q) \in Nat BY HandNat
    <3>2. Hand(q)' \in Nat BY DEF TypeInv, TypeOK, EntryType, Hand
    <3> QED BY <3>1, <3>2
  <2> QED BY <2>1
<1>2. f[p] = Hand(p) /\ g[p] = Hand(p)'
  OBVIOUS
<1>3. InHand = SumFunctionOnSet(f, Procs) /\ InHand' = SumFunctionOnSet(g, Procs)
  BY DEF InHand
<1> HIDE DEF f, g
<1>4. SumFunctionOnSet(g, Procs) = SumFunctionOnSet(f, Procs) - f[p] + g[p]
  BY <1>1, SetSumUpdate DEF OneByOne
<1> QED BY <1>2, <1>3, <1>4

LEMMA UnderWayMoves ==
    ASSUME OneByOne, TypeInv, TypeInv', NEW p \in Procs, NEW r \in Reqs,
           \A q \in Procs, t \in Reqs : q # p \/ t # r => Credit(q, t)' = Credit(q, t)
    PROVE  UnderWay' = UnderWay - Credit(p, r) + Credit(p, r)'
<1> DEFINE f == [x \in Waits |-> Credit(x[1], x[2])]
           g == [x \in Waits |-> Credit(x[1], x[2])']
           y == <<p, r>>
<1>1. \A x \in Waits : f[x] \in Int /\ g[x] \in Int /\ (x # y => f[x] = g[x])
  <2>1. ASSUME NEW q \in Procs, NEW t \in Reqs PROVE Credit(q, t) \in Nat /\ Credit(q, t)' \in Nat
    <3>1. Credit(q, t) \in Nat BY CreditNat
    <3>2. (check[q][t].st = "await" => lease[q][check[q][t].slot].grant \in Nat)'
      BY DEF TypeInv, TypeOK, AwaitsSlot, LeaseType
    <3>3. Credit(q, t)' \in Nat BY <3>2 DEF Credit
    <3> QED BY <3>1, <3>3
  <2> QED BY <2>1 DEF Waits
<1>2. y \in Waits /\ f[y] = Credit(p, r) /\ g[y] = Credit(p, r)'
  BY DEF Waits
<1>3. UnderWay = SumFunctionOnSet(f, Waits) /\ UnderWay' = SumFunctionOnSet(g, Waits)
  BY DEF UnderWay, Waits
<1> HIDE DEF f, g, y
<1>4. SumFunctionOnSet(g, Waits) = SumFunctionOnSet(f, Waits) - f[y] + g[y]
  <2>1. IsFiniteSet(Waits) /\ y \in Waits
    BY <1>2, WaitsFinite
  <2>2. /\ \A x \in Waits : f[x] \in Int /\ g[x] \in Int
        /\ \A x \in Waits : x # y => f[x] = g[x]
    BY <1>1
  <2> QED BY <2>1, <2>2, SetSumUpdate
<1> QED BY <1>2, <1>3, <1>4

\* A step that moves what is held and under way, for what it grants and admits in the current window.
LEMMA BooksStep ==
    ASSUME OneByOne, TypeInv, TypeInv', RowInv', Books, UNCHANGED <<now, returned>>,
           NEW k \in Nat, NEW g \in Nat,
           prompt'[Current] = prompt[Current] + k, granted'[Current] = granted[Current] + g,
           \A w \in Windows : w # Current => prompt'[w] = prompt[w],
           k + InHand' + UnderWay' <= g + InHand + UnderWay
    PROVE  Books'
<1> DEFINE v == Current
<1>1. v \in Windows /\ v \in Nat /\ Current' = v
  BY CurrentInRange DEF TypeInv, TypeOK, Current
<1>2. InHand \in Nat /\ UnderWay \in Nat
  BY SumsNat
<1>3. InHand' \in Nat /\ UnderWay' \in Nat
  <2> DEFINE f == [p \in Procs |-> Hand(p)']
             c == [x \in Waits |-> Credit(x[1], x[2])']
  <2>1. \A p \in Procs : f[p] \in Nat
    BY DEF TypeInv, TypeOK, EntryType, Hand
  <2>2. \A x \in Waits : c[x] \in Nat
    <3>1. ASSUME NEW p \in Procs, NEW r \in Reqs PROVE Credit(p, r)' \in Nat
      <4>1. (check[p][r].st = "await" => lease[p][check[p][r].slot].grant \in Nat)'
        BY DEF TypeInv, TypeOK, AwaitsSlot, LeaseType
      <4> QED BY <4>1 DEF Credit
    <3> QED BY <3>1 DEF Waits
  <2>3. InHand' = SumFunctionOnSet(f, Procs) /\ UnderWay' = SumFunctionOnSet(c, Waits)
    BY DEF InHand, UnderWay, Waits
  <2> HIDE DEF f, c
  <2> QED BY <2>1, <2>2, <2>3, SetSumNat, WaitsFinite DEF OneByOne
<1>4. prompt'[v] \in Nat /\ prompt[v] \in Nat /\ granted[v] \in Nat /\ granted'[v] \in Nat
  BY <1>1 DEF TypeInv, TypeOK
<1>5. prompt'[v] + InHand' + UnderWay' <= granted'[v]
  <2>1. prompt[v] + InHand + UnderWay <= granted[v]
    BY DEF Books
  <2>2. \A a, b, c, d, e, f, h, i \in Nat :
           a + b + c <= d /\ e = a + k /\ h + i + k <= g + b + c /\ f = d + g => e + h + i <= f
    OBVIOUS
  <2>3. k + InHand' + UnderWay' = InHand' + UnderWay' + k
    BY <1>3
  <2>4. InHand' + UnderWay' + k <= g + InHand + UnderWay
    BY <2>3
  <2> QED BY <2>1, <2>2, <2>4, <1>2, <1>3, <1>4, Zenon
<1>6. granted'[v] <= Limit
  <2>1. returned'[v] = 0
    BY <1>1 DEF Books
  <2>2. granted'[v] - returned'[v] <= Limit
    BY <1>1 DEF RowInv
  <2> QED BY <1>4, <2>1, <2>2, Options
<1>7. \A w \in Windows : returned'[w] = 0 /\ prompt'[w] <= Limit /\ (w > v => prompt'[w] = 0)
  <2>1. prompt'[v] <= Limit
    BY <1>3, <1>4, <1>5, <1>6, Options
  <2>2. ASSUME NEW w \in Windows PROVE returned'[w] = 0 /\ prompt'[w] <= Limit /\ (w > v => prompt'[w] = 0)
    BY <1>1, <2>1 DEF Books
  <2> QED BY <2>2
<1> QED BY <1>1, <1>5, <1>7 DEF Books

\* Sums whose terms stay.
LEMMA InHandSame == ASSUME \A q \in Procs : Hand(q)' = Hand(q) PROVE InHand' = InHand
<1>1. [p \in Procs |-> Hand(p)'] = [p \in Procs |-> Hand(p)]
  OBVIOUS
<1> QED BY <1>1, Zenon DEF InHand

LEMMA UnderWaySame ==
    ASSUME \A q \in Procs, t \in Reqs : Credit(q, t)' = Credit(q, t) PROVE UnderWay' = UnderWay
<1>1. [x \in Waits |-> Credit(x[1], x[2])'] = [x \in Waits |-> Credit(x[1], x[2])]
  BY DEF Waits
<1>2. Waits' = Waits
  BY DEF Waits
<1> QED BY <1>1, <1>2, Zenon DEF UnderWay

----------------------------------------------------------------------------
(* The steps of a check *)

\* What a check does when it goes on: it rewrites its entry, itself and a free lease, and admits no
\* more than it takes from its hand and from its lease.
GoesOn(p, r) ==
    /\ UNCHANGED <<now, opt, granted, returned>>
    /\ \A q \in Procs : q # p => entry'[q] = entry[q] /\ lease'[q] = lease[q] /\ check'[q] = check[q]
    /\ \A t \in Reqs : t # r => check'[p][t] = check[p][t]
    /\ \A s \in Slots : /\ lease[p][s].st # "free" => lease'[p][s] = lease[p][s]
                        /\ lease'[p][s].st \notin {"refill", "back"}
    /\ entry'[p].has =>
          /\ entry'[p].win <= Current
          /\ \A t \in Reqs : t # r /\ check[p][t].st = "await" => check[p][t].leaseWin <= entry'[p].win
    /\ AwaitInv(p, r)'
    /\ \A w \in Windows : w # Current => prompt'[w] = prompt[w]
    /\ \E k \in Nat : /\ prompt'[Current] = prompt[Current] + k
                      /\ k + Hand(p)' + Credit(p, r)' <= Hand(p) + Credit(p, r)

JobsBehind(p) ==
    /\ \A q \in Procs : q # p => jobs'[q] = jobs[q]
    /\ \A j \in jobs'[p] : j.win < Current

LEMMA GoesOnPlain ==
    ASSUME OneByOne, TypeInv, TypeInv', RowInv', PlainInv,
           NEW p \in Procs, NEW r \in Reqs, GoesOn(p, r), JobsBehind(p)
    PROVE  PlainInv'
<1>1. Current' = Current
  BY DEF GoesOn, Current
<1>2. \A q \in Procs : q # p => Hand(q)' = Hand(q)
  BY <1>1 DEF GoesOn, Hand
<1>3. \A q \in Procs, t \in Reqs : q # p \/ t # r => Credit(q, t)' = Credit(q, t)
  <2>1. ASSUME NEW q \in Procs, NEW t \in Reqs, q # p PROVE Credit(q, t)' = Credit(q, t)
    BY <1>1, <2>1 DEF GoesOn, Credit
  <2>2. ASSUME NEW t \in Reqs, t # r PROVE Credit(p, t)' = Credit(p, t)
    <3>1. check'[p][t] = check[p][t]
      BY <2>2 DEF GoesOn
    <3>2. ASSUME check[p][t].st = "await" PROVE lease'[p][check[p][t].slot] = lease[p][check[p][t].slot]
      <4>1. check[p][t].slot \in Slots /\ lease[p][check[p][t].slot].st # "free"
        BY <3>2 DEF PlainInv, ProcInv, AwaitInv, TypeInv, AwaitsSlot
      <4> QED BY <4>1 DEF GoesOn
    <3> QED BY <1>1, <3>1, <3>2 DEF Credit
  <2> QED BY <2>1, <2>2
<1>4. Books'
  <2>1. PICK k \in Nat : /\ prompt'[Current] = prompt[Current] + k
                         /\ k + Hand(p)' + Credit(p, r)' <= Hand(p) + Credit(p, r)
    BY DEF GoesOn
  <2>2. InHand' = InHand - Hand(p) + Hand(p)'
    BY <1>2, InHandMoves
  <2>3. UnderWay' = UnderWay - Credit(p, r) + Credit(p, r)'
    BY <1>3, UnderWayMoves
  <2>4. InHand \in Nat /\ UnderWay \in Nat /\ Hand(p) \in Nat /\ Credit(p, r) \in Nat
    BY SumsNat, HandNat, CreditNat
  <2>5. Hand(p)' \in Nat /\ Credit(p, r)' \in Nat
    <3>1. (check[p][r].st = "await" => lease[p][check[p][r].slot].grant \in Nat)'
      BY DEF TypeInv, TypeOK, AwaitsSlot, LeaseType
    <3> QED BY <3>1 DEF TypeInv, TypeOK, EntryType, Hand, Credit
  <2>6. k + InHand' + UnderWay' <= 0 + InHand + UnderWay
    BY <2>1, <2>2, <2>3, <2>4, <2>5
  <2>7. granted'[Current] = granted[Current] + 0
    <3>1. granted[Current] \in Nat
      BY CurrentInRange DEF TypeInv, TypeOK
    <3> QED BY <3>1 DEF GoesOn
  <2>8. 0 \in Nat
    OBVIOUS
  <2>9. UNCHANGED <<now, returned>> /\ \A w \in Windows : w # Current => prompt'[w] = prompt[w]
    BY DEF GoesOn
  <2> QED BY <2>1, <2>6, <2>7, <2>8, <2>9, BooksStep DEF PlainInv
<1>5. ASSUME NEW q \in Procs, q # p PROVE ProcInv(q)'
  <2>1. /\ entry'[q] = entry[q] /\ lease'[q] = lease[q] /\ check'[q] = check[q] /\ jobs'[q] = jobs[q]
    BY <1>5 DEF GoesOn, JobsBehind
  <2>2. ProcInv(q)
    BY DEF PlainInv
  <2> QED BY <1>1, <2>1, <2>2 DEF ProcInv, AwaitInv
<1>6. ProcInv(p)'
  <2>1. ASSUME NEW t \in Reqs, t # r PROVE AwaitInv(p, t)'
    <3>1. check'[p][t] = check[p][t] /\ AwaitInv(p, t)
      BY <2>1 DEF GoesOn, PlainInv, ProcInv
    <3>2. CASE check[p][t].st # "await"
      BY <3>1, <3>2 DEF AwaitInv
    <3>3. ASSUME check[p][t].st = "await" PROVE AwaitInv(p, t)'
      <4>1. check[p][t].slot \in Slots /\ lease[p][check[p][t].slot].st # "free"
        BY <3>1, <3>3 DEF AwaitInv, TypeInv, AwaitsSlot
      <4>2. lease'[p][check[p][t].slot] = lease[p][check[p][t].slot]
        BY <4>1 DEF GoesOn
      <4>3. entry'[p].has => check[p][t].leaseWin <= entry'[p].win
        BY <2>1, <3>3 DEF GoesOn
      <4>4. ASSUME NEW q \in Reqs, check'[p][q].st = "await", check'[p][q].slot = check[p][t].slot PROVE q = t
        <5>1. CASE q = r
          <6>1. AwaitInv(p, r)'
            BY DEF GoesOn
          <6> QED BY <3>1, <3>3, <4>4, <5>1, <6>1 DEF AwaitInv
        <5>2. CASE q # r
          BY <3>1, <3>3, <4>4, <5>2 DEF GoesOn, AwaitInv
        <5> QED BY <5>1, <5>2
      <4> QED BY <1>1, <3>1, <3>3, <4>1, <4>2, <4>3, <4>4 DEF AwaitInv
    <3> QED BY <3>2, <3>3
  <2>2. \A t \in Reqs : AwaitInv(p, t)'
    BY <2>1 DEF GoesOn
  <2> QED BY <1>1, <2>2 DEF ProcInv, GoesOn, JobsBehind
<1> QED BY <1>4, <1>5, <1>6 DEF PlainInv

\* The head of the loop: with an entry that is not ahead of the clock nor behind a lease that some
\* check waits for, and holds no more of the current window than the check had in hand and under way.
LEMMA LoopGoesOn ==
    ASSUME OneByOne, Plain, TypeInv, PlainInv, NEW p \in Procs, NEW r \in Reqs,
           NEW c \in CheckType, NEW e \in EntryType, NEW up,
           Loop(p, r, c, e, up), UNCHANGED <<now, opt, granted, returned>>,
           c.win <= e.win, e.win <= Current,
           \A t \in Reqs : t # r /\ check[p][t].st = "await" => check[p][t].leaseWin <= e.win,
           e.win = Current => e.balance <= Hand(p) + Credit(p, r)
    PROVE  GoesOn(p, r)
<1> DEFINE v == Current
<1>1. v \in Windows /\ v \in Nat /\ v' = v
  BY CurrentInRange DEF TypeInv, TypeOK, Current
<1>2. /\ Hand(p) \in Nat /\ Credit(p, r) \in Nat /\ prompt \in [Windows -> Nat]
      /\ e.balance \in Nat /\ e.win \in Nat /\ c.cost \in Nat /\ c.win \in Nat
  <2>1. Hand(p) \in Nat /\ Credit(p, r) \in Nat
    BY HandNat, CreditNat
  <2> QED BY <2>1 DEF TypeInv, TypeOK, EntryType, CheckType
<1>3. entry \in [Procs -> EntryType] /\ lease \in [Procs -> [Slots -> LeaseType]] /\ check \in [Procs -> [Reqs -> CheckType]]
  BY DEF TypeInv, TypeOK
<1>4. \A s \in Slots : lease[p][s].st \notin {"refill", "back"}
  BY DEF PlainInv, ProcInv
<1>5. \A f \in EntryType : f.win = e.win /\ f.balance <= e.balance
         => (IF f.has /\ f.win = v THEN f.balance ELSE 0) <= Hand(p) + Credit(p, r)
  BY <1>1, <1>2 DEF EntryType
<1>6. CASE Admit(p, r, c, e)
  <2> DEFINE k == IF c.win = v THEN c.cost ELSE 0
             f == [e EXCEPT !.balance = @ - c.cost]
  <2>1. /\ e.balance >= c.cost /\ entry' = [entry EXCEPT ![p] = f]
        /\ check' = [check EXCEPT ![p][r] = IdleCheck] /\ lease' = lease
    BY <1>6 DEF Admit
  <2>2. prompt' = [prompt EXCEPT ![v] = @ + k]
    <3>1. LocalWindow(p) = v
      <4>1. now + opt.skew[p] = now
        BY Options DEF Plain, TypeInv, TypeOK
      <4> QED BY <4>1 DEF LocalWindow, Current
    <3> QED BY <1>6, <3>1, Zenon DEF Admit
  <2>3. f \in EntryType /\ f.win = e.win /\ f.balance = e.balance - c.cost
    BY <1>2, <2>1 DEF EntryType
  <2>4. k \in Nat
    BY <1>2
  <2>5. entry'[p] = f /\ check'[p][r] = IdleCheck
    BY <1>3, <2>1
  <2>6. Credit(p, r)' = 0
    BY <2>5 DEF Credit, IdleCheck
  <2>7. k + Hand(p)' + Credit(p, r)' <= Hand(p) + Credit(p, r)
    <3>1. CASE e.win = v
      <4>1. Hand(p)' <= e.balance - c.cost /\ Hand(p)' \in Nat
        <5>1. Hand(p)' = IF f.has /\ f.win = v THEN f.balance ELSE 0
          BY <1>1, <2>5 DEF Hand
        <5> QED BY <1>2, <2>1, <2>3, <5>1
      <4>2. k <= c.cost
        BY <1>2
      <4> QED BY <1>2, <2>4, <2>6, <3>1, <4>1, <4>2
    <3>2. CASE e.win # v
      <4>1. Hand(p)' = 0
        BY <1>1, <2>3, <2>5, <3>2 DEF Hand
      <4>2. k = 0
        BY <1>1, <1>2, <3>2
      <4> QED BY <1>2, <2>6, <4>1, <4>2
    <3> QED BY <3>1, <3>2
  <2> HIDE DEF k, f
  <2>8. prompt'[v] = prompt[v] + k /\ \A w \in Windows : w # v => prompt'[w] = prompt[w]
    BY <1>1, <1>2, <2>2
  <2>9. AwaitInv(p, r)'
    BY <2>5 DEF AwaitInv, IdleCheck
  <2> QED BY <1>3, <1>4, <2>1, <2>3, <2>4, <2>5, <2>7, <2>8, <2>9 DEF GoesOn
<1>7. ASSUME NEW s \in Slots, lease[p][s].st = "free",
             lease' = [lease EXCEPT ![p][s] = [FreeLease EXCEPT !.st = "asked", !.tokens = Larger(Batch, c.cost),
                                                                !.win = e.win, !.at = now]],
             entry' = [entry EXCEPT ![p] = [e EXCEPT !.pending = s, !.pendingWin = e.win]],
             Await(p, r, c, s, e.win), UNCHANGED <<admitted, prompt>>
      PROVE  GoesOn(p, r)
  <2> DEFINE f == [e EXCEPT !.pending = s, !.pendingWin = e.win]
             d == [c EXCEPT !.st = "await", !.slot = s, !.leaseWin = e.win, !.got = 0]
             l == [FreeLease EXCEPT !.st = "asked", !.tokens = Larger(Batch, c.cost), !.win = e.win, !.at = now]
  <2>1. f \in EntryType /\ f.win = e.win /\ f.balance = e.balance
    BY <1>2 DEF EntryType
  <2>2. d.st = "await" /\ d.slot = s /\ d.leaseWin = e.win /\ d.win = c.win
    BY DEF CheckType
  <2>3. l.st = "asked"
    BY DEF FreeLease
  <2> HIDE DEF f, d, l
  <2>4. /\ entry' = [entry EXCEPT ![p] = f] /\ check' = [check EXCEPT ![p][r] = d]
        /\ lease' = [lease EXCEPT ![p][s] = l]
    BY <1>7 DEF f, d, l, Await
  <2>5. entry'[p] = f /\ check'[p][r] = d /\ lease'[p][s] = l
    BY <1>3, <2>4
  <2>6. \A t \in Reqs : t # r => check'[p][t] = check[p][t]
    BY <1>3, <2>4
  <2>7. \A x \in Slots : x # s => lease'[p][x] = lease[p][x]
    BY <1>3, <2>4
  <2>8. Credit(p, r)' = 0
    BY <2>2, <2>3, <2>5 DEF Credit
  <2>9. Hand(p)' <= Hand(p) + Credit(p, r) /\ Hand(p)' \in Nat
    <3>1. Hand(p)' = IF f.has /\ f.win = v THEN f.balance ELSE 0
      BY <1>1, <2>5 DEF Hand
    <3> QED BY <1>2, <1>5, <2>1, <3>1
  <2>10. AwaitInv(p, r)'
    <3>1. ASSUME NEW q \in Reqs, check'[p][q].st = "await", check'[p][q].slot = s PROVE q = r
      <4>1. ASSUME q # r PROVE FALSE
        <5>1. check[p][q].st = "await" /\ check[p][q].slot = s
          BY <2>6, <3>1, <4>1
        <5> QED BY <1>7, <5>1 DEF PlainInv, ProcInv, AwaitInv
      <4> QED BY <4>1
    <3>2. lease'[p][s].st # "free"
      BY <2>3, <2>5
    <3>3. c.win <= e.win /\ e.win <= v /\ (f.has => e.win <= f.win)
      BY <1>1, <1>2, <2>1
    <3> HIDE DEF v
    <3> QED BY <1>1, <2>2, <2>5, <3>1, <3>2, <3>3, Zenon DEF AwaitInv, v
  <2>11. prompt'[v] = prompt[v] + 0 /\ 0 \in Nat /\ \A w \in Windows : w # v => prompt'[w] = prompt[w]
    BY <1>1, <1>2, <1>7
  <2>12. 0 + Hand(p)' + Credit(p, r)' <= Hand(p) + Credit(p, r)
    BY <1>2, <2>8, <2>9
  <2>13. \A x \in Slots : /\ lease[p][x].st # "free" => lease'[p][x] = lease[p][x]
                          /\ lease'[p][x].st \notin {"refill", "back"}
    BY <1>4, <1>7, <2>3, <2>5, <2>7
  <2>14. \A q \in Procs : q # p => entry'[q] = entry[q] /\ lease'[q] = lease[q] /\ check'[q] = check[q]
    BY <1>3, <2>4
  <2> QED BY <2>1, <2>5, <2>6, <2>10, <2>11, <2>12, <2>13, <2>14 DEF GoesOn
<1>8. ~RegionalOnly /\ ~Riders
  BY DEF Plain, OneByOne, RegionalOnly
<1>9. FreeSlots(p) # {} => LET s == CHOOSE x \in FreeSlots(p) : TRUE IN s \in Slots /\ lease[p][s].st = "free"
  BY DEF FreeSlots
<1> QED BY <1>6, <1>7, <1>8, <1>9 DEF Loop, AskEscrow, AskCoordinator, Plain

\* check() from its head: it arrives in the current window, where its entry then is.
LEMMA EnterGoesOn ==
    ASSUME OneByOne, Plain, TypeInv, PlainInv, NEW p \in Procs, NEW r \in Reqs,
           NEW c \in CheckType, NEW up, Enter(p, r, c, up), UNCHANGED <<now, opt, granted, returned>>,
           c.win = Current
    PROVE  GoesOn(p, r) /\ JobsBehind(p)
<1> DEFINE v == Current
           e == Advance(entry[p], v)
           new == RollJobs(entry[p], v)
<1>1. v \in Nat /\ entry[p] \in EntryType /\ jobs \in [Procs -> SUBSET JobType]
  BY CurrentInRange DEF TypeInv, TypeOK
<1>2. e \in EntryType /\ Loop(p, r, c, e, up)
  BY <1>1, AdvanceTyped DEF Enter
<1>3. entry[p].has => entry[p].win <= v
  BY DEF PlainInv, ProcInv
<1>4. e.win = v
  <2>1. FreshEntry(v).win = v /\ Rolled(entry[p], v).win = v
    BY <1>1 DEF FreshEntry, NoEntry, Rolled, EntryType
  <2>2. entry[p].win \in Nat
    BY <1>1 DEF EntryType
  <2> QED BY <1>1, <1>3, <2>1, <2>2 DEF Advance, NeedsRoll
<1>5. e.balance <= Hand(p)
  <2>1. FreshEntry(v).balance = 0 /\ Rolled(entry[p], v).balance = 0
    BY <1>1 DEF FreshEntry, NoEntry, Rolled, EntryType
  <2>2. entry[p].win \in Nat /\ entry[p].balance \in Nat
    BY <1>1 DEF EntryType
  <2>3. Hand(p) \in Nat
    BY HandNat
  <2>4. CASE entry[p].has /\ ~NeedsRoll(entry[p], v)
    BY <1>1, <1>3, <2>2, <2>4 DEF Advance, NeedsRoll, Hand
  <2> QED BY <2>1, <2>3, <2>4 DEF Advance
<1>6. \A t \in Reqs : t # r /\ check[p][t].st = "await" => check[p][t].leaseWin <= v
  BY DEF PlainInv, ProcInv, AwaitInv
<1>7. GoesOn(p, r)
  <2>1. e.balance \in Nat /\ Hand(p) \in Nat /\ Credit(p, r) \in Nat
    BY <1>2, HandNat, CreditNat DEF EntryType
  <2>2. e.balance <= Hand(p) + Credit(p, r)
    BY <1>5, <2>1
  <2>3. c.win <= e.win /\ e.win <= Current
    BY <1>1, <1>4
  <2>4. \A t \in Reqs : t # r /\ check[p][t].st = "await" => check[p][t].leaseWin <= e.win
    BY <1>4, <1>6
  <2> HIDE DEF e
  <2> QED BY <1>2, <2>2, <2>3, <2>4, LoopGoesOn
<1>8. \A j \in new : j.win < v
  BY <1>1, <1>3 DEF RollJobs, NeedsRoll, EntryType
<1>9. jobs' = [jobs EXCEPT ![p] = @ \cup new]
  BY DEF Enter
<1>10. \A j \in jobs[p] : j.win < v
  BY DEF PlainInv, ProcInv
<1> HIDE DEF new
<1>11. JobsBehind(p)
  BY <1>1, <1>8, <1>9, <1>10 DEF JobsBehind
<1> QED BY <1>7, <1>11

LEMMA BeginGoesOn ==
    ASSUME OneByOne, Plain, TypeInv, PlainInv, NEW p \in Procs, NEW r \in Reqs, NEW cost \in Nat,
           Begin(p, r, cost), UNCHANGED <<now, opt, granted, returned>>
    PROVE  GoesOn(p, r) /\ JobsBehind(p)
<1> DEFINE c == [IdleCheck EXCEPT !.st = "probe", !.cost = cost, !.win = LocalWindow(p)]
<1>1. LocalWindow(p) = Current
  <2>1. now + opt.skew[p] = now
    BY Options DEF Plain, TypeInv, TypeOK
  <2> QED BY <2>1 DEF LocalWindow, Current
<1>2. LocalWindow(p) \in Nat
  BY LocalNat DEF TypeInv
<1>3. c \in CheckType /\ c.win = LocalWindow(p)
  BY <1>2 DEF IdleCheck, CheckType
<1>4. ~RegionalOnly
  BY SMTT(30) DEF Plain, RegionalOnly
<1>5. Enter(p, r, c, healthy[p])
  BY SMTT(30), <1>4 DEF Begin
<1> HIDE DEF c
<1> QED BY <1>1, <1>3, <1>5, EnterGoesOn

\* A check whose lease settled: what the lease granted goes from under way to the hand, or, when its
\* window is over, back to the coordinator.
LEMMA ResumeGoesOn ==
    ASSUME OneByOne, Plain, TypeInv, PlainInv, NEW p \in Procs, NEW r \in Reqs, Resume(p, r)
    PROVE  GoesOn(p, r) /\ JobsBehind(p)
<1> DEFINE c == check[p][r]
           s == c.slot
           e == ClearPending(entry[p], s)
           grant == lease[p][s].grant
           job == [st |-> "reconcile", left |-> grant, win |-> c.leaseWin]
<1>0. UNCHANGED <<now, opt, granted, returned>> /\ c.st = "await" /\ lease[p][s].st = "settled"
  BY DEF Resume
<1>1. /\ c \in CheckType /\ entry[p] \in EntryType /\ e \in EntryType /\ c.cost \in Nat /\ grant \in Nat
      /\ c.leaseWin \in Nat /\ c.win \in Nat /\ jobs \in [Procs -> SUBSET JobType]
  <2>1. c \in CheckType /\ entry[p] \in EntryType /\ s \in Slots
    BY <1>0 DEF TypeInv, TypeOK, AwaitsSlot
  <2>2. lease[p][s] \in LeaseType /\ jobs \in [Procs -> SUBSET JobType]
    BY <2>1 DEF TypeInv, TypeOK
  <2> QED BY <2>1, <2>2, ClearTyped DEF CheckType, LeaseType
<1>2. e.has = entry[p].has /\ e.win = entry[p].win /\ e.balance = entry[p].balance
  BY <1>1 DEF ClearPending, EntryType
<1>3. e.win \in Nat /\ e.balance \in Nat /\ Current \in Nat
  BY <1>1, CurrentInRange DEF EntryType, TypeInv, TypeOK
<1>4. Hand(p) \in Nat /\ Credit(p, r) \in Nat
  BY HandNat, CreditNat
<1>5. /\ c.win <= c.leaseWin /\ c.leaseWin <= Current /\ (entry[p].has => c.leaseWin <= entry[p].win)
      /\ (entry[p].has => entry[p].win <= Current)
  BY <1>0 DEF PlainInv, ProcInv, AwaitInv
<1>6. ASSUME entry[p].has PROVE \A t \in Reqs : t # r /\ check[p][t].st = "await" => check[p][t].leaseWin <= e.win
  BY <1>2, <1>6 DEF PlainInv, ProcInv, AwaitInv
<1>7. \A j \in jobs[p] : j.win < Current
  BY DEF PlainInv, ProcInv
<1>8. ASSUME entry[p].has PROVE c.win <= e.win /\ e.win <= Current /\ (e.win = Current => e.balance <= Hand(p))
  BY <1>1, <1>2, <1>3, <1>5, <1>8 DEF Hand
<1>9. CASE ~entry[p].has /\ Begin(p, r, c.cost)
  BY <1>0, <1>1, <1>9, BeginGoesOn
<1>10. ASSUME entry[p].has, Stale(e, c), jobs' = [jobs EXCEPT ![p] = @ \cup {job}], Loop(p, r, c, e, healthy[p])
       PROVE  GoesOn(p, r) /\ JobsBehind(p)
  <2>1. e.win = Current => e.balance <= Hand(p) + Credit(p, r)
    BY <1>3, <1>4, <1>8, <1>10
  <2>2. GoesOn(p, r)
    <3> HIDE DEF c, e
    <3> QED BY <1>0, <1>1, <1>6, <1>8, <1>10, <2>1, LoopGoesOn
  <2>3. c.leaseWin < Current
    BY <1>1, <1>2, <1>3, <1>5, <1>10 DEF Stale
  <2>4. JobsBehind(p)
    BY <1>1, <1>7, <1>10, <2>3 DEF JobsBehind
  <2> QED BY <2>2, <2>4
<1>11. ASSUME entry[p].has, ~Stale(e, c), Loop(p, r, c, [e EXCEPT !.balance = @ + grant], healthy[p]), UNCHANGED jobs
       PROVE  GoesOn(p, r) /\ JobsBehind(p)
  <2> DEFINE f == [e EXCEPT !.balance = @ + grant]
  <2>1. f \in EntryType /\ f.win = e.win /\ f.balance = e.balance + grant
    BY <1>1, <1>3 DEF EntryType
  <2>2. ASSUME e.win = Current PROVE Credit(p, r) = grant
    BY <1>0, <1>11, <2>2 DEF Stale, Credit
  <2>3. f.win = Current => f.balance <= Hand(p) + Credit(p, r)
    BY <1>1, <1>3, <1>4, <1>8, <1>11, <2>1, <2>2
  <2>4. /\ c.win <= f.win /\ f.win <= Current
        /\ \A t \in Reqs : t # r /\ check[p][t].st = "await" => check[p][t].leaseWin <= f.win
    BY <1>6, <1>8, <1>11, <2>1
  <2>5. Loop(p, r, c, f, healthy[p])
    BY <1>11
  <2>6. GoesOn(p, r)
    <3> HIDE DEF c, e, f
    <3> QED BY <1>0, <1>1, <2>1, <2>3, <2>4, <2>5, LoopGoesOn
  <2>7. JobsBehind(p)
    BY <1>7, <1>11 DEF JobsBehind
  <2> QED BY <2>6, <2>7
<1>12. ASSUME entry[p].has, Deny(p, r, e), UNCHANGED jobs
       PROVE  GoesOn(p, r) /\ JobsBehind(p)
  <2>1. /\ entry' = [entry EXCEPT ![p] = e] /\ check' = [check EXCEPT ![p][r] = IdleCheck]
        /\ UNCHANGED <<lease, admitted, prompt>>
    BY <1>12 DEF Deny
  <2>2. entry'[p] = e /\ check'[p][r] = IdleCheck /\ Current' = Current
    BY <1>0, <2>1 DEF TypeInv, TypeOK, Current
  <2>3. Credit(p, r)' = 0 /\ Hand(p)' = Hand(p)
    BY <1>2, <2>2 DEF Credit, Hand, IdleCheck
  <2>4. prompt'[Current] = prompt[Current] + 0 /\ 0 \in Nat
    <3>1. prompt[Current] \in Nat
      BY CurrentInRange DEF TypeInv, TypeOK
    <3> QED BY <2>1, <3>1
  <2>5. 0 + Hand(p)' + Credit(p, r)' <= Hand(p) + Credit(p, r)
    BY <1>4, <2>3
  <2>6. AwaitInv(p, r)'
    BY <2>2 DEF AwaitInv, IdleCheck
  <2>7. \A x \in Slots : lease[p][x].st \notin {"refill", "back"}
    BY DEF PlainInv, ProcInv
  <2>8. /\ \A q \in Procs : q # p => entry'[q] = entry[q] /\ lease'[q] = lease[q] /\ check'[q] = check[q]
        /\ \A t \in Reqs : t # r => check'[p][t] = check[p][t]
    BY <2>1 DEF TypeInv, TypeOK
  <2>9. GoesOn(p, r)
    <3> HIDE DEF e
    <3> QED BY <1>0, <1>6, <1>8, <1>12, <2>1, <2>2, <2>4, <2>5, <2>6, <2>7, <2>8 DEF GoesOn
  <2>10. JobsBehind(p)
    BY <1>7, <1>12 DEF JobsBehind
  <2> QED BY <2>9, <2>10
<1> QED BY <1>9, <1>10, <1>11, <1>12 DEF Resume

----------------------------------------------------------------------------
(* The steps of a lease *)

\* What a lease is worth to the check that waits for it.
Worth(p, s) == IF lease[p][s].st \in {"granted", "settled"} THEN lease[p][s].grant ELSE 0

\* A step of one lease that is worth to its check what it was, and what the coordinator grants.
LEMMA LeaseMovesPlain ==
    ASSUME OneByOne, TypeInv, TypeInv', RowInv', PlainInv, NEW p \in Procs, NEW s \in Slots, NEW g \in Nat,
           UNCHANGED <<now, entry, check, jobs, prompt, returned>>,
           granted'[Current] = granted[Current] + g,
           \A q \in Procs : q # p => lease'[q] = lease[q],
           \A x \in Slots : x # s => lease'[p][x] = lease[p][x],
           lease'[p][s].st \notin {"refill", "back"},
           lease'[p][s].st # "free" \/ \A r \in Reqs : ~(check[p][r].st = "await" /\ check[p][r].slot = s),
           Worth(p, s)' <= Worth(p, s) + g
    PROVE  PlainInv'
<1>1. Current' = Current /\ \A q \in Procs : Hand(q)' = Hand(q)
  BY DEF Current, Hand
<1>2. InHand' = InHand
  BY <1>1, InHandSame
<1>3. ASSUME NEW q \in Procs, NEW t \in Reqs, ~(q = p /\ check[q][t].st = "await" /\ check[q][t].slot = s)
      PROVE  Credit(q, t)' = Credit(q, t)
  <2>1. ASSUME check[q][t].st = "await" PROVE lease'[q][check[q][t].slot] = lease[q][check[q][t].slot]
    <3>1. check[q][t].slot \in Slots
      BY <2>1 DEF TypeInv, AwaitsSlot
    <3> QED BY <1>3, <2>1, <3>1
  <2> QED BY <1>1, <2>1 DEF Credit
<1>4. UnderWay \in Nat /\ InHand \in Nat
  BY SumsNat
<1>5. UnderWay' \in Int /\ UnderWay' <= UnderWay + g
  <2>1. ASSUME NEW r \in Reqs, check[p][r].st = "await", check[p][r].slot = s
        PROVE  UnderWay' \in Int /\ UnderWay' <= UnderWay + g
    <3>1. \A q \in Reqs : check[p][q].st = "await" /\ check[p][q].slot = s => q = r
      BY <2>1 DEF PlainInv, ProcInv, AwaitInv
    <3>2. \A q \in Procs, t \in Reqs : q # p \/ t # r => Credit(q, t)' = Credit(q, t)
      BY <1>3, <3>1
    <3>3. UnderWay' = UnderWay - Credit(p, r) + Credit(p, r)'
      BY <3>2, UnderWayMoves
    <3>4. Credit(p, r) \in Nat /\ Credit(p, r)' \in Nat
      <4>1. (check[p][r].st = "await" => lease[p][check[p][r].slot].grant \in Nat)'
        BY DEF TypeInv, TypeOK, AwaitsSlot, LeaseType
      <4> QED BY <4>1, CreditNat DEF Credit
    <3>5. Credit(p, r)' <= Credit(p, r) + g
      BY <1>1, <2>1 DEF Credit, Worth
    <3> QED BY <1>4, <3>3, <3>4, <3>5
  <2>2. ASSUME \A r \in Reqs : ~(check[p][r].st = "await" /\ check[p][r].slot = s)
        PROVE  UnderWay' \in Int /\ UnderWay' <= UnderWay + g
    <3>1. UnderWay' = UnderWay
      BY <1>3, <2>2, UnderWaySame
    <3> QED BY <1>4, <3>1
  <2> QED BY <2>1, <2>2
<1>6. Books'
  <2>1. prompt'[Current] = prompt[Current] + 0 /\ 0 \in Nat
    <3>1. prompt[Current] \in Nat
      BY CurrentInRange DEF TypeInv, TypeOK
    <3> QED BY <3>1
  <2>2. 0 + InHand' + UnderWay' <= g + InHand + UnderWay
    BY <1>2, <1>4, <1>5
  <2> QED BY <2>1, <2>2, BooksStep DEF PlainInv
<1>7. ASSUME NEW q \in Procs PROVE ProcInv(q)'
  <2>1. ProcInv(q)
    BY DEF PlainInv
  <2>2. ASSUME NEW t \in Reqs, check[q][t].st = "await" PROVE lease'[q][check[q][t].slot].st # "free"
    <3>1. check[q][t].slot \in Slots /\ lease[q][check[q][t].slot].st # "free"
      BY <2>1, <2>2 DEF ProcInv, AwaitInv, TypeInv, AwaitsSlot
    <3> QED BY <2>2, <3>1
  <2>3. \A t \in Reqs : AwaitInv(q, t)'
    BY <1>1, <2>1, <2>2 DEF ProcInv, AwaitInv
  <2>4. \A x \in Slots : lease'[q][x].st \notin {"refill", "back"}
    BY <2>1 DEF ProcInv
  <2> QED BY <1>1, <2>1, <2>3, <2>4 DEF ProcInv
<1> QED BY <1>6, <1>7 DEF PlainInv

\* The fields a step of a lease writes.
LEMMA LeaseWrites ==
    ASSUME TypeInv, NEW p \in Procs, NEW s \in Slots, NEW x, NEW n,
           lease' = [lease EXCEPT ![p][s].st = x, ![p][s].grant = n]
    PROVE  /\ lease'[p][s].st = x /\ lease'[p][s].grant = n
           /\ \A q \in Procs : q # p => lease'[q] = lease[q]
           /\ \A y \in Slots : y # s => lease'[p][y] = lease[p][y]
BY DEF TypeInv, TypeOK, LeaseType

LEMMA StatusWrites ==
    ASSUME TypeInv, NEW p \in Procs, NEW s \in Slots, NEW x, lease' = [lease EXCEPT ![p][s].st = x]
    PROVE  /\ lease'[p][s].st = x /\ lease'[p][s].grant = lease[p][s].grant
           /\ \A q \in Procs : q # p => lease'[q] = lease[q]
           /\ \A y \in Slots : y # s => lease'[p][y] = lease[p][y]
BY DEF TypeInv, TypeOK, LeaseType

LEMMA LeasePlain ==
    ASSUME OneByOne, Plain, TypeInv, TypeInv', RowInv, RowInv', PlainInv,
           NEW p \in Procs, NEW s \in Slots, LeaseStep(p, s)
    PROVE  PlainInv'
<1>0. lease[p][s].st \notin {"refill", "back"} /\ lease[p][s].grant \in Nat /\ Worth(p, s) \in Nat
  BY DEF PlainInv, ProcInv, TypeInv, TypeOK, LeaseType, Worth
<1>1. granted[Current] \in Nat /\ granted[Current] = granted[Current] + 0 /\ 0 \in Nat
  <2>1. granted[Current] \in Nat
    BY CurrentInRange DEF TypeInv, TypeOK
  <2> QED BY <2>1
<1>2. CASE CoordinatorLease(p, s)
  <2> DEFINE g == GrantOf(RowAt(Current), lease[p][s].tokens)
  <2>1. /\ g \in Nat /\ granted' = [granted EXCEPT ![Current] = @ + g]
        /\ lease' = [lease EXCEPT ![p][s].st = "granted", ![p][s].grant = g]
    BY <1>2, RowLease DEF OneByOne
  <2> HIDE DEF g
  <2>2. /\ lease'[p][s].st = "granted" /\ lease'[p][s].grant = g
        /\ \A q \in Procs : q # p => lease'[q] = lease[q]
        /\ \A y \in Slots : y # s => lease'[p][y] = lease[p][y]
    BY ZenonT(60), <2>1, LeaseWrites
  <2>3. Worth(p, s)' <= Worth(p, s) + g
    <3>1. Worth(p, s)' = g
      BY <2>2 DEF Worth
    <3> QED BY <1>0, <2>1, <3>1
  <2>4. granted'[Current] = granted[Current] + g
    <3>1. Current \in Windows /\ granted \in [Windows -> Nat]
      BY CurrentInRange DEF TypeInv, TypeOK
    <3> QED BY <2>1, <3>1
  <2>5. UNCHANGED <<now, entry, check, jobs, prompt, returned>>
    BY <1>2 DEF CoordinatorLease
  <2> QED BY <2>1, <2>2, <2>3, <2>4, <2>5, LeaseMovesPlain
<1>3. CASE LeaseAnswers(p, s)
  <2>1. lease' = [lease EXCEPT ![p][s].st = "settled"] /\ lease[p][s].st = "granted"
    BY <1>3 DEF LeaseAnswers, Plain
  <2>2. /\ lease'[p][s].st = "settled" /\ lease'[p][s].grant = lease[p][s].grant
        /\ \A q \in Procs : q # p => lease'[q] = lease[q]
        /\ \A y \in Slots : y # s => lease'[p][y] = lease[p][y]
    BY <2>1, StatusWrites
  <2>3. Worth(p, s)' <= Worth(p, s) + 0
    BY <1>0, <2>1, <2>2 DEF Worth
  <2>4. UNCHANGED <<now, entry, check, jobs, prompt, returned, granted>>
    BY <1>3 DEF LeaseAnswers
  <2> QED BY <1>1, <2>2, <2>3, <2>4, LeaseMovesPlain
<1>4. CASE LeaseFails(p, s)
  <2>1. lease' = [lease EXCEPT ![p][s].st = "settled", ![p][s].grant = 0]
    BY <1>4 DEF LeaseFails
  <2>2. /\ lease'[p][s].st = "settled" /\ lease'[p][s].grant = 0
        /\ \A q \in Procs : q # p => lease'[q] = lease[q]
        /\ \A y \in Slots : y # s => lease'[p][y] = lease[p][y]
    BY <2>1, LeaseWrites
  <2>3. Worth(p, s)' <= Worth(p, s) + 0
    BY <1>0, <2>2 DEF Worth
  <2>4. UNCHANGED <<now, entry, check, jobs, prompt, returned, granted>>
    BY <1>4 DEF LeaseFails
  <2> QED BY <1>1, <2>2, <2>3, <2>4, LeaseMovesPlain
<1>5. CASE Collect(p, s)
  <2>1. /\ lease' = [lease EXCEPT ![p][s] = FreeLease]
        /\ \A r \in Reqs : ~(check[p][r].st = "await" /\ check[p][r].slot = s)
        /\ UNCHANGED <<now, entry, check, jobs, prompt, returned, granted>>
    BY <1>5 DEF Collect
  <2>2. /\ lease'[p][s] = FreeLease
        /\ \A q \in Procs : q # p => lease'[q] = lease[q]
        /\ \A y \in Slots : y # s => lease'[p][y] = lease[p][y]
    BY <2>1 DEF TypeInv, TypeOK
  <2>3. Worth(p, s)' <= Worth(p, s) + 0
    BY <1>0, <2>2 DEF Worth, FreeLease
  <2>4. lease'[p][s].st \notin {"refill", "back"}
    BY <2>2 DEF FreeLease
  <2> QED BY <1>1, <2>1, <2>2, <2>3, <2>4, LeaseMovesPlain
<1>6. ~PushToEscrow(p, s) /\ ~LeaseBack(p, s) /\ ~PushFails(p, s)
  BY <1>0, FederationAssumption DEF PushToEscrow, LeaseBack, PushFails
<1> QED BY <1>2, <1>3, <1>4, <1>5, <1>6 DEF LeaseStep

----------------------------------------------------------------------------
(* The other steps *)

\* What goes back is of a window that is over: it never credits the budget.
LEMMA JobPlain ==
    ASSUME OneByOne, Plain, TypeInv, TypeInv', RowInv', PlainInv, NEW p \in Procs, NEW j \in jobs[p],
           Release(p, j) \/ Reconcile(p, j) \/ JobLost(p, j)
    PROVE  PlainInv'
<1> DEFINE v == Current
<1>1. UNCHANGED <<now, entry, lease, check, granted, prompt>>
  BY DEF Release, Reconcile, JobLost
<1>2. Current' = Current /\ (\A q \in Procs : Hand(q)' = Hand(q))
      /\ (\A q \in Procs, t \in Reqs : Credit(q, t)' = Credit(q, t))
  BY <1>1 DEF Current, Hand, Credit
<1>3. InHand' = InHand /\ UnderWay' = UnderWay
  BY <1>2, InHandSame, UnderWaySame
<1>4. j.win < v /\ j.win \in Nat /\ v \in Nat /\ v \in Windows /\ jobs \in [Procs -> SUBSET JobType]
  <2>1. jobs \in [Procs -> SUBSET JobType] /\ j \in JobType
    BY DEF TypeInv, TypeOK
  <2> QED BY <2>1, CurrentInRange DEF PlainInv, ProcInv, TypeInv, TypeOK, JobType
<1>5. returned' = returned
  <2>1. CASE Release(p, j) \/ JobLost(p, j)
    BY <2>1 DEF Release, JobLost
  <2>2. CASE Reconcile(p, j)
    <3>1. RowAt(v).win = v
      BY DEF RowAt
    <3>2. ~CreditsBack(RowAt(v), j.left, j.win)
      BY <1>4, <3>1 DEF CreditsBack
    <3>3. returned' = [returned EXCEPT ![v] = @ + 0]
      BY <2>2, <3>2 DEF Reconcile, Current
    <3>4. returned \in [Windows -> Nat]
      BY DEF TypeInv, TypeOK
    <3> QED BY <1>4, <3>3, <3>4
  <2> QED BY <2>1, <2>2
<1>6. \A q \in Procs : \A i \in jobs'[q] : i.win < v
  <2>1. \A q \in Procs : \A i \in jobs[q] : i.win < v
    BY DEF PlainInv, ProcInv
  <2>2. ASSUME NEW left PROVE [st |-> "reconcile", left |-> left, win |-> j.win].win < v
    BY <1>4
  <2>3. CASE Release(p, j)
    <3> DEFINE left == j.left + IF Escrow(RegionOf[p]).has /\ Escrow(RegionOf[p]).src = j.win
                                THEN Escrow(RegionOf[p]).balance ELSE 0
               next == IF left > 0 THEN {[st |-> "reconcile", left |-> left, win |-> j.win]} ELSE {}
    <3>1. jobs' = [jobs EXCEPT ![p] = (@ \ {j}) \cup next]
      BY <2>3 DEF Release
    <3>2. \A i \in next : i.win < v
      BY <2>2
    <3> HIDE DEF next
    <3> QED BY <1>4, <2>1, <3>1, <3>2
  <2>4. CASE Reconcile(p, j) \/ JobLost(p, j)
    <3>1. jobs' = [jobs EXCEPT ![p] = @ \ {j}]
      BY <2>4 DEF Reconcile, JobLost
    <3> QED BY <1>4, <2>1, <3>1
  <2> QED BY <2>3, <2>4
<1>7. Books'
  BY <1>1, <1>2, <1>3, <1>5 DEF PlainInv, Books
<1>8. ASSUME NEW q \in Procs PROVE ProcInv(q)'
  <2>1. ProcInv(q)
    BY DEF PlainInv
  <2> QED BY <1>1, <1>2, <1>6, <2>1 DEF ProcInv, AwaitInv
<1> QED BY <1>7, <1>8 DEF PlainInv

\* reset() forfeits the escrow: nothing in hand any more.
LEMMA ResetPlain ==
    ASSUME OneByOne, Plain, TypeInv, TypeInv', RowInv', PlainInv, NEW p \in Procs, Reset(p)
    PROVE  PlainInv'
<1>1. /\ UNCHANGED <<now, lease, check, jobs, granted, returned, prompt>>
      /\ entry' = [entry EXCEPT ![p] = NoEntry] /\ ~NoEntry.has
  BY DEF Reset, NoEntry
<1>2. entry'[p] = NoEntry /\ \A q \in Procs : q # p => entry'[q] = entry[q]
  BY <1>1 DEF TypeInv, TypeOK
<1>3. Current' = Current /\ \A q \in Procs, t \in Reqs : Credit(q, t)' = Credit(q, t)
  BY <1>1 DEF Current, Credit
<1>4. Hand(p)' = 0 /\ \A q \in Procs : q # p => Hand(q)' = Hand(q)
  BY <1>1, <1>2, <1>3 DEF Hand
<1>5. UnderWay' = UnderWay /\ InHand' = InHand - Hand(p) + Hand(p)'
  BY <1>3, <1>4, UnderWaySame, InHandMoves
<1>6. InHand \in Nat /\ UnderWay \in Nat /\ Hand(p) \in Nat
  BY SumsNat, HandNat
<1>7. prompt[Current] \in Nat /\ granted[Current] \in Nat
  BY CurrentInRange DEF TypeInv, TypeOK
<1>8. Books'
  <2>1. prompt'[Current] = prompt[Current] + 0 /\ granted'[Current] = granted[Current] + 0 /\ 0 \in Nat
    BY <1>1, <1>7
  <2>2. 0 + InHand' + UnderWay' <= 0 + InHand + UnderWay
    BY <1>4, <1>5, <1>6
  <2> QED BY <1>1, <2>1, <2>2, BooksStep DEF PlainInv
<1>9. ASSUME NEW q \in Procs PROVE ProcInv(q)'
  <2>1. ProcInv(q)
    BY DEF PlainInv
  <2>2. entry'[q] = entry[q] \/ ~entry'[q].has
    BY <1>1, <1>2
  <2> QED BY <1>1, <1>3, <2>1, <2>2 DEF ProcInv, AwaitInv
<1> QED BY <1>8, <1>9 DEF PlainInv

\* The clock: nothing held or under way belongs to a window it opens.
LEMMA TickPlain ==
    ASSUME OneByOne, Plain, TypeInv, TypeInv', RowInv, PlainInv, Tick
    PROVE  PlainInv'
<1>1. /\ UNCHANGED <<entry, lease, check, jobs, granted, returned, prompt>>
      /\ Current \in Nat /\ Current' \in Nat /\ Current <= Current'
  BY RowTick, CurrentInRange DEF Tick, TypeInv, TypeOK
<1>2. \A q \in Procs : entry[q].win \in Nat /\ \A j \in jobs[q] : j.win \in Nat
  <2>1. \A q \in Procs : entry[q] \in EntryType /\ jobs[q] \subseteq JobType
    BY DEF TypeInv, TypeOK
  <2> QED BY <2>1 DEF EntryType, JobType
<1>3. \A q \in Procs, t \in Reqs : check[q][t].leaseWin \in Nat
  <2>1. \A q \in Procs, t \in Reqs : check[q][t] \in CheckType
    BY DEF TypeInv, TypeOK
  <2> QED BY <2>1 DEF CheckType
<1>4. Books'
  <2>1. CASE Current' = Current
    <3>1. (\A q \in Procs : Hand(q)' = Hand(q)) /\ \A q \in Procs, t \in Reqs : Credit(q, t)' = Credit(q, t)
      BY <1>1, <2>1 DEF Hand, Credit
    <3>2. InHand' = InHand /\ UnderWay' = UnderWay
      BY <3>1, InHandSame, UnderWaySame
    <3> QED BY <1>1, <2>1, <3>2 DEF PlainInv, Books
  <2>2. CASE Current' # Current
    <3>1. Current < Current'
      BY <1>1, <2>2
    <3>2. \A q \in Procs : Hand(q)' = 0
      BY <1>1, <1>2, <3>1 DEF PlainInv, ProcInv, Hand
    <3>3. \A q \in Procs, t \in Reqs : Credit(q, t)' = 0
      BY <1>1, <1>3, <3>1 DEF PlainInv, ProcInv, AwaitInv, Credit
    <3>4. InHand' = 0 /\ UnderWay' = 0
      <4> DEFINE f == [q \in Procs |-> Hand(q)']
                 c == [x \in Waits |-> Credit(x[1], x[2])']
      <4>1. (\A q \in Procs : f[q] = 0) /\ \A x \in Waits : c[x] = 0
        BY <3>2, <3>3 DEF Waits
      <4>2. InHand' = SumFunctionOnSet(f, Procs) /\ UnderWay' = SumFunctionOnSet(c, Waits)
        BY DEF InHand, UnderWay, Waits
      <4> HIDE DEF f, c
      <4> QED BY <4>1, <4>2, SetSumZero, WaitsFinite DEF OneByOne
    <3>5. Current' \in Windows
      <4>1. /\ now' \in Nat /\ MaxTime + MaxSkew \in Nat /\ now' <= MaxTime + MaxSkew
            /\ Current' = WindowFor(now')
        BY Options DEF TypeInv, TypeOK, Current
      <4> QED BY <4>1, WindowNat, WindowMonotone DEF Windows
    <3>6. prompt'[Current'] = 0 /\ granted'[Current'] \in Nat
      BY <1>1, <3>1, <3>5 DEF PlainInv, Books, TypeInv, TypeOK
    <3>7. \A w \in Windows : returned'[w] = 0 /\ prompt'[w] <= Limit /\ (w > Current' => prompt'[w] = 0)
      <4>1. \A w \in Windows : w \in Nat
        BY DEF Windows
      <4> QED BY <1>1, <4>1 DEF PlainInv, Books
    <3> QED BY <3>4, <3>6, <3>7 DEF Books
  <2> QED BY <2>1, <2>2
<1>5. ASSUME NEW q \in Procs PROVE ProcInv(q)'
  <2>1. ProcInv(q)
    BY DEF PlainInv
  <2>2. ASSUME NEW t \in Reqs PROVE AwaitInv(q, t)'
    <3>1. AwaitInv(q, t)
      BY <2>1 DEF ProcInv
    <3>2. check[q][t].leaseWin \in Nat
      BY <1>3
    <3> QED BY <1>1, <3>1, <3>2 DEF AwaitInv
  <2> QED BY <1>1, <1>2, <2>1, <2>2 DEF ProcInv
<1> QED BY <1>4, <1>5 DEF PlainInv

----------------------------------------------------------------------------
(* FederationBound *)

LEMMA PlainInit == OneByOne /\ Init => PlainInv
<1> SUFFICES ASSUME OneByOne, Init PROVE PlainInv
  OBVIOUS
<1>1. TypeInv /\ Current \in Nat /\ Current \in Windows
  BY TypeInit, CurrentInRange DEF TypeInv, TypeOK
<1>2. \A p \in Procs : /\ ~entry[p].has /\ jobs[p] = {}
                       /\ \A r \in Reqs : check[p][r].st = "idle"
                       /\ \A s \in Slots : lease[p][s].st = "free"
  BY DEF Init, NoEntry, IdleCheck, FreeLease
<1>3. \A p \in Procs : ProcInv(p)
  BY <1>2 DEF ProcInv, AwaitInv
<1>4. InHand = 0 /\ UnderWay = 0
  <2>1. (\A p \in Procs : Hand(p) = 0) /\ \A p \in Procs, r \in Reqs : Credit(p, r) = 0
    BY <1>2 DEF Hand, Credit
  <2> QED BY <2>1, SumsZero
<1>5. \A w \in Windows : returned[w] = 0 /\ prompt[w] = 0 /\ granted[w] = 0
  BY DEF Init
<1>6. Books
  BY <1>1, <1>4, <1>5, Options DEF Books
<1> QED BY <1>3, <1>6 DEF PlainInv

LEMMA DeploymentFixed == [Next]_vars => opt' = opt
<1> SUFFICES ASSUME [Next]_vars PROVE opt' = opt
  BY SMTT(30)
<1>1. ASSUME NEW p \in Procs, NEW r \in Reqs, CheckStep(p, r) PROVE opt' = opt
  BY <1>1 DEF CheckStep, Probed, EscrowLease, EscrowAnswers, Resume
<1>2. ASSUME NEW c \in Callers, Call(c[1], c[2], c[3]) PROVE opt' = opt
  BY <1>2 DEF Call
<1>3. ASSUME NEW p \in Procs, NEW s \in Slots, LeaseStep(p, s) PROVE opt' = opt
  BY <1>3 DEF LeaseStep, CoordinatorLease, LeaseAnswers, LeaseFails, PushToEscrow, LeaseBack, PushFails, Collect
<1>4. ASSUME NEW p \in Procs, NEW j \in jobs[p], Release(p, j) \/ Reconcile(p, j) \/ JobLost(p, j) PROVE opt' = opt
  BY <1>4 DEF Release, Reconcile, JobLost
<1>5. ASSUME NEW p \in Procs, Reset(p) PROVE opt' = opt
  BY <1>5 DEF Reset
<1>6. Tick \/ UNCHANGED vars => opt' = opt
  BY DEF Tick, vars
<1> QED BY SMTT(30), <1>1, <1>2, <1>3, <1>4, <1>5, <1>6 DEF Next

LEMMA PlainStep ==
    OneByOne /\ TypeInv /\ RowInv /\ (Plain => PlainInv) /\ [Next]_vars => (Plain => PlainInv)'
<1> SUFFICES ASSUME OneByOne, TypeInv, RowInv, Plain => PlainInv, [Next]_vars, Plain' PROVE PlainInv'
  OBVIOUS
<1>1. opt' = opt
  BY DeploymentFixed
<1>2. Plain /\ PlainInv
  BY <1>1 DEF Plain
<1>3. TypeInv' /\ RowInv'
  BY TypeStep, RowStep DEF OneByOne
<1>4. ASSUME NEW p \in Procs, NEW r \in Reqs, CheckStep(p, r) PROVE PlainInv'
  <2>1. check[p][r].st \in {"idle", "await"}
    BY <1>2 DEF PlainInv, ProcInv, AwaitInv
  <2>2. Resume(p, r)
    BY <1>4, <2>1 DEF CheckStep, Probed, EscrowLease, EscrowAnswers
  <2> QED BY <1>2, <1>3, <2>2, ResumeGoesOn, GoesOnPlain
<1>5. ASSUME NEW c \in Callers, Call(c[1], c[2], c[3]) PROVE PlainInv'
  <2>1. c[1] \in Procs /\ c[2] \in Reqs /\ c[3] \in Nat
    BY Options
  <2>2. Begin(c[1], c[2], c[3]) /\ UNCHANGED <<now, opt, granted, returned>>
    BY <1>5 DEF Call
  <2>3. GoesOn(c[1], c[2]) /\ JobsBehind(c[1])
    BY <1>2, <2>1, <2>2, BeginGoesOn
  <2> QED BY <1>2, <1>3, <2>1, <2>3, GoesOnPlain
<1>6. ASSUME NEW p \in Procs, NEW s \in Slots, LeaseStep(p, s) PROVE PlainInv'
  BY <1>2, <1>3, <1>6, LeasePlain
<1>7. ASSUME NEW p \in Procs, NEW j \in jobs[p], Release(p, j) \/ Reconcile(p, j) \/ JobLost(p, j) PROVE PlainInv'
  BY <1>2, <1>3, <1>7, JobPlain
<1>8. ASSUME NEW p \in Procs, Reset(p) PROVE PlainInv'
  BY <1>2, <1>3, <1>8, ResetPlain
<1>9. CASE Tick
  BY <1>2, <1>3, <1>9, TickPlain
<1>10. CASE UNCHANGED vars
  <2>1. UNCHANGED <<now, entry, lease, check, jobs, granted, returned, prompt>>
    BY <1>10 DEF vars
  <2>2. /\ Current' = Current /\ \A q \in Procs : Hand(q)' = Hand(q)
        /\ \A q \in Procs, t \in Reqs : Credit(q, t)' = Credit(q, t)
    BY <2>1 DEF Current, Hand, Credit
  <2>3. InHand' = InHand /\ UnderWay' = UnderWay
    BY <2>2, InHandSame, UnderWaySame
  <2>4. Books'
    BY <1>2, <2>1, <2>2, <2>3 DEF PlainInv, Books
  <2> QED BY <1>2, <2>1, <2>2, <2>4 DEF PlainInv, ProcInv, AwaitInv
<1> QED BY <1>4, <1>5, <1>6, <1>7, <1>8, <1>9, <1>10 DEF Next

\* FederationBound, for any number of processes, checks and resets: without L2, with clocks that do
\* not run ahead, the checks that arrive and are answered in one window spend at most the global
\* limit, as long as no two checks of a process share a pending lease (check() in window-coupled.ts
\* credits the grant of a shared lease once for each) and the coordinator reads its time under the lock.
THEOREM FederationHolds == OneByOne /\ Spec => []FederationBound
<1> DEFINE Inv == TypeInv /\ RowInv /\ (Plain => PlainInv)
<1>1. Inv => FederationBound
  BY DEF PlainInv, Books, Plain, FederationBound
<1>2. ASSUME OneByOne PROVE Spec => []FederationBound
  <2>1. Init => Inv
    BY <1>2, TypeInit, RowInit, PlainInit
  <2>2. Inv /\ [Next]_vars => Inv'
    BY <1>2, TypeStep, RowStep, PlainStep DEF OneByOne
  <2> HIDE DEF Inv
  <2> QED BY <1>1, <2>1, <2>2, PTL DEF Spec
<1> QED BY <1>2
----------------------------------------------------------------------------
(* Every unit is in one place *)

\* One check waits for a lease, the coordinator reads its clock under the lock of its row, and a push to
\* L2 fails only before it takes effect.
OneForOne == OneByOne /\ IsFiniteSet(Slots) /\ PushFaults \subseteq {"refill"} /\ Landed \subseteq {FALSE}

\* Where a unit can be: in the escrow of a process or of a region, in a lease on its way, in a job that hands
\* it back, in an answer of the regional escrow.
Regions == {RegionOf[p] : p \in Procs}
Leases == Procs \X Slots
JobsWorth(S) == SumFunction([j \in S |-> j.left])
Lent(p, s) ==
    IF lease[p][s].st \in {"granted", "refill"} \/ (lease[p][s].st = "settled" /\ Awaited(p, s))
    THEN lease[p][s].grant ELSE 0
Answered(p, r) == IF check[p][r].st = "l2done" THEN check[p][r].got ELSE 0
InProcs == SumFunctionOnSet([p \in Procs |-> entry[p].balance], Procs)
InRegions == SumFunctionOnSet([g \in Regions |-> Escrow(g).balance], Regions)
InLeases == SumFunctionOnSet([x \in Leases |-> Lent(x[1], x[2])], Leases)
InJobs == SumFunctionOnSet([p \in Procs |-> JobsWorth(jobs[p])], Procs)
InAnswers == SumFunctionOnSet([x \in Waits |-> Answered(x[1], x[2])], Waits)
Granted == SumFunctionOnSet(granted, Windows)
Returned == SumFunctionOnSet(returned, Windows)

\* A waiting check has a lease of its own, which is not free.
Solo(p) ==
    \A r \in Reqs : check[p][r].st = "await" =>
        /\ lease[p][check[p][r].slot].st # "free"
        /\ \A q \in Reqs : check[p][q].st = "await" /\ check[p][q].slot = check[p][r].slot => q = r
PlaceInv ==
    /\ \A p \in Procs : IsFiniteSet(jobs[p]) /\ Solo(p)
    /\ admitted + InProcs + InRegions + InLeases + InJobs + InAnswers <= Granted - Returned

LEMMA PlacesFinite ==
    ASSUME OneForOne
    PROVE  /\ IsFiniteSet(Procs) /\ IsFiniteSet(Regions) /\ IsFiniteSet(Leases) /\ IsFiniteSet(Waits)
           /\ IsFiniteSet(Windows)
<1>1. IsFiniteSet(Procs) /\ IsFiniteSet(Slots) /\ IsFiniteSet(Reqs)
  BY DEF OneForOne, OneByOne
<1>2. IsFiniteSet(Regions)
  <2> DEFINE f == [p \in Procs |-> RegionOf[p]]
  <2>1. f \in [Procs -> Regions] /\ \A g \in Regions : \E p \in Procs : f[p] = g
    BY DEF Regions
  <2>2. f \in Surjection(Procs, Regions)
    BY <2>1 DEF Surjection
  <2> HIDE DEF f
  <2> QED BY <1>1, <2>2, FS_Surjection
<1>3. IsFiniteSet(Windows)
  <2>1. MaxTime + MaxSkew \in Nat
    BY Options
  <2>2. WindowFor(MaxTime + MaxSkew) \in Int /\ 0 \in Int
    BY <2>1, WindowNat
  <2> QED BY <2>2, FS_Interval DEF Windows
<1> QED BY <1>1, <1>2, <1>3, FS_Product DEF Leases, Waits

\* What a set of jobs is worth.
LEMMA JobsWorthIs ==
    ASSUME NEW S \in SUBSET JobType, IsFiniteSet(S)
    PROVE  /\ JobsWorth(S) \in Nat
           /\ \A j \in S : IsFiniteSet(S \ {j}) /\ JobsWorth(S \ {j}) = JobsWorth(S) - j.left
           /\ \A j \in JobType : IsFiniteSet(S \cup {j}) /\ JobsWorth(S \cup {j}) <= JobsWorth(S) + j.left
<1> DEFINE f == [j \in JobType |-> j.left]
<1>0. \A j \in JobType : f[j] \in Nat /\ f[j] = j.left
  BY DEF JobType
<1>1. ASSUME NEW T \in SUBSET JobType, IsFiniteSet(T) PROVE JobsWorth(T) = SumFunctionOnSet(f, T)
  <2> DEFINE g == [j \in T |-> j.left]
  <2>1. JobsWorth(T) = SumFunctionOnSet(g, DOMAIN g)
    BY SumIsOverDomain DEF JobsWorth
  <2>2. DOMAIN g = T /\ \A j \in T : g[j] \in Int /\ g[j] = f[j]
    BY <1>0
  <2> HIDE DEF f, g
  <2>3. SumFunctionOnSet(g, T) = SumFunctionOnSet(f, T)
    BY <1>1, <2>2, SetSumEqual
  <2> QED BY <2>1, <2>2, <2>3
<1> HIDE DEF f
<1>2. ASSUME NEW T \in SUBSET JobType, IsFiniteSet(T) PROVE SumFunctionOnSet(f, T) \in Nat
  <2>1. \A j \in T : f[j] \in Nat
    BY <1>0
  <2> QED BY <1>2, <2>1, SetSumNat
<1>3. ASSUME NEW j \in S PROVE IsFiniteSet(S \ {j}) /\ JobsWorth(S \ {j}) = JobsWorth(S) - j.left
  <2>1. IsFiniteSet(S \ {j}) /\ S \ {j} \in SUBSET JobType
    BY FS_RemoveElement
  <2>2. \A k \in S : f[k] \in Int
    BY <1>0
  <2>3. SumFunctionOnSet(f, S) = f[j] + SumFunctionOnSet(f, S \ {j})
    BY <2>2, SetSumSplit
  <2>4. f[j] = j.left /\ f[j] \in Nat /\ SumFunctionOnSet(f, S \ {j}) \in Nat
    BY <1>0, <1>2, <2>1
  <2>5. JobsWorth(S) = SumFunctionOnSet(f, S) /\ JobsWorth(S \ {j}) = SumFunctionOnSet(f, S \ {j})
    BY <1>1, <2>1
  <2> QED BY <2>1, <2>3, <2>4, <2>5
<1>4. ASSUME NEW j \in JobType PROVE IsFiniteSet(S \cup {j}) /\ JobsWorth(S \cup {j}) <= JobsWorth(S) + j.left
  <2> DEFINE U == S \cup {j}
  <2>1. IsFiniteSet(U) /\ U \in SUBSET JobType
    BY FS_AddElement
  <2>2. JobsWorth(S) \in Nat /\ j.left \in Nat
    BY <1>0, <1>1, <1>2
  <2>3. CASE j \in S
    <3>1. JobsWorth(U) = JobsWorth(S)
      <4>1. U = S
        BY <2>3
      <4> QED BY ONLY <4>1
    <3>2. JobsWorth(S) <= JobsWorth(S) + j.left
      BY ONLY <2>2
    <3> QED BY ONLY <2>1, <3>1, <3>2, Zenon
  <2>4. CASE j \notin S
    <3>1. \A k \in U : f[k] \in Int
      BY <1>0, <2>1
    <3>2. S \in SUBSET U /\ j \in U
      OBVIOUS
    <3>3. SumFunctionOnSet(f, S \cup {j}) = f[j] + SumFunctionOnSet(f, S)
      <4> HIDE DEF U
      <4> QED BY <2>1, <2>4, <3>1, <3>2, SetSumAdd
    <3>4. JobsWorth(U) = SumFunctionOnSet(f, U) /\ JobsWorth(S) = SumFunctionOnSet(f, S) /\ f[j] = j.left
      <4> HIDE DEF U
      <4> QED BY <1>0, <1>1, <2>1
    <3> QED BY <2>1, <2>2, <3>3, <3>4
  <2> QED BY <2>3, <2>4
<1>5. JobsWorth(S) \in Nat
  BY <1>1, <1>2
<1> QED BY <1>3, <1>4, <1>5

\* The terms are naturals.
LEMMA TermsNat ==
    ASSUME TypeInv, \A p \in Procs : IsFiniteSet(jobs[p])
    PROVE  /\ admitted \in Nat /\ \A p \in Procs : entry[p].balance \in Nat /\ JobsWorth(jobs[p]) \in Nat
           /\ \A g \in Regions : Escrow(g) \in EscrowType /\ Escrow(g).balance \in Nat
           /\ \A p \in Procs, s \in Slots : Lent(p, s) \in Nat
           /\ \A p \in Procs, r \in Reqs : Answered(p, r) \in Nat
           /\ \A w \in Windows : granted[w] \in Nat /\ returned[w] \in Nat
<1>1. \A p \in Procs : jobs[p] \in SUBSET JobType
  BY DEF TypeInv, TypeOK
<1>2. \A p \in Procs : JobsWorth(jobs[p]) \in Nat
  BY <1>1, JobsWorthIs
<1>3. \A g \in Regions : Escrow(g) \in EscrowType
  BY DEF TypeInv, TypeOK, Regions, Escrow, EmptyEscrow, EscrowType
<1>4. \A e \in EscrowType : e.balance \in Nat
  BY DEF EscrowType
<1>5. \A p \in Procs : entry[p] \in EntryType /\ \A e \in EntryType : e.balance \in Nat
  BY DEF TypeInv, TypeOK, EntryType
<1>6. \A p \in Procs, s \in Slots : lease[p][s].grant \in Nat
  BY DEF TypeInv, TypeOK, LeaseType
<1>7. \A p \in Procs, r \in Reqs : check[p][r].got \in Nat
  BY DEF TypeInv, TypeOK, CheckType
<1>8. admitted \in Nat /\ \A w \in Windows : granted[w] \in Nat /\ returned[w] \in Nat
  BY DEF TypeInv, TypeOK
<1> QED BY <1>2, <1>3, <1>4, <1>5, <1>6, <1>7, <1>8 DEF Lent, Answered
LEMMA PlacesNat ==
    ASSUME OneForOne, TypeInv, \A p \in Procs : IsFiniteSet(jobs[p])
    PROVE  /\ admitted \in Nat /\ InProcs \in Nat /\ InRegions \in Nat /\ InLeases \in Nat /\ InJobs \in Nat
           /\ InAnswers \in Nat /\ Granted \in Nat /\ Returned \in Nat
<1> DEFINE e == [p \in Procs |-> entry[p].balance]
           g == [x \in Regions |-> Escrow(x).balance]
           l == [x \in Leases |-> Lent(x[1], x[2])]
           j == [p \in Procs |-> JobsWorth(jobs[p])]
           a == [x \in Waits |-> Answered(x[1], x[2])]
<1>1. /\ \A p \in Procs : e[p] \in Nat /\ j[p] \in Nat
      /\ \A x \in Regions : g[x] \in Nat
      /\ \A w \in Windows : granted[w] \in Nat /\ returned[w] \in Nat
  BY TermsNat
<1>2. \A x \in Leases : l[x] \in Nat
  BY TermsNat DEF Leases
<1>3. \A x \in Waits : a[x] \in Nat
  BY TermsNat DEF Waits
<1>4. /\ InProcs = SumFunctionOnSet(e, Procs) /\ InRegions = SumFunctionOnSet(g, Regions)
      /\ InLeases = SumFunctionOnSet(l, Leases) /\ InJobs = SumFunctionOnSet(j, Procs)
      /\ InAnswers = SumFunctionOnSet(a, Waits)
  BY DEF InProcs, InRegions, InLeases, InJobs, InAnswers
<1> HIDE DEF e, g, l, j, a
<1>5. InProcs \in Nat /\ InJobs \in Nat
  BY <1>1, <1>4, PlacesFinite, SetSumNat
<1>6. InRegions \in Nat
  BY <1>1, <1>4, PlacesFinite, SetSumNat
<1>7. InLeases \in Nat
  BY <1>2, <1>4, PlacesFinite, SetSumNat
<1>8. InAnswers \in Nat
  BY <1>3, <1>4, PlacesFinite, SetSumNat
<1>9. Granted \in Nat /\ Returned \in Nat
  BY <1>1, PlacesFinite, SetSumNat DEF Granted, Returned
<1>10. admitted \in Nat
  BY TermsNat
<1> QED BY <1>5, <1>6, <1>7, <1>8, <1>9, <1>10

\* One term moves, and its sum with it.
LEMMA InProcsMoves ==
    ASSUME OneForOne, TypeInv, TypeInv', NEW p \in Procs, \A q \in Procs : q # p => entry'[q] = entry[q]
    PROVE  InProcs' = InProcs - entry[p].balance + entry'[p].balance
<1> DEFINE f == [q \in Procs |-> entry[q].balance]
           g == [q \in Procs |-> entry'[q].balance]
<1>1. \A q \in Procs : f[q] \in Int /\ g[q] \in Int
  BY DEF TypeInv, TypeOK, EntryType
<1>2. \A q \in Procs : q # p => f[q] = g[q]
  OBVIOUS
<1>3. f[p] = entry[p].balance /\ g[p] = entry'[p].balance
  OBVIOUS
<1>4. InProcs = SumFunctionOnSet(f, Procs) /\ InProcs' = SumFunctionOnSet(g, Procs)
  BY DEF InProcs
<1> HIDE DEF f, g
<1>5. SumFunctionOnSet(g, Procs) = SumFunctionOnSet(f, Procs) - f[p] + g[p]
  <2>1. IsFiniteSet(Procs)
    BY PlacesFinite
  <2> QED BY ONLY <1>1, <1>2, <2>1, SetSumUpdate, p \in Procs
<1> QED BY <1>3, <1>4, <1>5

LEMMA InRegionsMoves ==
    ASSUME OneForOne, TypeInv, TypeInv', NEW a \in Regions, now' = now, \A b \in Regions : b # a => l2'[b] = l2[b]
    PROVE  InRegions' = InRegions - Escrow(a).balance + Escrow(a)'.balance
<1> DEFINE f == [b \in Regions |-> Escrow(b).balance]
           g == [b \in Regions |-> Escrow(b)'.balance]
<1>1. \A b \in Regions : f[b] \in Int /\ g[b] \in Int
  <2>1. \A b \in Regions : Escrow(b) \in EscrowType
    BY DEF TypeInv, TypeOK, Regions, Escrow, EmptyEscrow, EscrowType
  <2>2. \A b \in Regions : Escrow(b)' \in EscrowType
    <3>1. \A b \in Regions : l2'[b] \in EscrowType
      BY DEF TypeInv, TypeOK, Regions
    <3> QED BY <3>1 DEF Escrow, EmptyEscrow, EscrowType
  <2>3. \A x \in EscrowType : x.balance \in Int
    BY DEF EscrowType
  <2> QED BY <2>1, <2>2, <2>3
<1>2. \A b \in Regions : b # a => f[b] = g[b]
  BY DEF Escrow
<1>3. f[a] = Escrow(a).balance /\ g[a] = Escrow(a)'.balance
  OBVIOUS
<1>4. InRegions = SumFunctionOnSet(f, Regions) /\ InRegions' = SumFunctionOnSet(g, Regions)
  BY DEF InRegions, Regions
<1> HIDE DEF f, g
<1>5. SumFunctionOnSet(g, Regions) = SumFunctionOnSet(f, Regions) - f[a] + g[a]
  <2>1. IsFiniteSet(Regions)
    BY PlacesFinite
  <2> QED BY ONLY <1>1, <1>2, <2>1, SetSumUpdate, a \in Regions
<1> QED BY <1>3, <1>4, <1>5

LEMMA InLeasesMoves ==
    ASSUME OneForOne, TypeInv, TypeInv', NEW p \in Procs, NEW s \in Slots,
           \A q \in Procs, t \in Slots : q # p \/ t # s => Lent(q, t)' = Lent(q, t)
    PROVE  InLeases' = InLeases - Lent(p, s) + Lent(p, s)'
<1> DEFINE f == [x \in Leases |-> Lent(x[1], x[2])]
           g == [x \in Leases |-> Lent(x[1], x[2])']
           y == <<p, s>>
<1>1. ASSUME NEW q \in Procs, NEW t \in Slots PROVE Lent(q, t) \in Int /\ Lent(q, t)' \in Int
  BY DEF TypeInv, TypeOK, LeaseType, Lent
<1>2. \A x \in Leases : f[x] \in Int /\ g[x] \in Int
  BY <1>1 DEF Leases
<1>3. \A x \in Leases : x # y => f[x] = g[x]
  BY DEF Leases
<1>4. y \in Leases /\ f[y] = Lent(p, s) /\ g[y] = Lent(p, s)'
  BY DEF Leases
<1>5. InLeases = SumFunctionOnSet(f, Leases) /\ InLeases' = SumFunctionOnSet(g, Leases)
  BY DEF InLeases, Leases
<1> HIDE DEF f, g, y
<1>6. SumFunctionOnSet(g, Leases) = SumFunctionOnSet(f, Leases) - f[y] + g[y]
  <2>1. IsFiniteSet(Leases)
    BY PlacesFinite
  <2>2. PICK z \in Leases : z = y /\ \A x \in Leases : x # z => f[x] = g[x]
    BY ONLY <1>3, <1>4
  <2>3. SumFunctionOnSet(g, Leases) = SumFunctionOnSet(f, Leases) - f[z] + g[z]
    BY ONLY <1>2, <2>1, <2>2, z \in Leases, SetSumUpdate
  <2> QED BY ONLY <2>2, <2>3
<1> QED BY <1>4, <1>5, <1>6

LEMMA InJobsMoves ==
    ASSUME OneForOne, TypeInv, TypeInv', NEW p \in Procs, \A q \in Procs : IsFiniteSet(jobs[q]),
           IsFiniteSet(jobs'[p]), \A q \in Procs : q # p => jobs'[q] = jobs[q]
    PROVE  InJobs' = InJobs - JobsWorth(jobs[p]) + JobsWorth(jobs'[p])
<1> DEFINE f == [q \in Procs |-> JobsWorth(jobs[q])]
           g == [q \in Procs |-> JobsWorth(jobs'[q])]
<1>1. \A q \in Procs : jobs[q] \in SUBSET JobType /\ jobs'[q] \in SUBSET JobType /\ IsFiniteSet(jobs'[q])
  BY DEF TypeInv, TypeOK
<1>2. \A q \in Procs : f[q] \in Int /\ g[q] \in Int
  <2>1. \A q \in Procs : JobsWorth(jobs[q]) \in Nat /\ JobsWorth(jobs'[q]) \in Nat
    BY <1>1, JobsWorthIs
  <2> QED BY <2>1
<1>3. \A q \in Procs : q # p => f[q] = g[q]
  OBVIOUS
<1>4. f[p] = JobsWorth(jobs[p]) /\ g[p] = JobsWorth(jobs'[p])
  OBVIOUS
<1>5. InJobs = SumFunctionOnSet(f, Procs) /\ InJobs' = SumFunctionOnSet(g, Procs)
  BY DEF InJobs, JobsWorth
<1> HIDE DEF f, g
<1>6. SumFunctionOnSet(g, Procs) = SumFunctionOnSet(f, Procs) - f[p] + g[p]
  <2>1. IsFiniteSet(Procs)
    BY PlacesFinite
  <2> QED BY ONLY <1>2, <1>3, <2>1, SetSumUpdate, p \in Procs
<1> QED BY <1>4, <1>5, <1>6

LEMMA InAnswersMoves ==
    ASSUME OneForOne, TypeInv, TypeInv', NEW p \in Procs, NEW r \in Reqs,
           \A q \in Procs, t \in Reqs : q # p \/ t # r => check'[q][t] = check[q][t]
    PROVE  InAnswers' = InAnswers - Answered(p, r) + Answered(p, r)'
<1> DEFINE f == [x \in Waits |-> Answered(x[1], x[2])]
           g == [x \in Waits |-> Answered(x[1], x[2])']
           y == <<p, r>>
<1>1. ASSUME NEW q \in Procs, NEW t \in Reqs PROVE Answered(q, t) \in Int /\ Answered(q, t)' \in Int
  BY DEF TypeInv, TypeOK, CheckType, Answered
<1>2. \A x \in Waits : f[x] \in Int /\ g[x] \in Int
  BY <1>1 DEF Waits
<1>3. \A x \in Waits : x # y => f[x] = g[x]
  <2>1. ASSUME NEW q \in Procs, NEW t \in Reqs, q # p \/ t # r PROVE Answered(q, t)' = Answered(q, t)
    BY <2>1 DEF Answered
  <2> QED BY <2>1 DEF Waits
<1>4. y \in Waits /\ f[y] = Answered(p, r) /\ g[y] = Answered(p, r)'
  BY DEF Waits
<1>5. InAnswers = SumFunctionOnSet(f, Waits) /\ InAnswers' = SumFunctionOnSet(g, Waits)
  BY DEF InAnswers, Waits
<1> HIDE DEF f, g, y
<1>6. SumFunctionOnSet(g, Waits) = SumFunctionOnSet(f, Waits) - f[y] + g[y]
  <2>1. IsFiniteSet(Waits)
    BY PlacesFinite
  <2>2. PICK z \in Waits : z = y /\ \A x \in Waits : x # z => f[x] = g[x]
    BY ONLY <1>3, <1>4
  <2>3. SumFunctionOnSet(g, Waits) = SumFunctionOnSet(f, Waits) - f[z] + g[z]
    BY ONLY <1>2, <2>1, <2>2, z \in Waits, SetSumUpdate
  <2> QED BY ONLY <2>2, <2>3
<1> QED BY <1>4, <1>5, <1>6

\* Terms that stay.
LEMMA InRegionsStays == ASSUME now' = now, l2' = l2 PROVE InRegions' = InRegions
<1>1. \A g \in Regions : Escrow(g)' = Escrow(g)
  BY DEF Escrow
<1>2. [g \in Regions |-> Escrow(g)'.balance] = [g \in Regions |-> Escrow(g).balance]
  BY <1>1
<1>3. Regions' = Regions
  BY DEF Regions
<1> QED BY <1>2, <1>3, Zenon DEF InRegions
LEMMA InLeasesStays == ASSUME \A p \in Procs, s \in Slots : Lent(p, s)' = Lent(p, s) PROVE InLeases' = InLeases
<1>1. [x \in Leases |-> Lent(x[1], x[2])'] = [x \in Leases |-> Lent(x[1], x[2])] /\ Leases' = Leases
  BY DEF Leases
<1> QED BY <1>1, Zenon DEF InLeases
LEMMA InAnswersStays == ASSUME check' = check PROVE InAnswers' = InAnswers
BY DEF InAnswers, Waits, Answered
LEMMA InProcsStays == ASSUME entry' = entry PROVE InProcs' = InProcs
BY DEF InProcs
LEMMA InJobsStays == ASSUME jobs' = jobs PROVE InJobs' = InJobs
BY DEF InJobs, JobsWorth
\* What a check holds until it goes on: the settled lease it waits for.
Freed(p, r) == IF check[p][r].st = "await" THEN Lent(p, check[p][r].slot) ELSE 0

\* What a check does when it goes on: it keeps of n units what it does not spend, and waits, if at all,
\* for a lease that was free.
Onward(p, r, n) ==
    /\ UNCHANGED <<now, l2, granted, returned>>
    /\ \A q \in Procs : q # p => entry'[q] = entry[q] /\ lease'[q] = lease[q] /\ check'[q] = check[q]
    /\ \A t \in Reqs : t # r => check'[p][t] = check[p][t]
    /\ \A s \in Slots : lease'[p][s] = lease[p][s] \/ (lease[p][s].st = "free" /\ lease'[p][s].st = "asked")
    /\ check'[p][r].st # "l2done"
    /\ check'[p][r].st = "await" => /\ lease[p][check'[p][r].slot].st = "free"
                                    /\ lease'[p][check'[p][r].slot].st = "asked"
    /\ admitted' + entry'[p].balance <= admitted + n

\* The jobs of a process are worth at most k more, and those of the others what they were.
JobsGrow(p, k) ==
    /\ \A q \in Procs : q # p => jobs'[q] = jobs[q]
    /\ IsFiniteSet(jobs'[p]) /\ JobsWorth(jobs'[p]) <= JobsWorth(jobs[p]) + k

LEMMA InJobsGrow ==
    ASSUME OneForOne, TypeInv, TypeInv', \A q \in Procs : IsFiniteSet(jobs[q]),
           NEW p \in Procs, NEW k \in Int, JobsGrow(p, k)
    PROVE  InJobs' <= InJobs + k /\ InJobs' \in Int /\ \A q \in Procs : IsFiniteSet(jobs'[q])
<1>1. /\ IsFiniteSet(jobs'[p]) /\ JobsWorth(jobs'[p]) <= JobsWorth(jobs[p]) + k
      /\ \A q \in Procs : q # p => jobs'[q] = jobs[q]
  BY DEF JobsGrow
<1>2. InJobs' = InJobs - JobsWorth(jobs[p]) + JobsWorth(jobs'[p])
  BY <1>1, InJobsMoves
<1>3. jobs[p] \in SUBSET JobType /\ jobs'[p] \in SUBSET JobType
  BY DEF TypeInv, TypeOK
<1>4. JobsWorth(jobs[p]) \in Nat /\ JobsWorth(jobs'[p]) \in Nat
  BY <1>1, <1>3, JobsWorthIs
<1>5. InJobs \in Nat
  BY PlacesNat
<1>6. InJobs' <= InJobs + k /\ InJobs' \in Int
  BY ONLY <1>1, <1>2, <1>4, <1>5, k \in Int
<1> QED BY <1>1, <1>6

LEMMA OnwardLent ==
    ASSUME OneForOne, TypeInv, TypeInv', PlaceInv, NEW p \in Procs, NEW r \in Reqs, NEW n, Onward(p, r, n),
           check[p][r].st = "await" => lease[p][check[p][r].slot].st = "settled"
    PROVE  InLeases' = InLeases - Freed(p, r)
<1>1. ASSUME NEW q \in Procs, NEW t \in Slots, q # p PROVE Lent(q, t)' = Lent(q, t)
  BY <1>1 DEF Onward, Lent, Awaited
<1>2. ASSUME NEW t \in Slots, ~(check[p][r].st = "await" /\ check[p][r].slot = t) PROVE Lent(p, t)' = Lent(p, t)
  <2>1. CASE lease[p][t].st = "free" /\ lease'[p][t].st = "asked"
    BY <2>1 DEF Lent
  <2>2. CASE lease'[p][t] = lease[p][t]
    <3>1. CASE lease[p][t].st # "settled"
      BY <2>2, <3>1 DEF Lent
    <3>2. CASE lease[p][t].st = "settled"
      <4>1. ~(check'[p][r].st = "await" /\ check'[p][r].slot = t)
        BY <3>2 DEF Onward
      <4>2. \A q \in Reqs : (check'[p][q].st = "await" /\ check'[p][q].slot = t)
                            <=> (check[p][q].st = "await" /\ check[p][q].slot = t)
        BY <1>2, <4>1 DEF Onward
      <4>3. Awaited(p, t)' = Awaited(p, t)
        BY <4>2 DEF Awaited
      <4> QED BY <2>2, <4>3 DEF Lent
    <3> QED BY <3>1, <3>2
  <2> QED BY <2>1, <2>2 DEF Onward
<1>3. InLeases \in Nat
  BY PlacesNat DEF PlaceInv
<1>4. CASE check[p][r].st # "await"
  <2>1. \A q \in Procs, t \in Slots : Lent(q, t)' = Lent(q, t)
    BY <1>1, <1>2, <1>4
  <2> QED BY <1>3, <1>4, <2>1, InLeasesStays DEF Freed
<1>5. ASSUME check[p][r].st = "await" PROVE InLeases' = InLeases - Freed(p, r)
  <2>1. PICK s \in Slots : s = check[p][r].slot /\ lease[p][s].st = "settled"
    BY <1>5 DEF TypeInv, AwaitsSlot
  <2>2. \A q \in Procs, t \in Slots : q # p \/ t # s => Lent(q, t)' = Lent(q, t)
    BY <1>1, <1>2, <2>1
  <2>3. Lent(p, s)' = 0
    <3>1. lease'[p][s] = lease[p][s]
      BY <2>1 DEF Onward
    <3>2. ASSUME check'[p][r].st = "await" PROVE check'[p][r].slot # s
      <4>1. lease[p][check'[p][r].slot].st = "free"
        BY <3>2 DEF Onward
      <4> QED BY <2>1, <4>1
    <3>3. ASSUME NEW q \in Reqs, q # r, check'[p][q].st = "await" PROVE check'[p][q].slot # s
      <4>1. check'[p][q] = check[p][q]
        BY <3>3 DEF Onward
      <4>2. check[p][q].st = "await" /\ check[p][q].slot = check[p][r].slot => r = q
        BY <1>5 DEF PlaceInv, Solo
      <4> QED BY <2>1, <3>3, <4>1, <4>2
    <3>4. ~Awaited(p, s)'
      <4> QED BY <3>2, <3>3 DEF Awaited
    <3> QED BY <2>1, <3>1, <3>4 DEF Lent
  <2>4. InLeases' = InLeases - Lent(p, s) + Lent(p, s)'
    BY <2>1, <2>2, InLeasesMoves
  <2>5. Lent(p, s) \in Nat /\ Freed(p, r) = Lent(p, s)
    BY <1>5, <2>1, TermsNat DEF PlaceInv, Freed
  <2> QED BY ONLY <1>3, <2>3, <2>4, <2>5
<1> QED BY <1>4, <1>5

LEMMA OnwardPlaces ==
    ASSUME OneForOne, TypeInv, TypeInv', PlaceInv, NEW p \in Procs, NEW r \in Reqs, NEW n \in Nat, NEW k \in Nat,
           Onward(p, r, n), JobsGrow(p, k),
           check[p][r].st = "await" => lease[p][check[p][r].slot].st = "settled",
           n + k <= entry[p].balance + Answered(p, r) + Freed(p, r)
    PROVE  PlaceInv'
<1>1. InLeases' = InLeases - Freed(p, r)
  BY OnwardLent
<1>2. InJobs' <= InJobs + k /\ InJobs' \in Int /\ \A q \in Procs : IsFiniteSet(jobs'[q])
  BY InJobsGrow DEF PlaceInv
<1>3. InProcs' = InProcs - entry[p].balance + entry'[p].balance
  BY InProcsMoves DEF Onward
<1>4. InAnswers' = InAnswers - Answered(p, r)
  <2>1. \A q \in Procs, t \in Reqs : q # p \/ t # r => check'[q][t] = check[q][t]
    BY DEF Onward
  <2>2. InAnswers' = InAnswers - Answered(p, r) + Answered(p, r)'
    BY <2>1, InAnswersMoves
  <2>3. Answered(p, r)' = 0
    BY DEF Onward, Answered
  <2>4. InAnswers \in Nat /\ Answered(p, r) \in Nat
    BY PlacesNat, TermsNat DEF PlaceInv
  <2> QED BY ONLY <2>2, <2>3, <2>4
<1>5. InRegions' = InRegions
  BY InRegionsStays DEF Onward
<1>6. Granted' = Granted /\ Returned' = Returned
  BY DEF Onward, Granted, Returned
<1>7. /\ admitted \in Nat /\ InProcs \in Nat /\ InRegions \in Nat /\ InLeases \in Nat /\ InJobs \in Nat
      /\ InAnswers \in Nat /\ Granted \in Nat /\ Returned \in Nat
  BY PlacesNat DEF PlaceInv
<1>8. entry[p].balance \in Nat /\ Answered(p, r) \in Nat
  BY TermsNat DEF PlaceInv
<1>9. Freed(p, r) \in Nat
  <2>1. check[p][r].st = "await" => check[p][r].slot \in Slots
    BY DEF TypeInv, AwaitsSlot
  <2> QED BY <2>1, TermsNat DEF PlaceInv, Freed
<1>10. entry'[p].balance \in Nat /\ admitted' \in Nat
  BY DEF TypeInv, TypeOK, EntryType
<1>11. admitted' + entry'[p].balance <= admitted + n
  BY DEF Onward
<1>12. admitted + InProcs + InRegions + InLeases + InJobs + InAnswers <= Granted - Returned
  BY DEF PlaceInv
<1>13. admitted' + InProcs' + InRegions' + InLeases' + InJobs' + InAnswers' <= Granted' - Returned'
  BY ONLY <1>1, <1>2, <1>3, <1>4, <1>5, <1>6, <1>7, <1>8, <1>9, <1>10, <1>11, <1>12, n \in Nat, k \in Nat,
          n + k <= entry[p].balance + Answered(p, r) + Freed(p, r)
<1>14. ASSUME NEW q \in Procs, q # p PROVE Solo(q)'
  BY <1>14 DEF Onward, PlaceInv, Solo
<1>15. Solo(p)'
  <2> SUFFICES ASSUME NEW t \in Reqs, check'[p][t].st = "await"
               PROVE  /\ lease'[p][check'[p][t].slot].st # "free"
                      /\ \A q \in Reqs : check'[p][q].st = "await" /\ check'[p][q].slot = check'[p][t].slot => q = t
    BY DEF Solo
  <2>1. \A q \in Reqs : q # r /\ check'[p][q].st = "await" =>
           /\ check'[p][q] = check[p][q] /\ check[p][q].slot \in Slots
           /\ lease[p][check[p][q].slot].st # "free" /\ lease'[p][check[p][q].slot].st # "free"
    BY DEF Onward, PlaceInv, Solo, TypeInv, AwaitsSlot
  <2>2. CASE t = r
    BY <2>1, <2>2 DEF Onward
  <2>3. CASE t # r
    BY <2>1, <2>3 DEF Onward, PlaceInv, Solo
  <2> QED BY <2>2, <2>3
<1> QED BY <1>2, <1>13, <1>14, <1>15 DEF PlaceInv
\* A check that does not wait for a lease afterwards.
LEMMA StaysOnward ==
    ASSUME TypeInv, NEW p \in Procs, NEW r \in Reqs, NEW f, NEW d, NEW n,
           UNCHANGED <<now, l2, granted, returned, lease>>,
           entry' = [entry EXCEPT ![p] = f], check' = [check EXCEPT ![p][r] = d],
           d.st \notin {"l2done", "await"}, admitted' + f.balance <= admitted + n
    PROVE  Onward(p, r, n)
<1>1. entry \in [Procs -> EntryType] /\ check \in [Procs -> [Reqs -> CheckType]]
  BY DEF TypeInv, TypeOK
<1>2. entry'[p] = f /\ \A q \in Procs : q # p => entry'[q] = entry[q]
  BY <1>1
<1>3. /\ check'[p][r] = d /\ \A t \in Reqs : t # r => check'[p][t] = check[p][t]
      /\ \A q \in Procs : q # p => check'[q] = check[q]
  BY <1>1
<1> QED BY <1>2, <1>3, Zenon DEF Onward

LEMMA AskOnward ==
    ASSUME OneForOne, TypeInv, NEW p \in Procs, NEW r \in Reqs, NEW c \in CheckType, NEW e \in EntryType, NEW up,
           AskCoordinator(p, r, c, e, up), UNCHANGED <<now, l2, granted, returned>>
    PROVE  Onward(p, r, e.balance)
<1>0. admitted \in Nat /\ e.balance \in Nat
  BY DEF TypeInv, TypeOK, EntryType
<1>1. CASE Deny(p, r, e)
  <2>1. admitted' + e.balance <= admitted + e.balance
    BY <1>0, <1>1 DEF Deny
  <2>2. IdleCheck.st \notin {"l2done", "await"}
    BY DEF IdleCheck
  <2>3. entry' = [entry EXCEPT ![p] = e] /\ check' = [check EXCEPT ![p][r] = IdleCheck] /\ lease' = lease
    BY <1>1 DEF Deny
  <2> QED BY <2>1, <2>2, <2>3, StaysOnward
<1>2. ASSUME NEW s \in Slots, lease[p][s].st = "free",
             lease' = [lease EXCEPT ![p][s] = [FreeLease EXCEPT !.st = "asked", !.tokens = Larger(Batch, c.cost),
                                                                !.win = e.win, !.at = now]],
             entry' = [entry EXCEPT ![p] = [e EXCEPT !.pending = s, !.pendingWin = e.win]],
             Await(p, r, c, s, e.win), admitted' = admitted
      PROVE  Onward(p, r, e.balance)
  <2> DEFINE f == [e EXCEPT !.pending = s, !.pendingWin = e.win]
             d == [c EXCEPT !.st = "await", !.slot = s, !.leaseWin = e.win, !.got = 0]
             l == [FreeLease EXCEPT !.st = "asked", !.tokens = Larger(Batch, c.cost), !.win = e.win, !.at = now]
  <2>1. f.balance = e.balance
    BY DEF EntryType
  <2>2. d.st = "await" /\ d.slot = s
    BY DEF CheckType
  <2>3. l.st = "asked"
    BY DEF FreeLease
  <2> HIDE DEF f, d, l
  <2>4. /\ entry' = [entry EXCEPT ![p] = f] /\ check' = [check EXCEPT ![p][r] = d]
        /\ lease' = [lease EXCEPT ![p][s] = l]
    BY <1>2 DEF f, d, l, Await
  <2>5. entry \in [Procs -> EntryType] /\ lease \in [Procs -> [Slots -> LeaseType]] /\ check \in [Procs -> [Reqs -> CheckType]]
    BY DEF TypeInv, TypeOK
  <2>6. entry'[p] = f /\ \A q \in Procs : q # p => entry'[q] = entry[q]
    BY <2>4, <2>5
  <2>7. /\ check'[p][r] = d /\ \A t \in Reqs : t # r => check'[p][t] = check[p][t]
        /\ \A q \in Procs : q # p => check'[q] = check[q]
    BY <2>4, <2>5
  <2>8. /\ lease'[p][s] = l /\ \A x \in Slots : x # s => lease'[p][x] = lease[p][x]
        /\ \A q \in Procs : q # p => lease'[q] = lease[q]
    BY <2>4, <2>5
  <2>9. admitted' + entry'[p].balance <= admitted + e.balance
    BY <1>0, <1>2, <2>1, <2>6
  <2>10. \A x \in Slots : lease'[p][x] = lease[p][x] \/ (lease[p][x].st = "free" /\ lease'[p][x].st = "asked")
    BY <1>2, <2>3, <2>8
  <2> QED BY <1>2, <2>2, <2>3, <2>6, <2>7, <2>8, <2>9, <2>10, Zenon DEF Onward
<1>3. ~Riders
  BY DEF OneForOne, OneByOne
<1>4. FreeSlots(p) # {} => LET s == CHOOSE x \in FreeSlots(p) : TRUE IN s \in Slots /\ lease[p][s].st = "free"
  BY DEF FreeSlots
<1> QED BY <1>1, <1>2, <1>3, <1>4 DEF AskCoordinator

LEMMA LoopOnward ==
    ASSUME OneForOne, TypeInv, NEW p \in Procs, NEW r \in Reqs, NEW c \in CheckType, NEW e \in EntryType, NEW up,
           Loop(p, r, c, e, up), UNCHANGED <<now, l2, granted, returned>>
    PROVE  Onward(p, r, e.balance)
<1>0. admitted \in Nat /\ e.balance \in Nat /\ c.cost \in Nat
  BY DEF TypeInv, TypeOK, EntryType, CheckType
<1>1. CASE Admit(p, r, c, e)
  <2> DEFINE f == [e EXCEPT !.balance = @ - c.cost]
  <2>1. f.balance = e.balance - c.cost
    BY DEF EntryType
  <2>2. entry' = [entry EXCEPT ![p] = f] /\ check' = [check EXCEPT ![p][r] = IdleCheck] /\ lease' = lease
        /\ admitted' = admitted + c.cost
    BY <1>1 DEF Admit
  <2> HIDE DEF f
  <2>3. admitted' + f.balance <= admitted + e.balance
    BY <1>0, <2>1, <2>2
  <2>4. IdleCheck.st \notin {"l2done", "await"}
    BY DEF IdleCheck
  <2> QED BY <2>2, <2>3, <2>4, StaysOnward
<1>2. CASE AskEscrow(p, r, c, e)
  <2> DEFINE d == [c EXCEPT !.st = "l2", !.got = Larger(Batch, c.cost) - e.balance]
  <2>1. d.st \notin {"l2done", "await"}
    BY DEF CheckType
  <2>2. entry' = [entry EXCEPT ![p] = e] /\ check' = [check EXCEPT ![p][r] = d] /\ lease' = lease /\ admitted' = admitted
    BY <1>2 DEF AskEscrow
  <2> HIDE DEF d
  <2>3. admitted' + e.balance <= admitted + e.balance
    BY <1>0, <2>2
  <2> QED BY <2>1, <2>2, <2>3, StaysOnward
<1>3. CASE AskCoordinator(p, r, c, e, up)
  BY <1>3, AskOnward
<1> QED BY <1>1, <1>2, <1>3 DEF Loop

\* A check from its head spends, keeps and hands back no more than the escrow of its process.
Onwards(p, r) == \E n, k \in Nat : Onward(p, r, n) /\ JobsGrow(p, k) /\ n + k <= entry[p].balance

LEMMA JobsAdded ==
    ASSUME TypeInv, NEW p \in Procs, IsFiniteSet(jobs[p]), NEW j \in JobType, jobs' = [jobs EXCEPT ![p] = @ \cup {j}]
    PROVE  JobsGrow(p, j.left)
<1>1. jobs \in [Procs -> SUBSET JobType]
  BY DEF TypeInv, TypeOK
<1>2. jobs'[p] = jobs[p] \cup {j} /\ \A q \in Procs : q # p => jobs'[q] = jobs[q]
  BY <1>1
<1>3. jobs[p] \in SUBSET JobType
  BY <1>1
<1>4. IsFiniteSet(jobs[p] \cup {j}) /\ JobsWorth(jobs[p] \cup {j}) <= JobsWorth(jobs[p]) + j.left
  BY <1>3, JobsWorthIs
<1> QED BY <1>2, <1>4 DEF JobsGrow

LEMMA JobsStay ==
    ASSUME TypeInv, NEW p \in Procs, IsFiniteSet(jobs[p]), \A q \in Procs : jobs'[q] = jobs[q]
    PROVE  JobsGrow(p, 0)
<1>1. jobs[p] \in SUBSET JobType
  BY DEF TypeInv, TypeOK
<1>2. JobsWorth(jobs[p]) \in Nat
  BY <1>1, JobsWorthIs
<1>3. JobsWorth(jobs[p]) <= JobsWorth(jobs[p]) + 0
  BY ONLY <1>2
<1> QED BY <1>3 DEF JobsGrow

LEMMA EnterOnwards ==
    ASSUME OneForOne, TypeInv, NEW p \in Procs, IsFiniteSet(jobs[p]), NEW r \in Reqs, NEW c \in CheckType, NEW up,
           Enter(p, r, c, up), UNCHANGED <<now, l2, granted, returned>>
    PROVE  Onwards(p, r)
<1> DEFINE old == entry[p]
           e == Advance(old, c.win)
           new == RollJobs(old, c.win)
<1>1. old \in EntryType /\ c.win \in Nat /\ jobs \in [Procs -> SUBSET JobType]
  BY DEF TypeInv, TypeOK, CheckType
<1>2. e \in EntryType /\ Loop(p, r, c, e, up) /\ jobs' = [jobs EXCEPT ![p] = @ \cup new]
  BY <1>1, AdvanceTyped DEF Enter
<1>3. Onward(p, r, e.balance)
  <2> HIDE DEF e
  <2> QED BY <1>2, LoopOnward
<1>4. e.balance \in Nat /\ old.balance \in Nat
  BY <1>1, <1>2 DEF EntryType
<1>5. ASSUME new = {}, e.balance <= old.balance PROVE Onwards(p, r)
  <2>1. \A q \in Procs : jobs'[q] = jobs[q]
    <3> HIDE DEF new
    <3> QED BY <1>1, <1>2, <1>5
  <2>2. JobsGrow(p, 0)
    BY <2>1, JobsStay
  <2>3. e.balance + 0 <= old.balance /\ 0 \in Nat
    BY <1>4, <1>5
  <2> HIDE DEF e
  <2> QED BY <1>3, <1>4, <2>2, <2>3 DEF Onwards
<1>6. CASE ~old.has
  <2>1. e.balance = 0
    BY <1>1, <1>6 DEF Advance, FreshEntry, NoEntry
  <2>2. new = {}
    BY <1>6 DEF RollJobs, NeedsRoll
  <2>3. 0 <= old.balance
    BY <1>4
  <2> QED BY <1>5, <2>1, <2>2, <2>3
<1>7. CASE old.has /\ ~NeedsRoll(old, c.win)
  <2>1. e = old /\ new = {}
    BY <1>7 DEF Advance, RollJobs
  <2>2. old.balance <= old.balance
    BY <1>4
  <2> QED BY <1>5, <2>1, <2>2
<1>8. ASSUME NeedsRoll(old, c.win) PROVE Onwards(p, r)
  <2>1. e.balance = 0
    BY <1>1, <1>8 DEF Advance, NeedsRoll, Rolled, EntryType
  <2>2. CASE new = {}
    <3>1. 0 <= old.balance
      BY <1>4
    <3> QED BY <1>5, <2>1, <2>2, <3>1
  <2>3. ASSUME NEW st \in {"release", "reconcile"}, new = {[st |-> st, left |-> old.balance, win |-> old.win]}
        PROVE  Onwards(p, r)
    <3>1. PICK j : j = [st |-> st, left |-> old.balance, win |-> old.win]
      OBVIOUS
    <3>2. j \in JobType /\ j.left = old.balance
      BY <1>1, <3>1 DEF JobType, EntryType
    <3>3. jobs' = [jobs EXCEPT ![p] = @ \cup {j}]
      BY <1>2, <2>3, <3>1
    <3>4. JobsGrow(p, old.balance)
      BY <3>2, <3>3, JobsAdded
    <3>5. 0 + old.balance <= old.balance /\ 0 \in Nat
      BY <1>4
    <3> QED BY <1>3, <1>4, <2>1, <3>4, <3>5 DEF Onwards
  <2> QED BY <2>2, <2>3 DEF RollJobs
<1> QED BY <1>6, <1>7, <1>8 DEF NeedsRoll

LEMMA BeginOnwards ==
    ASSUME OneForOne, TypeInv, NEW p \in Procs, IsFiniteSet(jobs[p]), NEW r \in Reqs, NEW cost \in Nat,
           Begin(p, r, cost), UNCHANGED <<now, l2, granted, returned>>
    PROVE  Onwards(p, r)
<1> DEFINE c == [IdleCheck EXCEPT !.st = "probe", !.cost = cost, !.win = LocalWindow(p)]
<1>1. LocalWindow(p) \in Nat
  BY LocalNat DEF TypeInv
<1>2. c \in CheckType /\ c.st = "probe"
  BY <1>1 DEF IdleCheck, CheckType
<1>3. CASE Enter(p, r, c, healthy[p])
  <2> HIDE DEF c
  <2> QED BY <1>2, <1>3, EnterOnwards
<1>4. ASSUME check' = [check EXCEPT ![p][r] = c], UNCHANGED <<entry, lease, jobs, admitted, prompt>>
      PROVE  Onwards(p, r)
  <2>1. entry' = [entry EXCEPT ![p] = entry[p]]
    BY <1>4 DEF TypeInv, TypeOK
  <2>2. admitted \in Nat /\ entry[p].balance \in Nat
    BY DEF TypeInv, TypeOK, EntryType
  <2>3. admitted' + entry[p].balance <= admitted + entry[p].balance
    BY <1>4, <2>2
  <2>4. c.st \notin {"l2done", "await"}
    BY <1>2
  <2>5. Onward(p, r, entry[p].balance)
    <3> HIDE DEF c
    <3> QED BY <1>4, <2>1, <2>3, <2>4, StaysOnward
  <2>6. JobsGrow(p, 0)
    BY <1>4, JobsStay
  <2>7. entry[p].balance + 0 <= entry[p].balance /\ 0 \in Nat
    BY <2>2
  <2> QED BY <2>2, <2>5, <2>6, <2>7 DEF Onwards
<1> QED BY <1>3, <1>4 DEF Begin
----------------------------------------------------------------------------
(* Every step keeps the units in their places *)

LEMMA OnwardsPlaces ==
    ASSUME OneForOne, TypeInv, TypeInv', PlaceInv, NEW p \in Procs, NEW r \in Reqs, Onwards(p, r),
           check[p][r].st = "await" => lease[p][check[p][r].slot].st = "settled"
    PROVE  PlaceInv'
<1>1. PICK n \in Nat, k \in Nat : Onward(p, r, n) /\ JobsGrow(p, k) /\ n + k <= entry[p].balance
  BY DEF Onwards
<1>2. entry[p].balance \in Nat /\ Answered(p, r) \in Nat
  BY TermsNat DEF PlaceInv
<1>3. Freed(p, r) \in Nat
  <2>1. check[p][r].st = "await" => check[p][r].slot \in Slots
    BY DEF TypeInv, AwaitsSlot
  <2> QED BY <2>1, TermsNat DEF PlaceInv, Freed
<1>4. n + k <= entry[p].balance + Answered(p, r) + Freed(p, r)
  BY ONLY <1>1, <1>2, <1>3
<1> QED BY <1>1, <1>4, OnwardPlaces

LEMMA CallPlaces ==
    ASSUME OneForOne, TypeInv, TypeInv', PlaceInv, NEW p \in Procs, NEW r \in Reqs, NEW cost \in Nat, Call(p, r, cost)
    PROVE  PlaceInv'
<1>1. Begin(p, r, cost) /\ UNCHANGED <<now, l2, granted, returned>> /\ check[p][r].st = "idle"
  BY DEF Call
<1>2. IsFiniteSet(jobs[p])
  BY DEF PlaceInv
<1> QED BY <1>1, <1>2, BeginOnwards, OnwardsPlaces

LEMMA ProbedPlaces ==
    ASSUME OneForOne, TypeInv, TypeInv', PlaceInv, NEW p \in Procs, NEW r \in Reqs, Probed(p, r)
    PROVE  PlaceInv'
<1>1. PICK up : Enter(p, r, check[p][r], up) /\ UNCHANGED <<now, l2, granted, returned>>
  BY DEF Probed
<1>2. check[p][r].st = "probe" /\ check[p][r] \in CheckType
  BY DEF Probed, TypeInv, TypeOK
<1>3. IsFiniteSet(jobs[p])
  BY DEF PlaceInv
<1> QED BY <1>1, <1>2, <1>3, EnterOnwards, OnwardsPlaces

LEMMA EscrowAnswersPlaces ==
    ASSUME OneForOne, TypeInv, TypeInv', PlaceInv, NEW p \in Procs, NEW r \in Reqs, EscrowAnswers(p, r)
    PROVE  PlaceInv'
<1> DEFINE c == check[p][r]
           e == entry[p]
           f == [e EXCEPT !.balance = @ + c.got]
<1>1. c.st = "l2done" /\ UNCHANGED <<now, l2, granted, returned>>
  BY DEF EscrowAnswers
<1>2. c \in CheckType /\ e \in EntryType
  BY DEF TypeInv, TypeOK
<1>3. c.got \in Nat /\ c.cost \in Nat /\ e.balance \in Nat /\ f \in EntryType /\ f.balance = e.balance + c.got
  BY <1>2 DEF CheckType, EntryType
<1>4. IsFiniteSet(jobs[p])
  BY DEF PlaceInv
<1>5. Answered(p, r) = c.got /\ Freed(p, r) = 0
  BY <1>1 DEF Answered, Freed
<1>6. CASE Begin(p, r, c.cost)
  BY <1>1, <1>3, <1>4, <1>6, BeginOnwards, OnwardsPlaces
<1>7. ASSUME NEW n \in Nat, Onward(p, r, n), n <= e.balance + c.got, UNCHANGED jobs PROVE PlaceInv'
  <2>1. JobsGrow(p, 0)
    BY <1>4, <1>7, JobsStay
  <2>2. n + 0 <= e.balance + Answered(p, r) + Freed(p, r) /\ 0 \in Nat
    BY ONLY <1>3, <1>5, <1>7
  <2>3. c.st # "await"
    BY <1>1
  <2> QED BY <1>7, <2>1, <2>2, <2>3, OnwardPlaces
<1>8. CASE Loop(p, r, c, f, healthy[p]) /\ UNCHANGED jobs
  <2>1. f.balance \in Nat /\ f.balance <= e.balance + c.got
    BY <1>3
  <2>2. Onward(p, r, f.balance)
    <3> HIDE DEF c, f
    <3> QED BY <1>1, <1>2, <1>3, <1>8, LoopOnward
  <2> QED BY <1>7, <1>8, <2>1, <2>2
<1>9. CASE AskCoordinator(p, r, c, e, healthy[p]) /\ UNCHANGED jobs
  <2>1. e.balance <= e.balance + c.got
    BY ONLY <1>3
  <2>2. Onward(p, r, e.balance)
    <3> HIDE DEF c, e
    <3> QED BY SMTT(30), <1>1, <1>2, <1>9, AskOnward
  <2> QED BY <1>3, <1>7, <1>9, <2>1, <2>2
<1> QED BY <1>6, <1>8, <1>9 DEF EscrowAnswers

LEMMA ResumePlaces ==
    ASSUME OneForOne, TypeInv, TypeInv', PlaceInv, NEW p \in Procs, NEW r \in Reqs, Resume(p, r)
    PROVE  PlaceInv'
<1> DEFINE c == check[p][r]
           s == c.slot
           e == ClearPending(entry[p], s)
           grant == lease[p][s].grant
           f == [e EXCEPT !.balance = @ + grant]
           job == [st |-> "reconcile", left |-> grant, win |-> c.leaseWin]
<1>1. UNCHANGED <<now, l2, granted, returned>> /\ c.st = "await" /\ lease[p][s].st = "settled"
  BY DEF Resume
<1>2. /\ c \in CheckType /\ entry[p] \in EntryType /\ e \in EntryType /\ s \in Slots /\ c.cost \in Nat /\ grant \in Nat
      /\ c.leaseWin \in Nat
  <2>1. c \in CheckType /\ entry[p] \in EntryType /\ s \in Slots
    BY <1>1 DEF TypeInv, TypeOK, AwaitsSlot
  <2>2. lease[p][s] \in LeaseType
    BY <2>1 DEF TypeInv, TypeOK
  <2> QED BY <2>1, <2>2, ClearTyped DEF CheckType, LeaseType
<1>3. e.balance = entry[p].balance /\ e.balance \in Nat /\ f \in EntryType /\ f.balance = e.balance + grant
  BY <1>2 DEF ClearPending, EntryType
<1>4. IsFiniteSet(jobs[p])
  BY DEF PlaceInv
<1>5. Freed(p, r) = grant /\ Answered(p, r) = 0
  <2>1. Awaited(p, s)
    BY <1>1 DEF Awaited
  <2> QED BY <1>1, <2>1 DEF Freed, Lent, Answered
<1>6. CASE Begin(p, r, c.cost)
  BY <1>1, <1>2, <1>4, <1>6, BeginOnwards, OnwardsPlaces
<1>7. ASSUME NEW n \in Nat, NEW k \in Nat, Onward(p, r, n), JobsGrow(p, k), n + k <= e.balance + grant PROVE PlaceInv'
  <2>1. n + k <= entry[p].balance + Answered(p, r) + Freed(p, r)
    BY ONLY SMTT(30), <1>2, <1>3, <1>5, <1>7
  <2> QED BY <1>1, <1>7, <2>1, OnwardPlaces
<1>8. ASSUME jobs' = [jobs EXCEPT ![p] = @ \cup {job}], Loop(p, r, c, e, healthy[p]) PROVE PlaceInv'
  <2>1. Onward(p, r, e.balance)
    <3> HIDE DEF c, e
    <3> QED BY <1>1, <1>2, <1>8, LoopOnward
  <2>2. job \in JobType /\ job.left = grant
    BY <1>2 DEF JobType
  <2>3. JobsGrow(p, grant)
    <3> HIDE DEF job
    <3> QED BY <1>4, <1>8, <2>2, JobsAdded
  <2>4. e.balance + grant <= e.balance + grant
    BY ONLY <1>2, <1>3
  <2> QED BY <1>2, <1>3, <1>7, <2>1, <2>3, <2>4
<1>9. ASSUME NEW n \in Nat, Onward(p, r, n), n <= e.balance + grant, UNCHANGED jobs PROVE PlaceInv'
  <2>1. JobsGrow(p, 0)
    BY <1>4, <1>9, JobsStay
  <2>2. n + 0 <= e.balance + grant /\ 0 \in Nat
    BY ONLY SMTT(30), <1>2, <1>3, <1>9
  <2> QED BY <1>7, <1>9, <2>1, <2>2
<1>10. CASE Loop(p, r, c, f, healthy[p]) /\ UNCHANGED jobs
  <2>1. f.balance \in Nat /\ f.balance <= e.balance + grant
    BY <1>2, <1>3
  <2>2. Onward(p, r, f.balance)
    <3> HIDE DEF c, f
    <3> QED BY <1>1, <1>2, <1>3, <1>10, LoopOnward
  <2> QED BY <1>9, <1>10, <2>1, <2>2
<1>11. CASE Deny(p, r, e) /\ UNCHANGED jobs
  <2>1. /\ entry' = [entry EXCEPT ![p] = e] /\ check' = [check EXCEPT ![p][r] = IdleCheck] /\ lease' = lease
        /\ admitted' = admitted
    BY <1>11 DEF Deny
  <2>2. IdleCheck.st \notin {"l2done", "await"}
    BY DEF IdleCheck
  <2>3. admitted \in Nat
    BY DEF TypeInv, TypeOK
  <2>4. admitted' + e.balance <= admitted + e.balance
    BY <1>3, <2>1, <2>3
  <2>5. Onward(p, r, e.balance)
    <3> HIDE DEF e
    <3> QED BY <1>1, <2>1, <2>2, <2>4, StaysOnward
  <2>6. e.balance <= e.balance + grant
    BY ONLY <1>2, <1>3
  <2> QED BY <1>3, <1>9, <1>11, <2>5, <2>6
<1> QED BY <1>6, <1>8, <1>10, <1>11 DEF Resume

\* The sums of the history.
LEMMA GrantedMoves ==
    ASSUME OneForOne, TypeInv, NEW w \in Windows, NEW g \in Nat, granted' = [granted EXCEPT ![w] = @ + g]
    PROVE  Granted' = Granted + g
<1>1. granted \in [Windows -> Nat]
  BY DEF TypeInv, TypeOK
<1>2. /\ granted'[w] = granted[w] + g /\ granted[w] \in Nat
      /\ \A x \in Windows : granted[x] \in Int /\ granted'[x] \in Int
      /\ \A x \in Windows : x # w => granted[x] = granted'[x]
  <2>1. granted'[w] = granted[w] + g /\ granted[w] \in Nat
    BY <1>1
  <2>2. \A x \in Windows : x # w => granted[x] = granted'[x]
    BY <1>1
  <2>3. \A x \in Windows : granted[x] \in Int
    BY <1>1
  <2> QED BY <2>1, <2>2, <2>3
<1>3. Granted' = SumFunctionOnSet(granted', Windows)
  BY DEF Granted, Windows
<1>4. IsFiniteSet(Windows)
  BY PlacesFinite
<1>5. SumFunctionOnSet(granted', Windows) = SumFunctionOnSet(granted, Windows) - granted[w] + granted'[w]
  <2> DEFINE a == granted
             b == granted'
  <2>1. /\ \A x \in Windows : a[x] \in Int /\ b[x] \in Int
        /\ \A x \in Windows : x # w => a[x] = b[x]
    BY <1>2
  <2> HIDE DEF a, b
  <2>2. SumFunctionOnSet(b, Windows) = SumFunctionOnSet(a, Windows) - a[w] + b[w]
    BY ONLY <1>4, <2>1, SetSumUpdate, w \in Windows
  <2> QED BY <2>2 DEF a, b
<1>6. Granted \in Int
  BY ONLY <1>2, <1>4, SetSumInt DEF Granted
<1>7. Granted = SumFunctionOnSet(granted, Windows)
  BY DEF Granted
<1> QED BY ONLY <1>2, <1>3, <1>5, <1>6, <1>7, g \in Nat

LEMMA ReturnedMoves ==
    ASSUME OneForOne, TypeInv, NEW w \in Windows, NEW g \in Nat, returned' = [returned EXCEPT ![w] = @ + g]
    PROVE  Returned' = Returned + g
<1>1. returned \in [Windows -> Nat]
  BY DEF TypeInv, TypeOK
<1>2. /\ returned'[w] = returned[w] + g /\ returned[w] \in Nat
      /\ \A x \in Windows : returned[x] \in Int /\ returned'[x] \in Int
      /\ \A x \in Windows : x # w => returned[x] = returned'[x]
  <2>1. returned'[w] = returned[w] + g /\ returned[w] \in Nat
    BY <1>1
  <2>2. \A x \in Windows : x # w => returned[x] = returned'[x]
    BY <1>1
  <2>3. \A x \in Windows : returned[x] \in Int
    BY <1>1
  <2> QED BY <2>1, <2>2, <2>3
<1>3. Returned' = SumFunctionOnSet(returned', Windows)
  BY DEF Returned, Windows
<1>4. IsFiniteSet(Windows)
  BY PlacesFinite
<1>5. SumFunctionOnSet(returned', Windows) = SumFunctionOnSet(returned, Windows) - returned[w] + returned'[w]
  <2> DEFINE a == returned
             b == returned'
  <2>1. /\ \A x \in Windows : a[x] \in Int /\ b[x] \in Int
        /\ \A x \in Windows : x # w => a[x] = b[x]
    BY <1>2
  <2> HIDE DEF a, b
  <2>2. SumFunctionOnSet(b, Windows) = SumFunctionOnSet(a, Windows) - a[w] + b[w]
    BY ONLY <1>4, <2>1, SetSumUpdate, w \in Windows
  <2> QED BY <2>2 DEF a, b
<1>6. Returned \in Int
  BY ONLY <1>2, <1>4, SetSumInt DEF Returned
<1>7. Returned = SumFunctionOnSet(returned, Windows)
  BY DEF Returned
<1> QED BY ONLY <1>2, <1>3, <1>5, <1>6, <1>7, g \in Nat
\* Writing the escrow of a region.
LEMMA InRegionsWritten ==
    ASSUME OneForOne, TypeInv, TypeInv', PlaceInv, NEW g \in Regions, NEW f \in EscrowType,
           now' = now, l2' = [l2 EXCEPT ![g] = f]
    PROVE  InRegions' \in Int /\ InRegions' <= InRegions - Escrow(g).balance + f.balance
<1>1. l2 \in [Regions -> EscrowType]
  BY DEF TypeInv, TypeOK, Regions
<1>2. l2'[g] = f /\ \A b \in Regions : b # g => l2'[b] = l2[b]
  BY <1>1
<1>3. InRegions' = InRegions - Escrow(g).balance + Escrow(g)'.balance
  BY <1>2, InRegionsMoves
<1>4. f.balance \in Nat /\ Escrow(g)'.balance \in Nat /\ Escrow(g)'.balance <= f.balance
  BY <1>2 DEF Escrow, EmptyEscrow, EscrowType
<1>5. InRegions \in Nat /\ Escrow(g).balance \in Nat
  BY PlacesNat, TermsNat DEF PlaceInv
<1> QED BY ONLY <1>3, <1>4, <1>5

\* Where a process has its region.
LEMMA RegionIn == ASSUME NEW p \in Procs PROVE RegionOf[p] \in Regions
BY DEF Regions

LEMMA AnsweredPlaces ==
    ASSUME OneForOne, TypeInv, TypeInv', PlaceInv, NEW p \in Procs, NEW r \in Reqs, EscrowLease(p, r)
    PROVE  PlaceInv'
<1> DEFINE g == RegionOf[p]
           e == Escrow(g)
           got == Smaller(check[p][r].got, e.balance)
           f == [e EXCEPT !.balance = @ - got]
<1>1. g \in Regions /\ e \in EscrowType /\ e.balance \in Nat
  BY RegionIn, TermsNat DEF PlaceInv
<1>2. got \in Nat /\ got <= e.balance
  <2>1. check[p][r].got \in Nat
    BY DEF TypeInv, TypeOK, CheckType
  <2> QED BY <1>1, <2>1, SmallerNat
<1>3. f \in EscrowType /\ f.balance = e.balance - got
  BY <1>1, <1>2 DEF EscrowType
<1>4. UNCHANGED <<now, entry, lease, jobs, granted, returned, admitted>> /\ check[p][r].st = "l2"
  BY DEF EscrowLease
<1>5. InRegions \in Nat /\ InAnswers \in Nat
  BY PlacesNat DEF PlaceInv
<1>6. ASSUME NEW w \in EscrowType, NEW m \in Nat, w.balance + m <= e.balance, l2' = [l2 EXCEPT ![g] = w]
      PROVE  \E b \in Int : InRegions' = b /\ b + m <= InRegions
  <2>1. InRegions' \in Int /\ InRegions' <= InRegions - e.balance + w.balance
    <3> HIDE DEF g
    <3> QED BY <1>1, <1>4, <1>6, InRegionsWritten
  <2>2. PICK b \in Int : InRegions' = b /\ b <= InRegions - e.balance + w.balance
    BY <2>1
  <2>3. w.balance \in Nat
    BY DEF EscrowType
  <2>4. b + m <= InRegions
    BY ONLY <1>1, <1>5, <1>6, <2>2, <2>3, b \in Int, m \in Nat
  <2> QED BY <2>2, <2>4
<1>0. PICK m \in Nat : m = got /\ f.balance + m <= e.balance
  BY <1>1, <1>2, <1>3
<1>7. PICK n \in Nat, b \in Int :
          check' = [check EXCEPT ![p][r].st = "l2done", ![p][r].got = n] /\ InRegions' = b /\ b + n <= InRegions
  <2>0. ASSUME l2' = [l2 EXCEPT ![g] = f] PROVE \E b \in Int : InRegions' = b /\ b + m <= InRegions
    <3> HIDE DEF f, g, e
    <3> QED BY <1>3, <1>6, <1>0, <2>0
  <2>1. CASE /\ l2' = [l2 EXCEPT ![g] = f]
             /\ check' = [check EXCEPT ![p][r].st = "l2done", ![p][r].got = got]
    <3> HIDE DEF got, f
    <3> QED BY <1>0, <2>0, <2>1
  <2>2. CASE /\ l2' \in {l2, [l2 EXCEPT ![g] = f]}
             /\ check' = [check EXCEPT ![p][r].st = "l2done", ![p][r].got = 0]
    <3>1. \E b \in Int : InRegions' = b /\ b + 0 <= InRegions
      <4>1. CASE l2' = l2
        <5>1. InRegions' = InRegions
          BY <1>4, <4>1, InRegionsStays
        <5> QED BY ONLY <1>5, <5>1
      <4>2. CASE l2' = [l2 EXCEPT ![g] = f]
        <5>1. PICK b \in Int : InRegions' = b /\ b + m <= InRegions
          BY <2>0, <4>2
        <5>2. b + 0 <= InRegions
          BY ONLY <1>5, <5>1, m \in Nat, b \in Int
        <5> QED BY <5>1, <5>2
      <4> QED BY <2>2, <4>1, <4>2
    <3>2. 0 \in Nat
      OBVIOUS
    <3> HIDE DEF f
    <3> QED BY <2>2, <3>1, <3>2
  <2> QED BY <2>1, <2>2 DEF EscrowLease
<1>8. check \in [Procs -> [Reqs -> CheckType]]
  BY DEF TypeInv, TypeOK
<1>9. /\ check'[p][r].st = "l2done" /\ check'[p][r].got = n
      /\ \A t \in Reqs : t # r => check'[p][t] = check[p][t]
      /\ \A q \in Procs : q # p => check'[q] = check[q]
  <2>1. check[p][r] \in CheckType /\ check[p] \in [Reqs -> CheckType]
    BY <1>8
  <2>2. check'[p][r] = [check[p][r] EXCEPT !.st = "l2done", !.got = n]
    BY <1>7, <1>8
  <2>3. check'[p][r].st = "l2done" /\ check'[p][r].got = n
    BY <2>1, <2>2 DEF CheckType
  <2> QED BY <1>7, <1>8, <2>3
<1>10. InAnswers' = InAnswers + n
  <2>1. \A q \in Procs, t \in Reqs : q # p \/ t # r => check'[q][t] = check[q][t]
    BY <1>9
  <2>2. InAnswers' = InAnswers - Answered(p, r) + Answered(p, r)'
    BY <2>1, InAnswersMoves
  <2>3. Answered(p, r) = 0 /\ Answered(p, r)' = n
    BY <1>4, <1>9 DEF Answered
  <2> QED BY ONLY <1>5, <2>2, <2>3, n \in Nat
<1>11. \A q \in Procs, t \in Reqs : (check'[q][t].st = "await" \/ check[q][t].st = "await") => check'[q][t] = check[q][t]
  BY <1>4, <1>9
<1>12. InLeases' = InLeases
  <2>1. \A q \in Procs, s \in Slots : Awaited(q, s)' = Awaited(q, s)
    BY <1>11 DEF Awaited
  <2>2. \A q \in Procs, s \in Slots : Lent(q, s)' = Lent(q, s)
    BY <1>4, <2>1 DEF Lent
  <2> QED BY <2>2, InLeasesStays
<1>13. InProcs' = InProcs /\ InJobs' = InJobs /\ Granted' = Granted /\ Returned' = Returned
  BY <1>4, InProcsStays, InJobsStays DEF Granted, Returned
<1>14. /\ admitted \in Nat /\ InProcs \in Nat /\ InLeases \in Nat /\ InJobs \in Nat
       /\ Granted \in Nat /\ Returned \in Nat
       /\ admitted + InProcs + InRegions + InLeases + InJobs + InAnswers <= Granted - Returned
  BY PlacesNat DEF PlaceInv
<1>15. admitted' = admitted
  BY <1>4
<1>16. admitted' + InProcs' + InRegions' + InLeases' + InJobs' + InAnswers' <= Granted' - Returned'
  BY ONLY <1>5, <1>7, <1>10, <1>12, <1>13, <1>14, <1>15, n \in Nat
<1>17. \A q \in Procs : IsFiniteSet(jobs'[q]) /\ Solo(q)'
  BY <1>4, <1>11 DEF PlaceInv, Solo
<1> QED BY <1>16, <1>17 DEF PlaceInv

----------------------------------------------------------------------------
\* A step of a lease: what it is worth comes from the coordinator or from the escrow of its region.
LEMMA LeasePlaces ==
    ASSUME OneForOne, TypeInv, TypeInv', PlaceInv, NEW p \in Procs, NEW s \in Slots, NEW g \in Nat,
           UNCHANGED <<entry, check, jobs, returned, admitted>>,
           \A q \in Procs : q # p => lease'[q] = lease[q],
           \A x \in Slots : x # s => lease'[p][x] = lease[p][x],
           lease'[p][s].st # "free" \/ \A r \in Reqs : ~(check[p][r].st = "await" /\ check[p][r].slot = s),
           Granted' = Granted + g, InRegions' \in Int,
           InRegions' + Lent(p, s)' <= InRegions + Lent(p, s) + g
    PROVE  PlaceInv'
<1>1. \A q \in Procs, t \in Slots : Awaited(q, t)' = Awaited(q, t)
  BY DEF Awaited
<1>2. \A q \in Procs, t \in Slots : q # p \/ t # s => Lent(q, t)' = Lent(q, t)
  BY <1>1 DEF Lent
<1>3. InLeases' = InLeases - Lent(p, s) + Lent(p, s)'
  BY <1>2, InLeasesMoves
<1>4. InProcs' = InProcs /\ InJobs' = InJobs /\ InAnswers' = InAnswers /\ Returned' = Returned /\ admitted' = admitted
  BY InProcsStays, InJobsStays, InAnswersStays DEF Returned
<1>5. /\ admitted \in Nat /\ InProcs \in Nat /\ InRegions \in Nat /\ InLeases \in Nat /\ InJobs \in Nat
      /\ InAnswers \in Nat /\ Granted \in Nat /\ Returned \in Nat
      /\ admitted + InProcs + InRegions + InLeases + InJobs + InAnswers <= Granted - Returned
  BY PlacesNat DEF PlaceInv
<1>6. Lent(p, s) \in Nat
  BY TermsNat DEF PlaceInv
<1>7. Lent(p, s)' \in Nat
  <2>1. lease'[p][s].grant \in Nat
    BY DEF TypeInv, TypeOK, LeaseType
  <2> QED BY <2>1 DEF Lent
<1>8. admitted' + InProcs' + InRegions' + InLeases' + InJobs' + InAnswers' <= Granted' - Returned'
  BY ONLY <1>3, <1>4, <1>5, <1>6, <1>7, g \in Nat, Granted' = Granted + g, InRegions' \in Int,
          InRegions' + Lent(p, s)' <= InRegions + Lent(p, s) + g
<1>9. ASSUME NEW q \in Procs PROVE IsFiniteSet(jobs'[q]) /\ Solo(q)'
  <2>1. IsFiniteSet(jobs[q]) /\ Solo(q)
    BY DEF PlaceInv
  <2>2. ASSUME NEW t \in Reqs, check[q][t].st = "await" PROVE lease'[q][check[q][t].slot].st # "free"
    <3>1. check[q][t].slot \in Slots /\ lease[q][check[q][t].slot].st # "free"
      BY <2>1, <2>2 DEF Solo, TypeInv, AwaitsSlot
    <3> QED BY <2>2, <3>1
  <2> QED BY <2>1, <2>2 DEF Solo
<1> QED BY <1>8, <1>9 DEF PlaceInv
\* The leases and the escrow of a region between them.
LEMMA LeaseStepPlaces ==
    ASSUME OneForOne, TypeInv, TypeInv', RowInv, PlaceInv, NEW p \in Procs, NEW s \in Slots, LeaseStep(p, s)
    PROVE  PlaceInv'
<1> DEFINE c == lease[p][s]
           r == RegionOf[p]
           e == Escrow(r)
<1>1. c \in LeaseType /\ c.grant \in Nat /\ c.tokens \in Nat /\ c.win \in Nat
  <2>1. c \in LeaseType
    BY DEF TypeInv, TypeOK
  <2> QED BY <2>1 DEF LeaseType
<1>2. r \in Regions /\ e \in EscrowType /\ e.balance \in Nat
  BY RegionIn, TermsNat DEF PlaceInv
<1>3. Lent(p, s) \in Nat /\ InRegions \in Nat /\ Granted \in Nat
  BY PlacesNat, TermsNat DEF PlaceInv
<1>4. ASSUME UNCHANGED <<entry, check, jobs, returned, granted, admitted>>,
             \A q \in Procs : q # p => lease'[q] = lease[q],
             \A x \in Slots : x # s => lease'[p][x] = lease[p][x],
             lease'[p][s].st # "free" \/ \A q \in Reqs : ~(check[p][q].st = "await" /\ check[p][q].slot = s),
             InRegions' \in Int, InRegions' + Lent(p, s)' <= InRegions + Lent(p, s)
      PROVE  PlaceInv'
  <2>1. Granted' = Granted + 0 /\ 0 \in Nat
    <3>1. Granted' = Granted
      BY <1>4 DEF Granted
    <3> QED BY ONLY <1>3, <3>1
  <2>2. InRegions' + Lent(p, s)' <= InRegions + Lent(p, s) + 0
    BY ONLY <1>3, <1>4
  <2> QED BY <1>4, <2>1, <2>2, LeasePlaces
<1>5. CASE CoordinatorLease(p, s)
  <2> DEFINE g == GrantOf(RowAt(Current), lease[p][s].tokens)
  <2>1. /\ g \in Nat /\ granted' = [granted EXCEPT ![Current] = @ + g]
        /\ lease' = [lease EXCEPT ![p][s].st = "granted", ![p][s].grant = g]
    BY <1>5, RowLease DEF OneForOne, OneByOne
  <2> HIDE DEF g
  <2>2. PICK n \in Nat : n = g
    BY <2>1
  <2>3. PICK w \in Windows : w = Current
    BY CurrentInRange DEF TypeInv, TypeOK
  <2>4. granted' = [granted EXCEPT ![w] = @ + n] /\ lease' = [lease EXCEPT ![p][s].st = "granted", ![p][s].grant = n]
    BY <2>1, <2>2, <2>3
  <2>5. Granted' = Granted + n
    BY <2>4, GrantedMoves
  <2>6. /\ lease'[p][s].st = "granted" /\ lease'[p][s].grant = n
        /\ \A q \in Procs : q # p => lease'[q] = lease[q]
        /\ \A y \in Slots : y # s => lease'[p][y] = lease[p][y]
    BY ZenonT(60), <2>4, LeaseWrites
  <2>7. UNCHANGED <<now, l2, entry, check, jobs, returned, admitted>> /\ c.st = "asked"
    BY <1>5 DEF CoordinatorLease
  <2>8. Lent(p, s) = 0 /\ Lent(p, s)' = n
    BY <2>6, <2>7 DEF Lent
  <2>9. InRegions' = InRegions
    BY <2>7, InRegionsStays
  <2>10. InRegions' \in Int /\ InRegions' + Lent(p, s)' <= InRegions + Lent(p, s) + n
    BY ONLY <1>3, <2>8, <2>9, n \in Nat
  <2> HIDE DEF c
  <2> QED BY <2>5, <2>6, <2>7, <2>10, LeasePlaces
<1>6. ASSUME NEW n \in Nat, n <= Lent(p, s), l2' = l2, now' = now, Lent(p, s)' = n
      PROVE  InRegions' \in Int /\ InRegions' + Lent(p, s)' <= InRegions + Lent(p, s)
  <2>1. InRegions' = InRegions
    BY <1>6, InRegionsStays
  <2> QED BY ONLY <1>3, <1>6, <2>1
<1>7. CASE LeaseAnswers(p, s)
  <2>1. PICK x \in {"refill", "settled"} : lease' = [lease EXCEPT ![p][s].st = x]
    BY <1>7 DEF LeaseAnswers
  <2>2. c.st = "granted" /\ UNCHANGED <<now, l2, entry, check, jobs, returned, granted, admitted>>
    BY <1>7 DEF LeaseAnswers
  <2>3. /\ lease'[p][s].st = x /\ lease'[p][s].grant = c.grant
        /\ \A q \in Procs : q # p => lease'[q] = lease[q]
        /\ \A y \in Slots : y # s => lease'[p][y] = lease[p][y]
    BY ZenonT(60), <2>1, StatusWrites
  <2>4. Lent(p, s) = c.grant
    BY <2>2 DEF Lent
  <2>5. Lent(p, s)' \in {0, c.grant}
    BY <2>1, <2>3 DEF Lent
  <2>6. InRegions' \in Int /\ InRegions' + Lent(p, s)' <= InRegions + Lent(p, s)
    <3>1. PICK n \in Nat : n = Lent(p, s)' /\ n <= Lent(p, s)
      BY <1>1, <2>4, <2>5
    <3> QED BY <1>6, <2>2, <3>1
  <2> QED BY <1>4, <2>1, <2>2, <2>3, <2>6
<1>8. CASE LeaseFails(p, s)
  <2>1. lease' = [lease EXCEPT ![p][s].st = "settled", ![p][s].grant = 0]
    BY <1>8 DEF LeaseFails
  <2>2. UNCHANGED <<now, l2, entry, check, jobs, returned, granted, admitted>>
    BY <1>8 DEF LeaseFails
  <2>3. /\ lease'[p][s].st = "settled" /\ lease'[p][s].grant = 0
        /\ \A q \in Procs : q # p => lease'[q] = lease[q]
        /\ \A y \in Slots : y # s => lease'[p][y] = lease[p][y]
    BY ZenonT(60), <2>1, LeaseWrites
  <2>4. Lent(p, s)' = 0
    BY <2>3 DEF Lent
  <2>5. InRegions' \in Int /\ InRegions' + Lent(p, s)' <= InRegions + Lent(p, s)
    BY <1>3, <1>6, <2>2, <2>4
  <2> QED BY <1>4, <2>2, <2>3, <2>5
<1>9. ASSUME NEW f \in EscrowType, l2' = [l2 EXCEPT ![r] = f], now' = now, NEW n \in Nat, Lent(p, s)' <= n, Lent(p, s)' \in Nat,
             f.balance + n <= e.balance + Lent(p, s)
      PROVE  InRegions' \in Int /\ InRegions' + Lent(p, s)' <= InRegions + Lent(p, s)
  <2>1. InRegions' \in Int /\ InRegions' <= InRegions - e.balance + f.balance
    <3> HIDE DEF r
    <3> QED BY <1>2, <1>9, InRegionsWritten
  <2>2. f.balance \in Nat
    BY DEF EscrowType
  <2> QED BY ONLY <1>2, <1>3, <1>9, <2>1, <2>2
<1>10. CASE PushToEscrow(p, s)
  <2> DEFINE f == IF RefillKept(c.win) THEN Refilled(e, c.grant, c.win) ELSE e
  <2>1. c.st = "refill" /\ UNCHANGED <<now, entry, check, jobs, returned, granted, admitted>>
        /\ l2' = [l2 EXCEPT ![r] = f]
    BY <1>10 DEF PushToEscrow
  <2>8. lease' = [lease EXCEPT ![p][s].st = "back"]
    BY <1>10 DEF PushToEscrow
  <2>2. /\ lease'[p][s].st = "back" /\ lease'[p][s].grant = c.grant
        /\ \A q \in Procs : q # p => lease'[q] = lease[q]
        /\ \A y \in Slots : y # s => lease'[p][y] = lease[p][y]
    BY ONLY ZenonT(60), TypeInv, p \in Procs, s \in Slots, <2>8, StatusWrites
  <2>3. Lent(p, s) = c.grant /\ Lent(p, s)' = 0
    BY <2>1, <2>2 DEF Lent
  <2>4. f \in EscrowType /\ f.balance <= e.balance + c.grant
    BY <1>1, <1>2 DEF Refilled, EscrowType
  <2>5. f.balance \in Nat
    BY <2>4 DEF EscrowType
  <2> HIDE DEF f, c, e
  <2>6. f.balance + 0 <= e.balance + Lent(p, s) /\ Lent(p, s)' <= 0 /\ Lent(p, s)' \in Nat /\ 0 \in Nat
    BY ONLY <1>1, <1>2, <2>3, <2>4, <2>5
  <2>7. InRegions' \in Int /\ InRegions' + Lent(p, s)' <= InRegions + Lent(p, s)
    BY <1>9, <2>1, <2>4, <2>6
  <2> QED BY <1>4, <2>1, <2>2, <2>7
<1>11. CASE LeaseBack(p, s)
  <2> DEFINE got == Smaller(c.tokens, e.balance)
             f == [e EXCEPT !.balance = @ - got]
  <2>1. c.st = "back" /\ UNCHANGED <<now, entry, check, jobs, returned, granted, admitted>>
        /\ l2' = [l2 EXCEPT ![r] = f] /\ lease' = [lease EXCEPT ![p][s].st = "settled", ![p][s].grant = got]
    BY <1>11 DEF LeaseBack
  <2>2. got \in Nat /\ got <= e.balance
    BY <1>1, <1>2, SmallerNat
  <2>3. f \in EscrowType /\ f.balance = e.balance - got
    BY <1>2, <2>2 DEF EscrowType
  <2> HIDE DEF f, got, c, e
  <2>4. PICK n \in Nat : n = got
    BY <2>2
  <2>5. lease' = [lease EXCEPT ![p][s].st = "settled", ![p][s].grant = n]
    BY <2>1, <2>4
  <2>6. /\ lease'[p][s].st = "settled" /\ lease'[p][s].grant = n
        /\ \A q \in Procs : q # p => lease'[q] = lease[q]
        /\ \A y \in Slots : y # s => lease'[p][y] = lease[p][y]
    BY ZenonT(60), <2>5, LeaseWrites
  <2>7. Lent(p, s) = 0 /\ Lent(p, s)' \in {0, n}
    BY <2>1, <2>6 DEF Lent, c
  <2>8. f.balance + n <= e.balance + Lent(p, s) /\ Lent(p, s)' <= n /\ Lent(p, s)' \in Nat
    BY ONLY <1>2, <2>2, <2>3, <2>4, <2>7, n \in Nat
  <2>9. InRegions' \in Int /\ InRegions' + Lent(p, s)' <= InRegions + Lent(p, s)
    BY <1>9, <2>1, <2>3, <2>8
  <2> QED BY <1>4, <2>1, <2>6, <2>9
<1>12. CASE PushFails(p, s)
  <2>1. c.st = "refill" /\ l2' = l2 /\ lease' = [lease EXCEPT ![p][s].st = "settled"]
        /\ UNCHANGED <<now, entry, check, jobs, returned, granted, admitted>>
    BY <1>12 DEF PushFails, OneForOne
  <2>2. /\ lease'[p][s].st = "settled" /\ lease'[p][s].grant = c.grant
        /\ \A q \in Procs : q # p => lease'[q] = lease[q]
        /\ \A y \in Slots : y # s => lease'[p][y] = lease[p][y]
    BY <2>1, StatusWrites
  <2>3. Lent(p, s) = c.grant /\ Lent(p, s)' \in {0, c.grant}
    BY <2>1, <2>2 DEF Lent
  <2>4. InRegions' \in Int /\ InRegions' + Lent(p, s)' <= InRegions + Lent(p, s)
    <3>1. PICK n \in Nat : n = Lent(p, s)' /\ n <= Lent(p, s)
      BY <1>1, <2>3
    <3> QED BY <1>6, <2>1, <3>1
  <2> QED BY <1>4, <2>1, <2>2, <2>4
<1>13. CASE Collect(p, s)
  <2>1. lease' = [lease EXCEPT ![p][s] = FreeLease]
        /\ UNCHANGED <<now, l2, entry, check, jobs, returned, granted, admitted>>
        /\ \A q \in Reqs : ~(check[p][q].st = "await" /\ check[p][q].slot = s)
    BY <1>13 DEF Collect
  <2>2. /\ lease'[p][s] = FreeLease
        /\ \A q \in Procs : q # p => lease'[q] = lease[q]
        /\ \A y \in Slots : y # s => lease'[p][y] = lease[p][y]
    BY <2>1 DEF TypeInv, TypeOK
  <2>3. Lent(p, s)' = 0
    BY <2>2 DEF Lent, FreeLease
  <2>4. InRegions' \in Int /\ InRegions' + Lent(p, s)' <= InRegions + Lent(p, s)
    BY <1>3, <1>6, <2>1, <2>3
  <2> QED BY <1>4, <2>1, <2>2, <2>4
<1> QED BY <1>5, <1>7, <1>8, <1>10, <1>11, <1>12, <1>13 DEF LeaseStep
\* What goes back: from the escrow of a region to a job, from a job to the coordinator.
LEMMA JobPlaces ==
    ASSUME OneForOne, TypeInv, TypeInv', RowInv, PlaceInv, NEW p \in Procs, NEW j \in jobs[p],
           Release(p, j) \/ Reconcile(p, j) \/ JobLost(p, j)
    PROVE  PlaceInv'
<1> DEFINE r == RegionOf[p]
           e == Escrow(r)
<1>1. /\ jobs \in [Procs -> SUBSET JobType] /\ jobs[p] \in SUBSET JobType /\ IsFiniteSet(jobs[p])
      /\ j \in JobType /\ j.left \in Nat
  <2>1. jobs \in [Procs -> SUBSET JobType] /\ IsFiniteSet(jobs[p])
    BY DEF TypeInv, TypeOK, PlaceInv
  <2> QED BY <2>1 DEF JobType
<1>2. r \in Regions /\ e \in EscrowType /\ e.balance \in Nat
  BY RegionIn, TermsNat DEF PlaceInv
<1>3. UNCHANGED <<now, entry, lease, check, granted, admitted>>
  BY DEF Release, Reconcile, JobLost
<1>4. /\ InProcs' = InProcs /\ InLeases' = InLeases /\ InAnswers' = InAnswers
      /\ Granted' = Granted /\ admitted' = admitted
  <2>1. \A q \in Procs, s \in Slots : Lent(q, s)' = Lent(q, s)
    BY <1>3 DEF Lent, Awaited
  <2> QED BY <1>3, <2>1, InProcsStays, InLeasesStays, InAnswersStays DEF Granted
<1>5. /\ admitted \in Nat /\ InProcs \in Nat /\ InRegions \in Nat /\ InLeases \in Nat /\ InJobs \in Nat
      /\ InAnswers \in Nat /\ Granted \in Nat /\ Returned \in Nat
      /\ admitted + InProcs + InRegions + InLeases + InJobs + InAnswers <= Granted - Returned
  BY PlacesNat DEF PlaceInv
<1>6. \A q \in Procs : Solo(q)'
  BY <1>3 DEF PlaceInv, Solo
<1>7. /\ JobsWorth(jobs[p]) \in Nat /\ IsFiniteSet(jobs[p] \ {j})
      /\ JobsWorth(jobs[p] \ {j}) = JobsWorth(jobs[p]) - j.left
  BY <1>1, JobsWorthIs
<1>8. ASSUME NEW a \in Int, InRegions' = a, NEW b \in Nat, Returned' = Returned + b, NEW k \in Int, JobsGrow(p, k),
             a + b + k <= InRegions
      PROVE  PlaceInv'
  <2>1. InJobs' <= InJobs + k /\ InJobs' \in Int /\ \A q \in Procs : IsFiniteSet(jobs'[q])
    BY <1>8, InJobsGrow DEF PlaceInv
  <2>2. PICK i \in Int : InJobs' = i /\ i <= InJobs + k
    BY <2>1
  <2>3. admitted + InProcs + a + InLeases + i + InAnswers <= Granted - (Returned + b)
    BY ONLY <1>5, <1>8, <2>2, a \in Int, b \in Nat, k \in Int, i \in Int
  <2>4. admitted' + InProcs' + InRegions' + InLeases' + InJobs' + InAnswers' <= Granted' - Returned'
    BY ONLY <1>4, <1>8, <2>2, <2>3
  <2> QED BY <1>6, <2>1, <2>4 DEF PlaceInv
<1>9. ASSUME jobs' = [jobs EXCEPT ![p] = @ \ {j}] PROVE JobsGrow(p, 0 - j.left)
  <2>1. jobs'[p] = jobs[p] \ {j} /\ \A q \in Procs : q # p => jobs'[q] = jobs[q]
    BY <1>1, <1>9
  <2>2. JobsWorth(jobs[p] \ {j}) <= JobsWorth(jobs[p]) + (0 - j.left)
    BY ONLY <1>1, <1>7
  <2> QED BY <1>7, <2>1, <2>2 DEF JobsGrow
<1>10. ASSUME l2' = l2 PROVE InRegions' = InRegions
  BY <1>3, <1>10, InRegionsStays
<1>11. ASSUME returned' = returned PROVE Returned' = Returned + 0
  <2>1. Returned' = Returned
    BY <1>11 DEF Returned
  <2> QED BY ONLY <1>5, <2>1
<1>12. CASE JobLost(p, j)
  <2>1. JobsGrow(p, 0 - j.left) /\ InRegions' = InRegions /\ Returned' = Returned + 0
    BY <1>9, <1>10, <1>11, <1>12 DEF JobLost
  <2>2. 0 - j.left \in Int /\ InRegions + 0 + (0 - j.left) <= InRegions /\ InRegions \in Int /\ 0 \in Nat
    BY ONLY <1>1, <1>5
  <2> QED BY <1>8, <2>1, <2>2
<1>13. CASE Reconcile(p, j)
  <2> DEFINE row == RowAt(Current)
             back == IF CreditsBack(row, j.left, j.win) THEN Smaller(Limit - row.budget, j.left) ELSE 0
  <2>1. returned' = [returned EXCEPT ![Current] = @ + back] /\ jobs' = [jobs EXCEPT ![p] = @ \ {j}] /\ l2' = l2
    BY <1>13 DEF Reconcile, Current
  <2>2. row.budget \in 0..Limit /\ Current \in Windows
    BY RowAccounts
  <2>3. back \in Nat /\ back <= j.left
    <3>1. Limit - row.budget \in Nat
      BY <2>2, Options
    <3>2. Smaller(Limit - row.budget, j.left) \in Nat /\ Smaller(Limit - row.budget, j.left) <= j.left
      BY <1>1, <3>1, SmallerNat
    <3> QED BY <1>1, <3>2
  <2> HIDE DEF row, back
  <2>4. PICK k \in Nat : k = back /\ k <= j.left
    BY <2>3
  <2>5. PICK w \in Windows : w = Current
    BY <2>2
  <2>6. Returned' = Returned + k
    BY <2>1, <2>4, <2>5, ReturnedMoves
  <2>7. JobsGrow(p, 0 - j.left) /\ InRegions' = InRegions
    BY <1>9, <1>10, <2>1
  <2>8. 0 - j.left \in Int /\ InRegions + k + (0 - j.left) <= InRegions /\ InRegions \in Int
    BY ONLY <1>1, <1>5, <2>4, k \in Nat
  <2> QED BY <1>8, <2>6, <2>7, <2>8
<1>14. CASE Release(p, j)
  <2> DEFINE left == j.left + IF e.has /\ e.src = j.win THEN e.balance ELSE 0
             next == IF left > 0 THEN {[st |-> "reconcile", left |-> left, win |-> j.win]} ELSE {}
             taken == (jobs[p] \ {j}) \cup next
  <2>1. /\ l2' = IF e.src = j.win THEN [l2 EXCEPT ![r] = EmptyEscrow] ELSE l2
        /\ jobs' = [jobs EXCEPT ![p] = taken] /\ returned' = returned
    BY <1>14 DEF Release
  <2>2. left \in Nat
    BY <1>1, <1>2
  <2> HIDE DEF left
  <2>3. PICK n \in Nat : n = left
    BY <2>2
  <2>4. IsFiniteSet(taken) /\ JobsWorth(taken) <= JobsWorth(jobs[p]) - j.left + n
    <3> DEFINE rest == jobs[p] \ {j}
    <3>1. rest \in SUBSET JobType /\ IsFiniteSet(rest) /\ JobsWorth(rest) = JobsWorth(jobs[p]) - j.left
      BY <1>1, <1>7
    <3>2. JobsWorth(rest) \in Nat
      BY <3>1, JobsWorthIs
    <3>3. CASE next = {}
      <4>1. taken = rest
        BY <3>3
      <4>2. JobsWorth(rest) <= JobsWorth(jobs[p]) - j.left + n
        BY ONLY <1>1, <1>7, <3>1, n \in Nat
      <4> HIDE DEF taken, rest
      <4> QED BY ONLY <3>1, <4>1, <4>2
    <3>4. CASE next = {[st |-> "reconcile", left |-> left, win |-> j.win]}
      <4>1. PICK i : i = [st |-> "reconcile", left |-> left, win |-> j.win]
        OBVIOUS
      <4>2. i \in JobType /\ i.left = n
        BY <1>1, <2>2, <2>3, <4>1 DEF JobType
      <4>3. taken = rest \cup {i}
        BY <3>4, <4>1
      <4> HIDE DEF rest, next, taken
      <4>4. IsFiniteSet(rest \cup {i}) /\ JobsWorth(rest \cup {i}) <= JobsWorth(rest) + i.left
        BY <3>1, <4>2, JobsWorthIs
      <4> QED BY ONLY <3>1, <4>2, <4>3, <4>4
    <3> QED BY <3>3, <3>4
  <2>5. JobsGrow(p, n - j.left)
    <3>1. JobsWorth(taken) <= JobsWorth(jobs[p]) + (n - j.left)
      <4>1. JobsWorth(taken) \in Nat
        <5>1. taken \in SUBSET JobType
          BY <1>1, <2>2 DEF JobType
        <5> HIDE DEF taken
        <5> QED BY <2>4, <5>1, JobsWorthIs
      <4> HIDE DEF taken
      <4> QED BY ONLY <1>1, <1>7, <2>4, <4>1, n \in Nat
    <3> HIDE DEF taken
    <3>2. jobs'[p] = taken /\ \A q \in Procs : q # p => jobs'[q] = jobs[q]
      BY <1>1, <2>1
    <3> QED BY <2>4, <3>1, <3>2 DEF JobsGrow
  <2>6. Returned' = Returned + 0 /\ 0 \in Nat /\ n - j.left \in Int
    BY <1>1, <1>11, <2>1
  <2>7. \E a \in Int : InRegions' = a /\ a + 0 + (n - j.left) <= InRegions
    <3>1. CASE e.src = j.win
      <4>1. EmptyEscrow \in EscrowType /\ EmptyEscrow.balance = 0
        BY DEF EmptyEscrow, EscrowType
      <4>2. InRegions' \in Int /\ InRegions' <= InRegions - e.balance + EmptyEscrow.balance
        <5> HIDE DEF r
        <5> QED BY <1>2, <1>3, <2>1, <3>1, <4>1, InRegionsWritten
      <4>3. PICK a \in Int : InRegions' = a /\ a <= InRegions - e.balance
        BY <1>2, <1>5, <4>1, <4>2
      <4>4. n <= j.left + e.balance
        BY <1>1, <1>2, <2>3 DEF left
      <4>5. a + 0 + (n - j.left) <= InRegions
        BY ONLY <1>1, <1>2, <1>5, <4>3, <4>4, a \in Int, n \in Nat
      <4> QED BY <4>3, <4>5
    <3>2. CASE e.src # j.win
      <4>1. n = j.left
        BY <1>1, <2>3, <3>2 DEF left
      <4>2. InRegions' = InRegions
        BY <1>10, <2>1, <3>2
      <4>3. InRegions \in Int /\ InRegions + 0 + (n - j.left) <= InRegions
        BY ONLY <1>1, <1>5, <4>1
      <4> QED BY <4>2, <4>3
    <3> QED BY <3>1, <3>2
  <2> QED BY <1>8, <2>5, <2>6, <2>7
<1> QED BY <1>12, <1>13, <1>14

\* reset() gives up what the process holds.
LEMMA ResetPlaces ==
    ASSUME OneForOne, TypeInv, TypeInv', PlaceInv, NEW p \in Procs, Reset(p)
    PROVE  PlaceInv'
<1>1. entry' = [entry EXCEPT ![p] = NoEntry]
      /\ UNCHANGED <<now, l2, lease, check, jobs, granted, returned, admitted>>
  BY DEF Reset
<1>2. entry'[p].balance = 0 /\ \A q \in Procs : q # p => entry'[q] = entry[q]
  BY <1>1 DEF TypeInv, TypeOK, NoEntry
<1>3. InProcs' = InProcs - entry[p].balance + entry'[p].balance
  BY <1>2, InProcsMoves
<1>4. /\ InRegions' = InRegions /\ InLeases' = InLeases /\ InJobs' = InJobs /\ InAnswers' = InAnswers
      /\ Granted' = Granted /\ Returned' = Returned /\ admitted' = admitted
  <2>1. \A q \in Procs, s \in Slots : Lent(q, s)' = Lent(q, s)
    BY <1>1 DEF Lent, Awaited
  <2> QED BY <1>1, <2>1, InRegionsStays, InLeasesStays, InJobsStays, InAnswersStays DEF Granted, Returned
<1>5. /\ admitted \in Nat /\ InProcs \in Nat /\ InRegions \in Nat /\ InLeases \in Nat /\ InJobs \in Nat
      /\ InAnswers \in Nat /\ Granted \in Nat /\ Returned \in Nat /\ entry[p].balance \in Nat
      /\ admitted + InProcs + InRegions + InLeases + InJobs + InAnswers <= Granted - Returned
  BY PlacesNat, TermsNat DEF PlaceInv
<1>6. admitted' + InProcs' + InRegions' + InLeases' + InJobs' + InAnswers' <= Granted' - Returned'
  BY ONLY <1>2, <1>3, <1>4, <1>5
<1>7. \A q \in Procs : IsFiniteSet(jobs'[q]) /\ Solo(q)'
  BY <1>1 DEF PlaceInv, Solo
<1> QED BY <1>6, <1>7 DEF PlaceInv

\* The clock: an escrow of a region can only expire.
LEMMA TickPlaces ==
    ASSUME OneForOne, TypeInv, TypeInv', RowInv, PlaceInv, Tick
    PROVE  PlaceInv'
<1>1. UNCHANGED <<l2, entry, lease, check, jobs, granted, returned, admitted>> /\ Current <= Current'
      /\ Current \in Nat /\ Current' \in Nat
  BY RowTick, CurrentInRange DEF Tick, TypeInv, TypeOK
<1>2. \A g \in Regions : /\ Escrow(g).balance \in Int /\ Escrow(g)'.balance \in Int
                         /\ Escrow(g)'.balance <= Escrow(g).balance
  <2> SUFFICES ASSUME NEW g \in Regions
               PROVE  /\ Escrow(g).balance \in Int /\ Escrow(g)'.balance \in Int
                      /\ Escrow(g)'.balance <= Escrow(g).balance
    OBVIOUS
  <2>1. l2[g] \in EscrowType /\ l2'[g] = l2[g] /\ l2[g].balance \in Nat /\ l2[g].src \in Nat
    BY <1>1 DEF TypeInv, TypeOK, Regions, EscrowType
  <2>2. EmptyEscrow.balance = 0
    BY DEF EmptyEscrow
  <2>3. Escrow(g) = IF l2[g].has /\ Current <= l2[g].src THEN l2[g] ELSE EmptyEscrow
    BY DEF Escrow, Current
  <2>4. Escrow(g)' = IF l2[g].has /\ Current' <= l2[g].src THEN l2[g] ELSE EmptyEscrow
    BY <2>1 DEF Escrow, Current
  <2>5. PICK c \in Nat, d \in Nat : c = Current /\ d = Current' /\ c <= d
    BY <1>1
  <2>6. d <= l2[g].src => c <= l2[g].src
    BY ONLY <2>1, <2>5, c \in Nat, d \in Nat
  <2> QED BY <2>1, <2>2, <2>3, <2>4, <2>5, <2>6
<1>3. PICK b \in Int : InRegions' = b /\ b <= InRegions
  <2> DEFINE f == [g \in Regions |-> Escrow(g)'.balance]
             h == [g \in Regions |-> Escrow(g).balance]
  <2>1. \A g \in Regions : f[g] \in Int /\ h[g] \in Int /\ f[g] <= h[g]
    BY <1>2
  <2>2. InRegions = SumFunctionOnSet(h, Regions) /\ InRegions' = SumFunctionOnSet(f, Regions)
    BY DEF InRegions, Regions
  <2> HIDE DEF f, h
  <2>3. IsFiniteSet(Regions)
    BY PlacesFinite
  <2>4. SumFunctionOnSet(f, Regions) <= SumFunctionOnSet(h, Regions) /\ SumFunctionOnSet(f, Regions) \in Int
    BY <2>1, <2>3, SetSumMonotone, SetSumInt
  <2> QED BY <2>2, <2>4
<1>4. /\ InProcs' = InProcs /\ InLeases' = InLeases /\ InJobs' = InJobs /\ InAnswers' = InAnswers
      /\ Granted' = Granted /\ Returned' = Returned /\ admitted' = admitted
  <2>1. \A q \in Procs, s \in Slots : Lent(q, s)' = Lent(q, s)
    BY <1>1 DEF Lent, Awaited
  <2> QED BY <1>1, <2>1, InProcsStays, InLeasesStays, InJobsStays, InAnswersStays DEF Granted, Returned
<1>5. /\ admitted \in Nat /\ InProcs \in Nat /\ InRegions \in Nat /\ InLeases \in Nat /\ InJobs \in Nat
      /\ InAnswers \in Nat /\ Granted \in Nat /\ Returned \in Nat
      /\ admitted + InProcs + InRegions + InLeases + InJobs + InAnswers <= Granted - Returned
  BY PlacesNat DEF PlaceInv
<1>6. admitted' + InProcs' + InRegions' + InLeases' + InJobs' + InAnswers' <= Granted' - Returned'
  <2>1. admitted + InProcs + b + InLeases + InJobs + InAnswers <= Granted - Returned
    BY ONLY <1>3, <1>5, b \in Int
  <2> QED BY ONLY <1>3, <1>4, <2>1
<1>7. \A q \in Procs : IsFiniteSet(jobs'[q]) /\ Solo(q)'
  BY <1>1 DEF PlaceInv, Solo
<1> QED BY <1>6, <1>7 DEF PlaceInv
LEMMA PlaceInit == OneForOne /\ Init => PlaceInv
<1> SUFFICES ASSUME OneForOne, Init PROVE PlaceInv
  OBVIOUS
<1>1. TypeInv
  BY TypeInit
<1>2. \A p \in Procs : /\ entry[p].balance = 0 /\ jobs[p] = {}
                       /\ \A r \in Reqs : check[p][r].st = "idle"
                       /\ \A s \in Slots : lease[p][s].st = "free"
  BY DEF Init, NoEntry, IdleCheck, FreeLease
<1>3. \A g \in Regions : Escrow(g).balance = 0
  BY DEF Init, Regions, Escrow, EmptyEscrow
<1>4. admitted = 0 /\ \A w \in Windows : granted[w] = 0 /\ returned[w] = 0
  BY DEF Init
<1>5. \A p \in Procs : IsFiniteSet(jobs[p]) /\ Solo(p)
  BY <1>2, FS_EmptySet DEF Solo
<1>6. JobsWorth({}) = 0
  <2> DEFINE f == [j \in {} |-> j.left]
  <2>1. DOMAIN f = {}
    OBVIOUS
  <2>2. JobsWorth({}) = SumFunctionOnSet(f, DOMAIN f)
    BY SumIsOverDomain DEF JobsWorth
  <2> HIDE DEF f
  <2> QED BY <2>1, <2>2, SetSumEmpty
<1>7. InProcs = 0 /\ InRegions = 0 /\ InLeases = 0 /\ InJobs = 0 /\ InAnswers = 0 /\ Granted = 0 /\ Returned = 0
  <2> DEFINE e == [p \in Procs |-> entry[p].balance]
             g == [x \in Regions |-> Escrow(x).balance]
             l == [x \in Leases |-> Lent(x[1], x[2])]
             j == [p \in Procs |-> JobsWorth(jobs[p])]
             a == [x \in Waits |-> Answered(x[1], x[2])]
  <2>1. \A p \in Procs : e[p] = 0 /\ j[p] = 0
    BY <1>2, <1>6
  <2>2. \A x \in Regions : g[x] = 0
    BY <1>3
  <2>3. \A x \in Leases : l[x] = 0
    BY <1>2 DEF Leases, Lent
  <2>4. \A x \in Waits : a[x] = 0
    BY <1>2 DEF Waits, Answered
  <2>5. /\ InProcs = SumFunctionOnSet(e, Procs) /\ InRegions = SumFunctionOnSet(g, Regions)
        /\ InLeases = SumFunctionOnSet(l, Leases) /\ InJobs = SumFunctionOnSet(j, Procs)
        /\ InAnswers = SumFunctionOnSet(a, Waits)
    BY DEF InProcs, InRegions, InLeases, InJobs, InAnswers
  <2> HIDE DEF e, g, l, j, a
  <2>6. InProcs = 0 /\ InJobs = 0
    BY <2>1, <2>5, PlacesFinite, SetSumZero
  <2>7. InRegions = 0
    BY <2>2, <2>5, PlacesFinite, SetSumZero
  <2>8. InLeases = 0
    BY <2>3, <2>5, PlacesFinite, SetSumZero
  <2>9. InAnswers = 0
    BY <2>4, <2>5, PlacesFinite, SetSumZero
  <2>10. Granted = 0 /\ Returned = 0
    BY <1>4, PlacesFinite, SetSumZero DEF Granted, Returned
  <2> QED BY <2>6, <2>7, <2>8, <2>9, <2>10
<1> QED BY <1>4, <1>5, <1>7 DEF PlaceInv

LEMMA PlaceStep == OneForOne /\ TypeInv /\ RowInv /\ PlaceInv /\ [Next]_vars => PlaceInv'
<1> SUFFICES ASSUME OneForOne, TypeInv, RowInv, PlaceInv, [Next]_vars PROVE PlaceInv'
  OBVIOUS
<1>1. TypeInv'
  BY TypeStep
<1>2. ASSUME NEW p \in Procs, NEW r \in Reqs, CheckStep(p, r) PROVE PlaceInv'
  BY <1>1, <1>2, ProbedPlaces, AnsweredPlaces, EscrowAnswersPlaces, ResumePlaces DEF CheckStep
<1>3. ASSUME NEW c \in Callers, Call(c[1], c[2], c[3]) PROVE PlaceInv'
  <2>1. c[1] \in Procs /\ c[2] \in Reqs /\ c[3] \in Nat
    BY Options
  <2> QED BY <1>1, <1>3, <2>1, CallPlaces
<1>4. ASSUME NEW p \in Procs, NEW s \in Slots, LeaseStep(p, s) PROVE PlaceInv'
  BY <1>1, <1>4, LeaseStepPlaces
<1>5. ASSUME NEW p \in Procs, NEW j \in jobs[p], Release(p, j) \/ Reconcile(p, j) \/ JobLost(p, j) PROVE PlaceInv'
  BY <1>1, <1>5, JobPlaces
<1>6. ASSUME NEW p \in Procs, Reset(p) PROVE PlaceInv'
  BY <1>1, <1>6, ResetPlaces
<1>7. CASE Tick
  BY <1>1, <1>7, TickPlaces
<1>8. CASE UNCHANGED vars
  <2>1. UNCHANGED <<now, l2, entry, lease, check, jobs, granted, returned, admitted>>
    BY <1>8 DEF vars
  <2>2. \A q \in Procs, s \in Slots : Lent(q, s)' = Lent(q, s)
    BY <2>1 DEF Lent, Awaited
  <2>3. /\ InProcs' = InProcs /\ InRegions' = InRegions /\ InLeases' = InLeases /\ InJobs' = InJobs
        /\ InAnswers' = InAnswers /\ Granted' = Granted /\ Returned' = Returned
    BY <2>1, <2>2, InProcsStays, InRegionsStays, InLeasesStays, InJobsStays, InAnswersStays DEF Granted, Returned
  <2>4. \A q \in Procs : IsFiniteSet(jobs'[q]) /\ Solo(q)'
    BY <2>1 DEF PlaceInv, Solo
  <2> QED BY <2>1, <2>3, <2>4 DEF PlaceInv
<1> QED BY <1>2, <1>3, <1>4, <1>5, <1>6, <1>7, <1>8 DEF Next

\* The sums of EscrowConserved are those of the invariant.
LEMMA PlacesAddUp ==
    ASSUME OneForOne, TypeInv, RowInv, PlaceInv
    PROVE  EscrowConserved
<1>1. L3WithinLimit
  BY DEF RowInv, L3WithinLimit
<1>2. SumFunction([p \in Procs |-> entry[p].balance]) = InProcs
  <2> DEFINE f == [p \in Procs |-> entry[p].balance]
  <2>1. DOMAIN f = Procs
    OBVIOUS
  <2>2. SumFunction(f) = SumFunctionOnSet(f, DOMAIN f)
    BY SumIsOverDomain
  <2>3. InProcs = SumFunctionOnSet(f, Procs)
    BY DEF InProcs
  <2> HIDE DEF f
  <2>4. SumFunction(f) = InProcs
    BY ONLY <2>1, <2>2, <2>3
  <2> QED BY ONLY <2>4 DEF f
<1>3. SumFunction([g \in DOMAIN l2 |-> Escrow(g).balance]) = InRegions
  <2> DEFINE f == [g \in Regions |-> Escrow(g).balance]
  <2>1. DOMAIN f = Regions /\ DOMAIN l2 = Regions
    BY DEF TypeInv, TypeOK, Regions
  <2>2. SumFunction(f) = SumFunctionOnSet(f, DOMAIN f)
    BY SumIsOverDomain
  <2>3. InRegions = SumFunctionOnSet(f, Regions)
    BY DEF InRegions
  <2>4. [g \in DOMAIN l2 |-> Escrow(g).balance] = f
    BY ONLY <2>1
  <2> HIDE DEF f
  <2> QED BY ONLY <2>1, <2>2, <2>3, <2>4
<1>4. SumFunction([x \in Procs \X Slots |->
          LET c == lease[x[1]][x[2]] IN
          IF c.st \in {"granted", "refill"} \/ (c.st = "settled" /\ Awaited(x[1], x[2])) THEN c.grant ELSE 0]) = InLeases
  <2> DEFINE f == [x \in Leases |-> Lent(x[1], x[2])]
             h == [x \in Procs \X Slots |->
                     LET c == lease[x[1]][x[2]] IN
                     IF c.st \in {"granted", "refill"} \/ (c.st = "settled" /\ Awaited(x[1], x[2])) THEN c.grant ELSE 0]
  <2>1. DOMAIN f = Leases
    OBVIOUS
  <2>2. SumFunction(f) = SumFunctionOnSet(f, DOMAIN f)
    BY SumIsOverDomain
  <2>3. InLeases = SumFunctionOnSet(f, Leases)
    BY DEF InLeases
  <2>4. h = f
    BY DEF Lent, Leases
  <2> HIDE DEF f
  <2>5. SumFunction(f) = InLeases
    BY ONLY <2>1, <2>2, <2>3
  <2> HIDE DEF h
  <2>6. SumFunction(h) = InLeases
    BY ONLY <2>4, <2>5
  <2> QED BY ONLY <2>6 DEF h
<1>5. SumFunction([p \in Procs |-> SumFunction([j \in jobs[p] |-> j.left])]) = InJobs
  <2> DEFINE f == [p \in Procs |-> JobsWorth(jobs[p])]
             h == [p \in Procs |-> SumFunction([j \in jobs[p] |-> j.left])]
  <2>1. DOMAIN f = Procs
    OBVIOUS
  <2>2. SumFunction(f) = SumFunctionOnSet(f, DOMAIN f)
    BY SumIsOverDomain
  <2>3. InJobs = SumFunctionOnSet(f, Procs)
    BY DEF InJobs
  <2>4. h = f
    BY DEF JobsWorth
  <2> HIDE DEF f
  <2>5. SumFunction(f) = InJobs
    BY ONLY <2>1, <2>2, <2>3
  <2> HIDE DEF h
  <2>6. SumFunction(h) = InJobs
    BY ONLY <2>4, <2>5
  <2> QED BY ONLY <2>6 DEF h
<1>6. SumFunction([x \in Procs \X Reqs |->
          IF check[x[1]][x[2]].st = "l2done" THEN check[x[1]][x[2]].got ELSE 0]) = InAnswers
  <2> DEFINE f == [x \in Waits |-> Answered(x[1], x[2])]
             h == [x \in Procs \X Reqs |-> IF check[x[1]][x[2]].st = "l2done" THEN check[x[1]][x[2]].got ELSE 0]
  <2>1. DOMAIN f = Waits
    OBVIOUS
  <2>2. SumFunction(f) = SumFunctionOnSet(f, DOMAIN f)
    BY SumIsOverDomain
  <2>3. InAnswers = SumFunctionOnSet(f, Waits)
    BY DEF InAnswers
  <2>4. h = f
    BY DEF Answered, Waits
  <2> HIDE DEF f
  <2>5. SumFunction(f) = InAnswers
    BY ONLY <2>1, <2>2, <2>3
  <2> HIDE DEF h
  <2>6. SumFunction(h) = InAnswers
    BY ONLY <2>4, <2>5
  <2> QED BY ONLY <2>6 DEF h
<1>7. SumFunction(granted) = Granted /\ SumFunction(returned) = Returned
  <2>1. DOMAIN granted = Windows /\ DOMAIN returned = Windows
    BY DEF TypeInv, TypeOK
  <2>2. SumFunction(granted) = SumFunctionOnSet(granted, DOMAIN granted)
        /\ SumFunction(returned) = SumFunctionOnSet(returned, DOMAIN returned)
    BY SumIsOverDomain
  <2> QED BY ONLY <2>1, <2>2 DEF Granted, Returned
<1>8. InEscrow = InProcs + InRegions
  BY ONLY <1>2, <1>3 DEF InEscrow
<1>9. OnTheWay = InLeases + InJobs + InAnswers
  BY ONLY <1>4, <1>5, <1>6, Zenon DEF OnTheWay
<1>10. /\ admitted \in Nat /\ InProcs \in Nat /\ InRegions \in Nat /\ InLeases \in Nat /\ InJobs \in Nat
       /\ InAnswers \in Nat /\ Granted \in Nat /\ Returned \in Nat
       /\ admitted + InProcs + InRegions + InLeases + InJobs + InAnswers <= Granted - Returned
  BY PlacesNat DEF PlaceInv
<1>11. admitted + InEscrow + OnTheWay <= SumFunction(granted) - SumFunction(returned)
  BY ONLY <1>7, <1>8, <1>9, <1>10
<1> QED BY <1>1, <1>11 DEF EscrowConserved, TypeInv

\* EscrowConserved, for any number of processes, regions and windows: no unit of the global budget is spent or
\* held twice, however leases, refills, releases, late reconciles, failed pushes and resets interleave, as long
\* as one check waits for a lease, the coordinator reads its clock under the lock of its row, and a push to
\* the regional escrow that rejects has not taken effect.
THEOREM EscrowsConserved == OneForOne /\ Spec => []EscrowConserved
<1> DEFINE Inv == TypeInv /\ RowInv /\ PlaceInv
<1>1. ASSUME OneForOne PROVE Spec => []EscrowConserved
  <2>0. OneByOne
    BY <1>1 DEF OneForOne
  <2>1. Init => Inv
    BY <1>1, TypeInit, RowInit, PlaceInit
  <2>2. Inv /\ [Next]_vars => Inv'
    BY <1>1, <2>0, TypeStep, RowStep, PlaceStep DEF OneByOne
  <2>3. Inv => EscrowConserved
    BY <1>1, PlacesAddUp
  <2> HIDE DEF Inv
  <2> QED BY <2>1, <2>2, <2>3, PTL DEF Spec
<1> QED BY <1>1
====
