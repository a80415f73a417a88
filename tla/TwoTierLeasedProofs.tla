------------------------- MODULE TwoTierLeasedProofs -------------------------
(* Theorems about TwoTierLeased, for every fleet, budget, batch and schedule. *)
EXTENDS TwoTierLeased, TLAPS

----------------------------------------------------------------------------
(* Windows of time *)

\* The window index of a time is a natural number.
LEMMA WindowNat == \A t \in Nat : Window(t) \in Nat
BY LeasedAssumption DEF Window

\* Time never moves back to an earlier window.
LEMMA WindowMonotone == ASSUME NEW t \in Nat, NEW u \in Nat, t <= u PROVE Window(t) <= Window(u)
<1> DEFINE W == WindowMs
           p == t \div W
           q == u \div W
<1>1. W \in Nat /\ W > 0
  BY LeasedAssumption
<1>2. p \in Nat /\ W * p <= t /\ t < W * p + W
  BY <1>1
<1>3. q \in Nat /\ W * q <= u /\ u < W * q + W
  BY <1>1
<1>4. ASSUME q < p PROVE FALSE
  <2>1. q + 1 <= p BY <1>2, <1>3, <1>4
  <2>2. W * (q + 1) <= W * p BY <2>1, <1>1, <1>2, <1>3
  <2>3. W * (q + 1) = W * q + W BY <1>1, <1>3
  <2> QED BY <2>2, <2>3, <1>1, <1>2, <1>3
<1> QED BY <1>2, <1>3, <1>4 DEF Window

\* Every time of the model lies in one of its windows.
LEMMA WindowInRange == \A t \in 0..MaxTime : Window(t) \in Windows
BY WindowNat, WindowMonotone, LeasedAssumption DEF Windows

----------------------------------------------------------------------------
(* Typing of the pieces a step writes *)

\* The entry a check works on, looked up or created, is well formed.
LEMMA EntryForTyped ==
    ASSUME TypeOK, NEW n \in Node
    PROVE  EntryFor(n) \in EntryType /\ Unexpired(EntryFor(n)) \in EntryType
<1>1. FreshEntry \in EntryType
  BY DEF FreshEntry, EntryType
<1>2. entry[n] \in EntryType
  BY DEF TypeOK
<1>3. EntryFor(n) \in EntryType
  BY <1>1, <1>2 DEF EntryFor
<1> QED BY <1>3 DEF Unexpired, EntryType

\* A lease slot that is not in use is well formed.
LEMMA FreeLeaseTyped == FreeLease \in LeaseType
BY DEF FreeLease, LeaseType

\* A call that was just issued is well formed.
LEMMA SentTyped ==
    ASSUME TypeOK, NEW k \in {"demand", "refill"}, NEW a \in Nat
    PROVE  Sent(k, a) \in LeaseType
<1>1. now \in Nat
  BY LeasedAssumption DEF TypeOK
<1>2. CallTime \in Nat
  BY <1>1 DEF CallTime
<1> QED BY <1>2 DEF Sent, FreeLease, LeaseType

\* Taking a resumed check out of the waiting list leaves a waiting list.
LEMMA WithoutTyped ==
    ASSUME NEW T, NEW q \in Seq(T), NEW i \in DOMAIN q
    PROVE  Without(q, i) \in Seq(T)
BY DEF Without

\* Waking the waiters of a lease keeps the waiting list well formed.
LEMMA WakeTyped ==
    ASSUME NEW q \in Seq(WaiterType), NEW s \in Slots, NEW res \in Results
    PROVE  Wake(q, s, res) \in Seq(WaiterType)
<1>1. \A i \in DOMAIN q : q[i] \in WaiterType
  OBVIOUS
<1>2. \A i \in DOMAIN q : [q[i] EXCEPT !.res = res] \in WaiterType
  BY <1>1 DEF WaiterType
<1> QED BY <1>1, <1>2 DEF Wake

\* Costs and lease sizes are natural numbers.
LEMMA CostsTyped == Costs \subseteq Nat /\ BatchSizes \subseteq Nat
BY LeasedAssumption

\* Every slot of a node holds a call of the lease protocol.
LEMMA LeaseTyped ==
    ASSUME TypeOK, NEW n \in Node, NEW s \in Slots
    PROVE  lease[n][s] \in LeaseType
<1>1. lease \in [Node -> [Slots -> LeaseType]]
  BY DEF TypeOK
<1> QED BY <1>1

\* Serving a request writes well-typed state.
LEMMA ServeTyped ==
    ASSUME TypeOK, NEW n \in Node, NEW e \in EntryType, NEW c \in Costs, NEW w \in Windows,
           Serve(n, e, c, w)
    PROVE  /\ entry' \in [Node -> EntryType]
           /\ lease' \in [Node -> [Slots -> LeaseType]]
           /\ admitted' \in [Windows -> Nat]
           /\ prompt' \in [Windows -> Nat]
<1>1. c \in Nat /\ Window(now) \in Windows
  BY CostsTyped, WindowInRange DEF TypeOK
<1>2. admitted' \in [Windows -> Nat] /\ prompt' \in [Windows -> Nat]
  <2> DEFINE add == IF w = Window(now) THEN c ELSE 0
  <2>1. /\ admitted' = [admitted EXCEPT ![Window(now)] = @ + c]
        /\ prompt' = [prompt EXCEPT ![Window(now)] = @ + add]
    BY Zenon DEF Serve
  <2>2. admitted \in [Windows -> Nat] /\ prompt \in [Windows -> Nat] /\ add \in Nat
    BY <1>1 DEF TypeOK
  <2> HIDE DEF add
  <2> QED BY <1>1, <2>1, <2>2
<1>3. Spend(e, c) \in EntryType /\ [Spend(e, c) EXCEPT !.refilling = TRUE] \in EntryType
  <2>1. e.credits >= c /\ e.credits \in Nat
    BY DEF Serve, Covers, EntryType
  <2>2. e.credits - c \in Nat
    BY <2>1, <1>1
  <2>3. Spend(e, c) \in EntryType
    BY <2>2 DEF Spend, EntryType
  <2> QED BY <2>3 DEF EntryType
<1>4. \A b \in BatchSizes : Sent("refill", b) \in LeaseType
  BY SentTyped, CostsTyped
<1>5. CASE ~WantsRefill(Spend(e, c))
  <2>1. entry' = [entry EXCEPT ![n] = Spend(e, c)] /\ lease' = lease
    BY Zenon, <1>5 DEF Serve
  <2> QED BY <1>2, <1>3, <2>1 DEF TypeOK
<1>6. CASE WantsRefill(Spend(e, c))
  <2>1. PICK s \in Slots, b \in BatchSizes : lease' = [lease EXCEPT ![n][s] = Sent("refill", b)]
    BY <1>6 DEF Serve
  <2>2. lease' \in [Node -> [Slots -> LeaseType]]
    BY <2>1, <1>4 DEF TypeOK
  <2>3. entry' \in [Node -> EntryType]
    BY <1>3, <1>6 DEF Serve, TypeOK
  <2> QED BY <1>2, <2>2, <2>3
<1> QED BY <1>5, <1>6

\* Awaiting a lease writes well-typed state.
LEMMA AwaitTyped ==
    ASSUME TypeOK, NEW n \in Node, NEW e \in EntryType, NEW r \in Reqs, NEW c \in Costs,
           NEW w \in Windows, NEW q \in Seq(WaiterType), AwaitLease(n, e, r, c, w, q)
    PROVE  /\ entry' \in [Node -> EntryType]
           /\ lease' \in [Node -> [Slots -> LeaseType]]
           /\ waiting' \in [Node -> Seq(WaiterType)]
<1> DEFINE Waiter(s, res) == [req |-> r, cost |-> c, at |-> w, slot |-> s, res |-> res]
<1>1. \A s \in Slots, res \in Results : Waiter(s, res) \in WaiterType
  BY DEF WaiterType
<1>2. CASE Joins(e)
  <2>1. e.pending \in Slots /\ ResultOf(lease[n][e.pending]) \in Results
    BY <1>2 DEF Joins, EntryType, ResultOf, Results
  <2>2. Append(q, Waiter(e.pending, ResultOf(lease[n][e.pending]))) \in Seq(WaiterType)
    BY <1>1, <2>1
  <2>3. /\ entry' = [entry EXCEPT ![n] = e] /\ lease' = lease
        /\ waiting' = [waiting EXCEPT ![n] = Append(q, Waiter(e.pending, ResultOf(lease[n][e.pending])))]
    BY Zenon, <1>2 DEF AwaitLease
  <2> HIDE DEF Waiter
  <2> QED BY <2>2, <2>3 DEF TypeOK
<1>3. CASE ~Joins(e)
  <2>1. PICK s \in Slots, b \in BatchSizes :
           /\ lease' = [lease EXCEPT ![n][s] = Sent("demand", Larger(b, c))]
           /\ waiting' = [waiting EXCEPT ![n] = Append(q, Waiter(s, "none"))]
           /\ entry' = [entry EXCEPT ![n] = [e EXCEPT !.pending = s]]
    BY <1>3 DEF AwaitLease
  <2>2. Sent("demand", Larger(b, c)) \in LeaseType
    BY SentTyped, CostsTyped DEF Larger
  <2>3. Append(q, Waiter(s, "none")) \in Seq(WaiterType)
    <3>1. Waiter(s, "none") \in WaiterType
      BY <1>1 DEF Results
    <3> HIDE DEF Waiter
    <3> QED BY <3>1
  <2>4. [e EXCEPT !.pending = s] \in EntryType
    BY DEF EntryType
  <2> QED BY <2>1, <2>2, <2>3, <2>4 DEF TypeOK
<1> QED BY <1>2, <1>3

\* Crediting a grant, or dropping a late one, keeps the entry well formed.
LEMMA CreditedTyped ==
    ASSUME NEW e \in EntryType, NEW c \in LeaseType
    PROVE  Credited(e, c) \in EntryType /\ RefillCredited(e, c) \in EntryType
<1>1. c.resetAt \in Nat /\ c.amt \in Nat /\ e.credits \in Nat
  BY DEF EntryType, LeaseType
<1>2. e.credits + (IF c.ok THEN c.amt ELSE 0) \in Nat
  BY <1>1
<1>3. Credited(e, c) \in EntryType
  BY <1>1, <1>2 DEF Credited, EntryType
<1> QED BY <1>3 DEF RefillCredited

\* The .finally() callbacks keep the entry well formed.
LEMMA ClearedTyped ==
    ASSUME NEW e \in EntryType, NEW s \in Slots
    PROVE  ClearedPending(e, s) \in EntryType /\ RefillDone(e) \in EntryType
BY DEF ClearedPending, RefillDone, EntryType

\* The boundaries of a window are natural numbers.
LEMMA ResetAtTyped == \A t \in Nat : ResetAt(t) \in Nat /\ WindowStart(t) \in Nat
BY WindowNat, LeasedAssumption DEF ResetAt, WindowStart

\* What the store decides a call with: its own clock, or the time of the caller.
LEMMA DecisionTimeTyped ==
    ASSUME TypeOK, NEW c \in LeaseType PROVE DecisionTime(c) \in Nat
<1>1. now \in Nat /\ c.at \in Nat
  BY LeasedAssumption DEF TypeOK, LeaseType
<1> QED BY <1>1 DEF DecisionTime

----------------------------------------------------------------------------
(* Type correctness *)

\* A check leaves well-typed state, whether it is served or suspended.
LEMMA CheckTyped ==
    ASSUME TypeOK, NEW n \in Node, NEW r \in Reqs, NEW c \in Costs, Check(n, r, c)
    PROVE  TypeOK'
<1> DEFINE e == Unexpired(EntryFor(n))
<1>1. e \in EntryType /\ Window(now) \in Windows /\ waiting[n] \in Seq(WaiterType)
  BY EntryForTyped, WindowInRange DEF TypeOK
<1> HIDE DEF e
<1>2. CASE Serve(n, e, c, Window(now)) /\ UNCHANGED waiting
  BY <1>1, <1>2, ServeTyped DEF Check, TypeOK
<1>3. CASE AwaitLease(n, e, r, c, Window(now), waiting[n])
  <2>1. UNCHANGED <<now, l2, resets, granted, admitted, prompt>>
    BY <1>3 DEF Check, AwaitLease
  <2>2. /\ entry' \in [Node -> EntryType]
        /\ lease' \in [Node -> [Slots -> LeaseType]]
        /\ waiting' \in [Node -> Seq(WaiterType)]
    BY <1>1, <1>3, AwaitTyped
  <2> QED BY <2>1, <2>2 DEF TypeOK
<1> QED BY <1>2, <1>3 DEF Check, e

\* A resumed check leaves well-typed state, in each of its four outcomes.
LEMMA ResumeTyped ==
    ASSUME TypeOK, NEW n \in Node, NEW i \in DOMAIN waiting[n], Resume(n, i)
    PROVE  TypeOK'
<1> DEFINE w == waiting[n][i]
           q == Without(waiting[n], i)
           e == EntryFor(n)
           Leave == waiting' = [waiting EXCEPT ![n] = q]
<1>1. waiting[n] \in Seq(WaiterType) /\ w \in WaiterType
  BY DEF TypeOK
<1>2. q \in Seq(WaiterType)
  BY <1>1, WithoutTyped
<1>3. e \in EntryType /\ w.cost \in Costs /\ w.at \in Windows /\ w.req \in Reqs
  BY <1>1, EntryForTyped DEF WaiterType
<1>4. \/ Leave /\ UNCHANGED <<entry, lease, admitted, prompt>>
      \/ Leave /\ entry' = [entry EXCEPT ![n] = e] /\ UNCHANGED <<lease, admitted, prompt>>
      \/ Serve(n, e, w.cost, w.at) /\ Leave
      \/ AwaitLease(n, e, w.req, w.cost, w.at, q)
  BY DEF Resume
<1>5. UNCHANGED <<now, l2, resets, granted>>
  BY DEF Resume
<1> HIDE DEF w, q, e
<1>6. Leave => waiting' \in [Node -> Seq(WaiterType)]
  BY <1>2 DEF TypeOK
<1>7. CASE Leave /\ UNCHANGED <<entry, lease, admitted, prompt>>
  BY <1>5, <1>6, <1>7 DEF TypeOK
<1>8. CASE Leave /\ entry' = [entry EXCEPT ![n] = e] /\ UNCHANGED <<lease, admitted, prompt>>
  BY <1>3, <1>5, <1>6, <1>8 DEF TypeOK
<1>9. CASE Serve(n, e, w.cost, w.at) /\ Leave
  BY <1>3, <1>5, <1>6, <1>9, ServeTyped DEF TypeOK
<1>10. CASE AwaitLease(n, e, w.req, w.cost, w.at, q)
  <2>1. UNCHANGED <<admitted, prompt>>
    BY <1>10 DEF AwaitLease
  <2>2. /\ entry' \in [Node -> EntryType]
        /\ lease' \in [Node -> [Slots -> LeaseType]]
        /\ waiting' \in [Node -> Seq(WaiterType)]
    BY <1>2, <1>3, <1>10, AwaitTyped
  <2> QED BY <1>5, <2>1, <2>2 DEF TypeOK
<1> QED BY <1>4, <1>7, <1>8, <1>9, <1>10

\* The L2 call and its callbacks leave well-typed state.
LEMMA CallbackTyped ==
    ASSUME TypeOK, NEW n \in Node, NEW s \in Slots, Callback(n, s)
    PROVE  TypeOK'
<1> DEFINE c == lease[n][s]
<1>1. c \in LeaseType /\ entry[n] \in EntryType /\ waiting[n] \in Seq(WaiterType)
  BY DEF TypeOK
<1>2. CASE L2Apply(n, s)
  <2> DEFINE t == DecisionTime(c)
             g == IF Fits(l2, t, c.amt) THEN c.amt ELSE 0
  <2>1. t \in Nat /\ c.amt \in Nat /\ g \in Nat
    BY <1>1, DecisionTimeTyped DEF LeaseType
  <2>2. ResetAt(t) \in Nat /\ WindowStart(t) \in Nat
    BY <2>1, ResetAtTyped
  <2>3. Fits(l2, t, c.amt) \in BOOLEAN
    BY DEF Fits
  <2>4. [c EXCEPT !.st = "replied", !.ok = Fits(l2, t, c.amt), !.resetAt = ResetAt(t)] \in LeaseType
    BY <1>1, <2>2, <2>3 DEF LeaseType
  <2>5. Consume(l2, t, c.amt) \in [start : Int, count : Nat]
    BY SMTT(60), <2>1, <2>2 DEF Consume, CountAt, TypeOK
  <2>6. l2' = (IF Fits(l2, t, c.amt) THEN Consume(l2, t, c.amt) ELSE l2)
    BY <1>2 DEF L2Apply
  <2>7. granted' = [granted EXCEPT ![Window(t)] = @ + g]
    BY <1>2 DEF L2Apply
  <2>8. lease' = [lease EXCEPT ![n][s] =
           [c EXCEPT !.st = "replied", !.ok = Fits(l2, t, c.amt), !.resetAt = ResetAt(t)]]
    BY <1>2 DEF L2Apply
  <2>9. UNCHANGED <<now, entry, waiting, resets, admitted, prompt>>
    BY <1>2 DEF L2Apply
  <2> HIDE DEF t, c, g
  <2>10. lease' \in [Node -> [Slots -> LeaseType]]
    BY <2>4, <2>8 DEF TypeOK
  <2>11. granted' \in [Windows -> Nat]
    <3>1. granted' = [w \in Windows |-> IF w = Window(t) THEN granted[w] + g ELSE granted[w]]
      BY <2>7 DEF TypeOK
    <3> QED BY <2>1, <3>1 DEF TypeOK
  <2>12. l2' \in [start : Int, count : Nat]
    BY <2>5, <2>6 DEF TypeOK
  <2> QED BY <2>9, <2>10, <2>11, <2>12 DEF TypeOK
<1>3. CASE L2Fail(n, s)
  BY <1>1, <1>3 DEF L2Fail, TypeOK, LeaseType
<1>4. CASE LeaseSettles(n, s)
  <2>1. Credited(entry[n], c) \in EntryType
    BY <1>1, CreditedTyped
  <2>2. Wake(waiting[n], s, IF c.ok THEN "allowed" ELSE "denied") \in Seq(WaiterType)
    BY <1>1, WakeTyped DEF Results
  <2>3. [c EXCEPT !.st = "settled"] \in LeaseType
    BY <1>1 DEF LeaseType
  <2> QED BY <1>4, <2>1, <2>2, <2>3 DEF LeaseSettles, TypeOK
<1>5. CASE PendingCleared(n, s)
  <2>1. ClearedPending(entry[n], s) \in EntryType
    BY <1>1, ClearedTyped
  <2> QED BY <1>5, <2>1, FreeLeaseTyped DEF PendingCleared, TypeOK
<1>6. CASE LeaseRejects(n, s)
  <2>1. ClearedPending(entry[n], s) \in EntryType
    BY <1>1, ClearedTyped
  <2>2. Wake(waiting[n], s, "failed") \in Seq(WaiterType)
    BY <1>1, WakeTyped DEF Results
  <2> QED BY <1>6, <2>1, <2>2, FreeLeaseTyped DEF LeaseRejects, TypeOK
<1>7. CASE RefillSettles(n, s)
  <2> DEFINE d == IF c.st = "lost" THEN entry[n] ELSE RefillCredited(entry[n], c)
  <2>1. d \in EntryType
    BY <1>1, CreditedTyped
  <2>2. entry' = [entry EXCEPT ![n] = RefillDone(d)]
    BY <1>7 DEF RefillSettles
  <2> HIDE DEF d
  <2>3. RefillDone(d) \in EntryType
    BY <2>1, ClearedTyped
  <2> QED BY <1>7, <2>2, <2>3, FreeLeaseTyped DEF RefillSettles, TypeOK
<1> QED BY <1>2, <1>3, <1>4, <1>5, <1>6, <1>7 DEF Callback

\* Evictions, resets and time leave well-typed state.
LEMMA EnvironmentTyped ==
    ASSUME TypeOK, (\E n \in Node : Evict(n) \/ Reset(n)) \/ L2Reset \/ Tick
    PROVE  TypeOK'
<1>1. NoEntry \in EntryType
  BY DEF NoEntry, FreshEntry, EntryType
<1>2. NoRecord \in [start : Int, count : Nat]
  BY DEF NoRecord
<1>3. CASE \E n \in Node : Evict(n)
  BY <1>1, <1>3 DEF Evict, TypeOK
<1>4. CASE \E n \in Node : Reset(n)
  BY <1>1, <1>4 DEF Reset, TypeOK
<1>5. CASE L2Reset
  <2>1. resets \in [issued : Nat, underway : Nat] /\ resets.underway > 0
    BY <1>5 DEF L2Reset, TypeOK
  <2>2. [resets EXCEPT !.underway = @ - 1] \in [issued : Nat, underway : Nat]
    BY <2>1
  <2> QED BY <1>2, <1>5, <2>2 DEF L2Reset, TypeOK
<1>6. CASE Tick
  BY <1>6, LeasedAssumption DEF Tick, TypeOK
<1> QED BY <1>3, <1>4, <1>5, <1>6

\* The initial state is well typed, and no step of Next leaves the types.
LEMMA TypeInit == Init => TypeOK
<1>1. NoEntry \in EntryType
  BY DEF NoEntry, FreshEntry, EntryType
<1>2. NoRecord \in [start : Int, count : Nat]
  BY DEF NoRecord
<1> QED BY <1>1, <1>2, FreeLeaseTyped, LeasedAssumption DEF Init, TypeOK

\* Every step of Next keeps the types.
LEMMA TypeStep == TypeOK /\ [Next]_vars => TypeOK'
<1> SUFFICES ASSUME TypeOK, [Next]_vars PROVE TypeOK'
  OBVIOUS
<1>1. CASE UNCHANGED vars
  BY <1>1 DEF vars, TypeOK
<1>2. CASE \E n \in Node, r \in Reqs, c \in Costs : Check(n, r, c)
  BY <1>2, CheckTyped
<1>3. CASE \E n \in Node : \E i \in DOMAIN waiting[n] : Resume(n, i)
  BY <1>3, ResumeTyped
<1>4. CASE \E n \in Node, s \in Slots : Callback(n, s)
  BY <1>4, CallbackTyped
<1>5. CASE (\E n \in Node : Evict(n) \/ Reset(n)) \/ L2Reset \/ Tick
  BY <1>5, EnvironmentTyped
<1> QED BY <1>1, <1>2, <1>3, <1>4, <1>5 DEF Next

\* Credits never go negative and every record the code keeps stays well formed,
\* however checks, callbacks, failures, evictions and resets interleave.
THEOREM TypeCorrect == Spec => []TypeOK
BY TypeInit, TypeStep, PTL DEF Spec

----------------------------------------------------------------------------
(* The L2 budget of a window *)

\* Multiples of the limit are natural numbers and grow with the factor.
LEMMA BudgetArithmetic ==
    ASSUME NEW j \in Nat, NEW k \in Nat
    PROVE  /\ Limit * k \in Nat
           /\ Limit * (1 + k) = Limit + Limit * k
           /\ j <= k => Limit * j <= Limit * k
BY LeasedAssumption

\* The completed resets are counted by a natural number.
LEMMA ResetsDoneNat == TypeOK /\ BudgetInv => ResetsDone \in Nat
BY DEF TypeOK, BudgetInv, ResetsDone

\* A step that leaves the clock, the L2 record and the resets alone keeps the invariant.
LEMMA BudgetFrame == BudgetInv /\ UNCHANGED <<now, l2, resets, granted>> => BudgetInv'
BY DEF BudgetInv, ResetsDone, CountAt, WindowStart, Window

\* No window has been charged in the initial state.
LEMMA BudgetInit == Init => BudgetInv
<1> SUFFICES ASSUME Init PROVE BudgetInv
  OBVIOUS
<1>1. ResetsDone = 0 /\ Limit * 0 = 0 /\ Limit * (1 + 0) = Limit /\ Limit \in Nat
  BY LeasedAssumption DEF Init, ResetsDone
<1>2. 0 \in 0..MaxTime /\ Window(0) \in Windows
  BY WindowInRange, LeasedAssumption
<1>3. \A w \in Windows : granted[w] = 0
  BY DEF Init
<1>4. CountAt(l2, now) = 0 /\ l2.count = 0
  BY DEF Init, NoRecord, CountAt
<1> QED BY <1>1, <1>2, <1>3, <1>4 DEF BudgetInv, Init

\* L2 admits a lease only within what the record leaves of the current window.
LEMMA BudgetApply ==
    ASSUME ServerTime = TRUE, TypeOK, BudgetInv, NEW n \in Node, NEW s \in Slots, L2Apply(n, s)
    PROVE  BudgetInv'
<1> DEFINE amt == lease[n][s].amt
           w0 == Window(now)
           cnt == CountAt(l2, now)
<1>1. amt \in Nat /\ now \in Nat /\ now \in 0..MaxTime
  BY LeasedAssumption DEF TypeOK, LeaseType
<1>2. w0 \in Windows /\ w0 \in Nat /\ WindowStart(now) \in Nat
  BY <1>1, WindowInRange, WindowNat, ResetAtTyped
<1>3. cnt \in Nat /\ cnt <= Limit /\ Limit \in Nat
  BY LeasedAssumption DEF BudgetInv, CountAt, TypeOK
<1>4. ResetsDone \in Nat /\ Limit * ResetsDone \in Nat
       /\ Limit * (1 + ResetsDone) = Limit + Limit * ResetsDone
  BY ResetsDoneNat, BudgetArithmetic
<1>5. DecisionTime(lease[n][s]) = now
  BY DEF DecisionTime
<1>6. UNCHANGED <<now, resets>> /\ ResetsDone' = ResetsDone
  BY DEF L2Apply, ResetsDone
<1>7. CASE ~Fits(l2, now, amt)
  <2>1. l2' = l2 /\ granted' = [granted EXCEPT ![w0] = @ + 0]
    BY <1>5, <1>7 DEF L2Apply
  <2>2. granted' = granted
    BY <1>2, <2>1 DEF TypeOK
  <2> QED BY <1>6, <2>1, <2>2, BudgetFrame
<1>8. CASE Fits(l2, now, amt)
  <2>1. l2' = [start |-> WindowStart(now), count |-> cnt + amt]
        /\ granted' = [granted EXCEPT ![w0] = @ + amt]
    BY <1>5, <1>8 DEF L2Apply, Consume
  <2>2. cnt + amt <= Limit
    BY <1>8 DEF Fits
  <2>3. CountAt(l2', now') = cnt + amt
    BY <1>6, <2>1 DEF CountAt, WindowStart, Window
  <2>4. granted'[w0] = granted[w0] + amt
        /\ \A w \in Windows : w # w0 => granted'[w] = granted[w]
    BY <1>2, <2>1 DEF TypeOK
  <2>5. granted[w0] \in Nat /\ granted[w0] <= cnt + Limit * ResetsDone
    BY <1>2 DEF BudgetInv, TypeOK
  <2>6. granted'[w0] <= cnt + amt + Limit * ResetsDone
    BY <1>1, <1>3, <1>4, <2>4, <2>5
  <2>7. granted'[w0] <= Limit * (1 + ResetsDone)
    BY <1>1, <1>3, <1>4, <2>2, <2>4, <2>5
  <2>8. \A w \in Windows : w > w0 => granted'[w] = 0
    BY <1>2, <2>4 DEF BudgetInv, Windows
  <2>9. \A w \in Windows : granted'[w] <= Limit * (1 + ResetsDone)
    BY <2>4, <2>7 DEF BudgetInv
  <2>10. Window(now') = w0 /\ l2'.count = cnt + amt
    BY <1>6, <2>1 DEF Window
  <2>11. resets'.underway <= resets'.issued
    BY <1>6 DEF BudgetInv
  <2> HIDE DEF w0, cnt, amt
  <2> QED BY <1>6, <2>2, <2>3, <2>6, <2>8, <2>9, <2>10, <2>11 DEF BudgetInv
<1> QED BY <1>7, <1>8

\* reset(): a call under way changes nothing, one that reaches L2 forgives the record.
LEMMA BudgetReset ==
    ASSUME TypeOK, BudgetInv, (\E n \in Node : Reset(n)) \/ L2Reset
    PROVE  BudgetInv'
<1>1. resets.issued \in Nat /\ resets.underway \in Nat /\ ResetsDone \in Nat /\ Limit \in Nat
  BY ResetsDoneNat, LeasedAssumption DEF TypeOK
<1>2. CASE \E n \in Node : Reset(n)
  <2>1. UNCHANGED <<now, l2, granted>> /\ ResetsDone' = ResetsDone
        /\ resets'.underway <= resets'.issued
    BY <1>1, <1>2 DEF Reset, ResetsDone, BudgetInv
  <2> QED BY <2>1 DEF BudgetInv, CountAt, WindowStart, Window
<1>3. CASE L2Reset
  <2> DEFINE w0 == Window(now)
  <2>1. UNCHANGED <<now, granted>> /\ l2' = NoRecord /\ ResetsDone' = 1 + ResetsDone
        /\ resets'.underway <= resets'.issued
    <3>1. /\ resets' = [resets EXCEPT !.underway = @ - 1] /\ resets.underway > 0
          /\ l2' = NoRecord /\ UNCHANGED <<now, granted>>
      BY Zenon, <1>3 DEF L2Reset
    <3>2. resets \in [issued : Nat, underway : Nat] /\ resets.underway <= resets.issued
      BY DEF TypeOK, BudgetInv
    <3>3. resets'.issued = resets.issued /\ resets'.underway = resets.underway - 1
      BY <3>1, <3>2
    <3> QED BY <1>1, <3>1, <3>2, <3>3 DEF ResetsDone
  <2>2. w0 \in Windows /\ Window(now') = w0
    BY <2>1, WindowInRange DEF TypeOK, Window
  <2>3. CountAt(l2', now') = 0 /\ l2'.count = 0
    BY <2>1 DEF NoRecord, CountAt
  <2>4. Limit * (1 + ResetsDone) <= Limit * (1 + ResetsDone')
        /\ Limit * (1 + ResetsDone) \in Nat /\ Limit * ResetsDone' \in Nat
        /\ Limit * (1 + ResetsDone') \in Nat
    BY <1>1, <2>1, BudgetArithmetic
  <2>5. \A w \in Windows : granted[w] \in Nat /\ granted[w] <= Limit * (1 + ResetsDone)
    BY DEF BudgetInv, TypeOK
  <2>6. \A w \in Windows : granted'[w] <= Limit * (1 + ResetsDone')
    BY <2>1, <2>4, <2>5
  <2>7. granted'[w0] <= CountAt(l2', now') + Limit * ResetsDone'
    BY <2>1, <2>2, <2>3, <2>4, <2>5
  <2>8. \A w \in Windows : w > w0 => granted'[w] = 0
    BY <2>1 DEF BudgetInv
  <2> HIDE DEF w0
  <2> QED BY <1>1, <2>1, <2>2, <2>3, <2>6, <2>7, <2>8 DEF BudgetInv
<1> QED BY <1>2, <1>3

\* Time: the record stays that of the window, or a window without grants begins.
LEMMA BudgetTick ==
    ASSUME TypeOK, BudgetInv, Tick
    PROVE  BudgetInv'
<1> DEFINE w0 == Window(now)
           w1 == Window(now')
<1>1. UNCHANGED <<l2, granted, resets>> /\ ResetsDone' = ResetsDone /\ now' = now + 1
  BY DEF Tick, ResetsDone
<1>2. now \in Nat /\ now' \in Nat /\ now' \in 0..MaxTime
  BY <1>1, LeasedAssumption DEF TypeOK, Tick
<1>3. w0 \in Nat /\ w1 \in Nat /\ w0 <= w1 /\ w1 \in Windows
  BY <1>1, <1>2, WindowMonotone, WindowNat, WindowInRange
<1>4. ResetsDone \in Nat /\ Limit * ResetsDone \in Nat
  BY ResetsDoneNat, BudgetArithmetic
<1>5. CountAt(l2, now') \in Nat
  BY DEF CountAt, TypeOK
<1>6. granted[w1] <= CountAt(l2, now') + Limit * ResetsDone
  <2>1. CASE w1 = w0
    <3>1. CountAt(l2, now') = CountAt(l2, now)
      BY <2>1 DEF CountAt, WindowStart
    <3> QED BY <2>1, <3>1 DEF BudgetInv
  <2>2. CASE w1 # w0
    <3>1. granted[w1] = 0
      BY <1>3, <2>2 DEF BudgetInv
    <3> QED BY <1>4, <1>5, <3>1
  <2> QED BY <2>1, <2>2
<1>7. \A w \in Windows : w > w1 => granted[w] = 0
  BY <1>3 DEF BudgetInv, Windows
<1>8. CountAt(l2', now') = CountAt(l2, now')
  BY <1>1 DEF CountAt
<1> HIDE DEF w0, w1
<1> QED BY <1>1, <1>6, <1>7, <1>8 DEF BudgetInv, w1

\* Every step keeps the account of the current window.
LEMMA BudgetStep ==
    ASSUME ServerTime = TRUE PROVE TypeOK /\ BudgetInv /\ [Next]_vars => BudgetInv'
<1> SUFFICES ASSUME TypeOK, BudgetInv, [Next]_vars PROVE BudgetInv'
  OBVIOUS
<1>1. CASE UNCHANGED vars
  BY <1>1, BudgetFrame DEF vars
<1>2. CASE \E n \in Node, r \in Reqs, c \in Costs : Check(n, r, c)
  BY <1>2, BudgetFrame DEF Check
<1>3. CASE \E n \in Node : \E i \in DOMAIN waiting[n] : Resume(n, i)
  BY <1>3, BudgetFrame DEF Resume
<1>4. CASE \E n \in Node, s \in Slots : Callback(n, s)
  <2>1. PICK n \in Node, s \in Slots : Callback(n, s)
    BY <1>4
  <2>2. CASE L2Apply(n, s)
    BY <2>2, BudgetApply
  <2>3. CASE ~L2Apply(n, s)
    <3>1. UNCHANGED <<now, l2, resets, granted>>
      BY <2>1, <2>3
      DEF Callback, L2Fail, LeaseSettles, PendingCleared, LeaseRejects, RefillSettles
    <3> QED BY <3>1, BudgetFrame
  <2> QED BY <2>2, <2>3
<1>5. CASE \E n \in Node : Evict(n)
  BY <1>5, BudgetFrame DEF Evict
<1>6. CASE (\E n \in Node : Reset(n)) \/ L2Reset
  BY <1>6, BudgetReset
<1>7. CASE Tick
  BY <1>7, BudgetTick
<1> QED BY <1>1, <1>2, <1>3, <1>4, <1>5, <1>6, <1>7 DEF Next

\* With a store that decides at its own clock, the leases of the whole fleet never
\* take more than Limit out of one window (plus Limit for every reset() issued).
THEOREM L2Budget ==
    ASSUME ServerTime = TRUE PROVE Spec => []L2GrantsWithinLimit
<1>1. TypeOK /\ BudgetInv => L2GrantsWithinLimit
  <2> SUFFICES ASSUME TypeOK, BudgetInv, NEW w \in Windows
               PROVE  granted[w] <= Limit * (1 + resets.issued)
    BY DEF L2GrantsWithinLimit
  <2>1. resets.issued \in Nat /\ ResetsDone \in Nat /\ ResetsDone <= resets.issued
    BY ResetsDoneNat DEF TypeOK, ResetsDone
  <2>2. Limit * (1 + ResetsDone) <= Limit * (1 + resets.issued)
        /\ Limit * (1 + ResetsDone) \in Nat /\ Limit * (1 + resets.issued) \in Nat
    <3>1. 1 + ResetsDone \in Nat /\ 1 + resets.issued \in Nat /\ 1 + ResetsDone <= 1 + resets.issued
      BY <2>1
    <3> QED BY Zenon, <3>1, BudgetArithmetic
  <2>3. granted[w] \in Nat /\ granted[w] <= Limit * (1 + ResetsDone)
    BY DEF BudgetInv, TypeOK
  <2> QED BY <2>2, <2>3
<1> QED BY <1>1, TypeInit, TypeStep, BudgetInit, BudgetStep, PTL DEF Spec

----------------------------------------------------------------------------
(* What a node holds, when it leases on demand only *)

Calls == [Slots -> LeaseType]

\* The bound on what a node holds is a natural number.
LEMMA HoldMaxNat ==
    /\ MaxCost \in Nat /\ MaxBatch \in Nat /\ HoldMax \in Nat /\ MaxCost >= 1
    /\ \A b \in BatchSizes, c \in Costs :
          Larger(b, c) \in Nat /\ c \in Nat /\ c >= 1 /\ (c - 1) + Larger(b, c) <= HoldMax
<1>1. \A b \in BatchSizes : b \in Nat /\ b <= MaxBatch
  BY LeasedAssumption
<1>2. \A c \in Costs : c \in Nat /\ c >= 1 /\ c <= MaxCost
  BY LeasedAssumption
<1>3. MaxCost \in Nat /\ MaxBatch \in Nat /\ MaxCost >= 1
  <2>1. MaxCost \in Nat /\ MaxBatch \in Nat /\ Costs # {}
    BY LeasedAssumption
  <2>2. PICK c \in Costs : TRUE
    BY <2>1
  <2> QED BY <1>2, <2>1, <2>2
<1> QED BY <1>1, <1>2, <1>3 DEF HoldMax, Larger

\* The entry a check works on: the live one, or a fresh one that has no lease.
LEMMA HeldByEntryFor ==
    ASSUME TypeOK, NEW n \in Node, Held(entry[n], lease[n])
    PROVE  /\ Held(EntryFor(n), lease[n]) /\ EntryFor(n).live
           /\ Held(Unexpired(EntryFor(n)), lease[n]) /\ Unexpired(EntryFor(n)).live
<1> DEFINE e == EntryFor(n)
<1>1. e \in EntryType /\ lease[n] \in Calls
  BY EntryForTyped DEF TypeOK, Calls
<1>2. Held(e, lease[n]) /\ e.live
  <2>1. CASE entry[n].live
    BY <2>1 DEF EntryFor
  <2>2. CASE ~entry[n].live
    <3>1. \A s \in Slots : lease[n][s].st = "free"
      BY <2>2 DEF Held
    <3>2. e.credits = 0 /\ e.live
      BY <2>2 DEF EntryFor, FreshEntry
    <3> QED BY <3>1, <3>2, HoldMaxNat DEF Held
  <2> QED BY <2>1, <2>2
<1> HIDE DEF e
<1>3. Held(Unexpired(e), lease[n]) /\ Unexpired(e).live
  <2>1. CASE Unexpired(e) = e
    BY <1>2, <2>1
  <2>2. CASE Unexpired(e) = [e EXCEPT !.credits = 0]
    <3> DEFINE f == [e EXCEPT !.credits = 0]
    <3>1. f.credits = 0 /\ f.live = e.live /\ f.pending = e.pending /\ e.credits \in Nat
      BY <1>1 DEF EntryType
    <3>2. \A s \in Slots : lease[n][s].amt \in Nat
      BY <1>1 DEF Calls, LeaseType
    <3> HIDE DEF f
    <3>3. Held(f, lease[n])
      BY <1>2, <3>1, <3>2, HoldMaxNat DEF Held
    <3> QED BY <1>2, <2>2, <3>1, <3>3 DEF f
  <2> QED BY <2>1, <2>2 DEF Unexpired
<1> QED BY <1>2, <1>3 DEF e

\* Spending local credits only lowers what the node holds.
LEMMA HeldAfterSpend ==
    ASSUME NEW e \in EntryType, NEW L \in Calls, NEW c \in Costs, Held(e, L), Covers(e, c)
    PROVE  Held(Spend(e, c), L)
<1>1. e.credits \in Nat /\ c \in Nat /\ e.credits >= c
  BY CostsTyped DEF EntryType, Covers
<1>2. Spend(e, c).credits = e.credits - c /\ Spend(e, c).live = e.live
      /\ Spend(e, c).pending = e.pending
  BY DEF Spend, EntryType
<1>3. \A s \in Slots : L[s].amt \in Nat
  BY DEF Calls, LeaseType
<1> QED BY <1>1, <1>2, <1>3, HoldMaxNat DEF Held

\* A lease is started only when none is pending and the credits are below the cost.
LEMMA HeldAfterLease ==
    ASSUME TypeOK, NEW e \in EntryType, NEW L \in Calls, NEW c \in Costs, NEW b \in BatchSizes,
           NEW s \in Slots, Held(e, L), e.live, ~Joins(e), ~Covers(e, c)
    PROVE  Held([e EXCEPT !.pending = s], [L EXCEPT ![s] = Sent("demand", Larger(b, c))])
<1> DEFINE f == [e EXCEPT !.pending = s]
           call == Sent("demand", Larger(b, c))
           M == [L EXCEPT ![s] = call]
<1>1. f.credits = e.credits /\ f.live = e.live /\ f.pending = s /\ e.credits \in Nat
  BY DEF EntryType
<1>2. call.kind = "demand" /\ call.amt = Larger(b, c)
  BY DEF Sent, FreeLease
<1>3. M[s] = call /\ \A t \in Slots : t # s => M[t] = L[t]
  BY DEF Calls
<1>4. \A t \in Slots : L[t].st = "free"
  BY LeasedAssumption DEF Held, Joins
<1>5. c \in Nat /\ e.credits < c /\ e.credits + Larger(b, c) <= HoldMax
  BY <1>1, HoldMaxNat DEF Covers
<1> HIDE DEF f, call, M
<1>6. Held(f, M)
  BY <1>1, <1>2, <1>3, <1>4, <1>5, HoldMaxNat DEF Held
<1> QED BY <1>6 DEF f, call, M

\* Serving or awaiting keeps what the node holds within bounds.
LEMMA HeldAfterServe ==
    ASSUME LowWater = 0, TypeOK, HoldInv, NEW n \in Node, NEW e \in EntryType, NEW c \in Costs,
           NEW w \in Windows, Held(e, lease[n]), Serve(n, e, c, w)
    PROVE  HoldInv'
<1>1. lease[n] \in Calls
  BY DEF TypeOK, Calls
<1>2. ~WantsRefill(Spend(e, c))
  BY DEF WantsRefill
<1>3. entry' = [entry EXCEPT ![n] = Spend(e, c)] /\ lease' = lease /\ Covers(e, c)
  BY <1>2 DEF Serve
<1>4. Held(Spend(e, c), lease[n])
  BY <1>1, <1>3, HeldAfterSpend
<1> QED BY <1>3, <1>4 DEF HoldInv, TypeOK

\* A check that is short of credits joins the lease under way, or starts the only one.
LEMMA HeldAfterAwait ==
    ASSUME TypeOK, HoldInv, NEW n \in Node, NEW e \in EntryType, NEW r \in Reqs, NEW c \in Costs,
           NEW w \in Windows, NEW q, Held(e, lease[n]), e.live, AwaitLease(n, e, r, c, w, q)
    PROVE  HoldInv'
<1>1. CASE Joins(e)
  <2>1. entry' = [entry EXCEPT ![n] = e] /\ lease' = lease
    BY <1>1 DEF AwaitLease
  <2> QED BY <2>1 DEF HoldInv, TypeOK
<1>2. CASE ~Joins(e)
  <2>1. ~Covers(e, c)
    BY DEF AwaitLease
  <2>2. PICK s \in Slots, b \in BatchSizes :
           /\ lease' = [lease EXCEPT ![n][s] = Sent("demand", Larger(b, c))]
           /\ entry' = [entry EXCEPT ![n] = [e EXCEPT !.pending = s]]
    BY <1>2 DEF AwaitLease
  <2>3. lease[n] \in Calls
    BY DEF TypeOK, Calls
  <2>4. Held([e EXCEPT !.pending = s], [lease[n] EXCEPT ![s] = Sent("demand", Larger(b, c))])
    BY <1>2, <2>1, <2>3, HeldAfterLease
  <2>5. /\ entry'[n] = [e EXCEPT !.pending = s]
        /\ lease'[n] = [lease[n] EXCEPT ![s] = Sent("demand", Larger(b, c))]
        /\ \A m \in Node : m # n => entry'[m] = entry[m] /\ lease'[m] = lease[m]
    BY <2>2 DEF TypeOK
  <2>6. Held(entry'[n], lease'[n])
    BY <2>4, <2>5
  <2> QED BY <2>5, <2>6 DEF HoldInv
<1> QED BY <1>1, <1>2

\* A call of node n that moves on, or ends, touches no other node.
LEMMA HoldAt ==
    ASSUME HoldInv, NEW n \in Node, Held(entry'[n], lease'[n]),
           \A m \in Node : m # n => entry'[m] = entry[m] /\ lease'[m] = lease[m]
    PROVE  HoldInv'
BY DEF HoldInv

\* The callbacks of a lease turn the amount under way into credits, never into more.
LEMMA HeldAfterCallback ==
    ASSUME TypeOK, HoldInv, NEW n \in Node, NEW s \in Slots, Callback(n, s)
    PROVE  HoldInv'
<1> DEFINE c == lease[n][s]
           L == lease[n]
           e == entry[n]
<1>1. L \in Calls /\ c \in LeaseType /\ e \in EntryType /\ Held(e, L)
  BY DEF TypeOK, Calls, HoldInv
<1>2. e.credits \in Nat /\ c.amt \in Nat /\ \A t \in Slots : L[t].amt \in Nat
  BY <1>1 DEF EntryType, LeaseType, Calls
<1>3. c.st # "free" /\ c.kind = "demand" /\ e.live /\ e.pending = s
      /\ \A t \in Slots : t # s => L[t].st = "free"
  <2>1. c.st # "free"
    BY DEF Callback, L2Apply, L2Fail, LeaseSettles, PendingCleared, LeaseRejects, RefillSettles
  <2> QED BY <1>1, <2>1 DEF Held
<1>4. CASE L2Apply(n, s)
  <2>1. PICK d \in LeaseType : d.amt = c.amt /\ d.kind = c.kind /\ d.st = "replied" /\ c.st = "sent"
                               /\ lease' = [lease EXCEPT ![n][s] = d]
    <3> DEFINE t == DecisionTime(c)
               d == [c EXCEPT !.st = "replied", !.ok = Fits(l2, t, c.amt), !.resetAt = ResetAt(t)]
    <3>1. t \in Nat /\ ResetAt(t) \in Nat /\ Fits(l2, t, c.amt) \in BOOLEAN
      BY <1>1, DecisionTimeTyped, ResetAtTyped DEF Fits
    <3> HIDE DEF t
    <3>2. d \in LeaseType /\ d.amt = c.amt /\ d.kind = c.kind /\ d.st = "replied"
      BY <1>1, <3>1 DEF LeaseType
    <3>3. c.st = "sent" /\ lease' = [lease EXCEPT ![n][s] = d]
      BY <1>4 DEF L2Apply, t
    <3> QED BY <3>2, <3>3
  <2>2. entry' = entry
    BY <1>4 DEF L2Apply
  <2>3. lease'[n] = [L EXCEPT ![s] = d] /\ \A m \in Node : m # n => lease'[m] = lease[m]
    BY <2>1 DEF TypeOK
  <2>4. Held(e, [L EXCEPT ![s] = d])
    BY <1>1, <1>2, <1>3, <2>1 DEF Held, Calls
  <2> QED BY <2>2, <2>3, <2>4, HoldAt
<1>5. CASE L2Fail(n, s)
  <2> DEFINE d == [c EXCEPT !.st = "lost"]
  <2>1. d.kind = "demand" /\ d.st = "lost"
    BY <1>1, <1>3 DEF LeaseType
  <2>2. lease'[n] = [L EXCEPT ![s] = d] /\ \A m \in Node : m # n => lease'[m] = lease[m]
    BY <1>5 DEF L2Fail, TypeOK
  <2>3. entry' = entry
    BY <1>5 DEF L2Fail
  <2> HIDE DEF d
  <2>4. Held(e, [L EXCEPT ![s] = d])
    BY <1>1, <1>2, <1>3, <2>1 DEF Held, Calls
  <2> QED BY <2>2, <2>3, <2>4, HoldAt
<1>6. CASE LeaseSettles(n, s)
  <2> DEFINE d == [c EXCEPT !.st = "settled"]
             f == Credited(e, c)
  <2>1. d.kind = "demand" /\ d.st = "settled"
    BY <1>1, <1>3 DEF LeaseType
  <2>2. c.st = "replied" /\ e.credits + c.amt <= HoldMax
    BY <1>1, <1>6 DEF LeaseSettles, Held
  <2>3. f.live = e.live /\ f.pending = e.pending /\ f.credits <= HoldMax
    <3>1. f.live = e.live /\ f.pending = e.pending
      BY <1>1 DEF Credited, EntryType
    <3>2. f.credits = e.credits + (IF c.ok THEN c.amt ELSE 0)
      BY <1>1, <1>3 DEF Credited, EntryType
    <3>3. f.credits = e.credits \/ f.credits = e.credits + c.amt
      BY <1>2, <3>2
    <3> QED BY <1>1, <1>2, <2>2, <3>1, <3>3 DEF Held
  <2>4. lease'[n] = [L EXCEPT ![s] = d] /\ entry'[n] = f
        /\ \A m \in Node : m # n => lease'[m] = lease[m] /\ entry'[m] = entry[m]
    BY <1>6 DEF LeaseSettles, TypeOK
  <2> HIDE DEF d, f
  <2>5. Held(f, [L EXCEPT ![s] = d])
    BY <1>1, <1>2, <1>3, <2>1, <2>3 DEF Held, Calls
  <2> QED BY <2>4, <2>5, HoldAt
<1>7. CASE PendingCleared(n, s) \/ LeaseRejects(n, s)
  <2> DEFINE f == ClearedPending(e, s)
  <2>1. f.credits = e.credits
    BY <1>1 DEF ClearedPending, EntryType
  <2>2. lease'[n] = [L EXCEPT ![s] = FreeLease] /\ entry'[n] = f
        /\ \A m \in Node : m # n => lease'[m] = lease[m] /\ entry'[m] = entry[m]
    BY <1>7 DEF PendingCleared, LeaseRejects, TypeOK
  <2>3. FreeLease.st = "free"
    BY DEF FreeLease
  <2> HIDE DEF f
  <2>4. Held(f, [L EXCEPT ![s] = FreeLease])
    BY <1>1, <1>3, <2>1, <2>3 DEF Held, Calls
  <2> QED BY <2>2, <2>4, HoldAt
<1>8. CASE RefillSettles(n, s)
  BY <1>3, <1>8 DEF RefillSettles
<1> QED BY <1>4, <1>5, <1>6, <1>7, <1>8 DEF Callback

\* On-demand leasing: no proactive refill, no eviction, no reset.
OnDemandOnly == LowWater = 0 /\ CanEvict = FALSE /\ MaxResets = 0

\* Every step keeps credits plus the lease under way within the bound.
LEMMA HoldStep ==
    ASSUME OnDemandOnly PROVE TypeOK /\ HoldInv /\ [Next]_vars => HoldInv'
<1> SUFFICES ASSUME TypeOK, HoldInv, [Next]_vars PROVE HoldInv'
  OBVIOUS
<1> USE DEF OnDemandOnly
<1>1. CASE UNCHANGED vars
  BY <1>1 DEF vars, HoldInv
<1>2. ASSUME NEW n \in Node, NEW r \in Reqs, NEW c \in Costs, Check(n, r, c) PROVE HoldInv'
  <2> DEFINE e == Unexpired(EntryFor(n))
  <2>1. e \in EntryType /\ Held(e, lease[n]) /\ e.live /\ Window(now) \in Windows
    BY EntryForTyped, HeldByEntryFor, WindowInRange DEF HoldInv, TypeOK
  <2>2. Serve(n, e, c, Window(now)) \/ AwaitLease(n, e, r, c, Window(now), waiting[n])
    BY <1>2 DEF Check
  <2> HIDE DEF e
  <2> QED BY <2>1, <2>2, HeldAfterServe, HeldAfterAwait
<1>3. ASSUME NEW n \in Node, NEW i \in DOMAIN waiting[n], Resume(n, i) PROVE HoldInv'
  <2> DEFINE w == waiting[n][i]
             e == EntryFor(n)
             q == Without(waiting[n], i)
  <2>1. e \in EntryType /\ Held(e, lease[n]) /\ e.live
    BY EntryForTyped, HeldByEntryFor DEF HoldInv
  <2>2. w.cost \in Costs /\ w.at \in Windows /\ w.req \in Reqs
    <3>1. waiting[n] \in Seq(WaiterType) /\ w \in WaiterType
      BY DEF TypeOK
    <3> HIDE DEF w
    <3> QED BY <3>1 DEF WaiterType
  <2>3. \/ UNCHANGED <<entry, lease>>
        \/ entry' = [entry EXCEPT ![n] = e] /\ UNCHANGED lease
        \/ Serve(n, e, w.cost, w.at)
        \/ AwaitLease(n, e, w.req, w.cost, w.at, q)
    BY <1>3 DEF Resume
  <2> HIDE DEF e, w, q
  <2>4. CASE UNCHANGED <<entry, lease>>
    BY <2>4 DEF HoldInv
  <2>5. CASE entry' = [entry EXCEPT ![n] = e] /\ UNCHANGED lease
    BY <2>1, <2>5 DEF HoldInv, TypeOK
  <2>6. CASE Serve(n, e, w.cost, w.at)
    BY <2>1, <2>2, <2>6, HeldAfterServe
  <2>7. CASE AwaitLease(n, e, w.req, w.cost, w.at, q)
    BY <2>1, <2>2, <2>7, HeldAfterAwait
  <2> QED BY <2>3, <2>4, <2>5, <2>6, <2>7
<1>4. CASE \E n \in Node, s \in Slots : Callback(n, s)
  BY <1>4, HeldAfterCallback
<1>5. CASE \E n \in Node : Evict(n) \/ Reset(n)
  BY <1>5 DEF Evict, Reset, TypeOK
<1>6. CASE L2Reset \/ Tick
  BY <1>6 DEF L2Reset, Tick, HoldInv
<1> QED BY <1>1, <1>2, <1>3, <1>4, <1>5, <1>6 DEF Next

\* A node starts with nothing.
LEMMA HoldInit == Init => HoldInv
<1> SUFFICES ASSUME Init, NEW n \in Node PROVE Held(entry[n], lease[n])
  BY DEF HoldInv
<1>1. entry[n].credits = 0 /\ \A s \in Slots : lease[n][s].st = "free"
  BY DEF Init, NoEntry, FreshEntry, FreeLease
<1> QED BY <1>1, HoldMaxNat DEF Held

\* The assumption of every overshoot bound (index.ts:400-402): a node that leases on
\* demand has one lease under way at most, and never holds more than it may ask for.
THEOREM HoldsAtMostBatch ==
    ASSUME OnDemandOnly PROVE Spec => []NodeHoldsAtMostBatch
<1>1. TypeOK /\ HoldInv => NodeHoldsAtMostBatch
  <2> SUFFICES ASSUME HoldInv, NEW n \in Node
               PROVE  /\ entry[n].credits <= HoldMax
                      /\ \A s \in InFlight(n) : entry[n].credits + lease[n][s].amt <= HoldMax
                      /\ \A s, t \in InFlight(n) : s = t
    BY DEF NodeHoldsAtMostBatch
  <2>1. Held(entry[n], lease[n])
    BY DEF HoldInv
  <2>2. \A s \in InFlight(n) : s \in Slots /\ lease[n][s].st \in {"sent", "replied"}
    BY DEF InFlight
  <2>3. \A s \in InFlight(n) : /\ entry[n].pending = s
                               /\ entry[n].credits + lease[n][s].amt <= HoldMax
    BY <2>1, <2>2 DEF Held
  <2> QED BY <2>1, <2>3 DEF Held
<1> QED BY <1>1, HoldInit, TypeInit, TypeStep, HoldStep, PTL DEF Spec
==============================================================================
