------------------------- MODULE TwoTierBudgetProofs -------------------------
(*****************************************************************************)
(* What TwoTierLeased admits and holds, for every fleet: no unit of budget   *)
(* is minted, the two bounds on the overshoot of a window, and what a node   *)
(* holds when it refills ahead of need.  The totals add up the nodes and the *)
(* calls of each node, so they rest on the lemmas about sums.                *)
(*****************************************************************************)
EXTENDS TwoTierLeasedProofs, SumTheorems

----------------------------------------------------------------------------
(* Totals *)

\* A change of one node moves a total over the nodes by the difference.
LEMMA NodesMove ==
  ASSUME NEW f, NEW g, NEW n \in Node, \A m \in Node : f[m] \in Int /\ g[m] \in Int,
         \A m \in Node : m # n => f[m] = g[m]
  PROVE  Sum(f, N) \in Int /\ Sum(g, N) = Sum(f, N) - f[n] + g[n]
<1>1. N \in Nat /\ n \in 1..N
  BY LeasedAssumption DEF Node
<1>2. (\A m \in 1..N : f[m] \in Int /\ g[m] \in Int) /\ \A m \in 1..N : m # n => f[m] = g[m]
  BY DEF Node
<1>3. Sum(g, N) = Sum(f, N) - f[n] + g[n]
  BY ONLY <1>1, <1>2, SumUpdate
<1> QED BY <1>1, <1>2, <1>3, SumInt

\* A change of one call moves a total over the calls of a node by the difference.
LEMMA SlotsMove ==
  ASSUME IsFiniteSet(Slots), NEW f \in [Slots -> Nat], NEW g \in [Slots -> Nat], NEW s \in Slots,
         \A t \in Slots : t # s => f[t] = g[t]
  PROVE  SumFunction(f) \in Nat /\ SumFunction(g) = SumFunction(f) - f[s] + g[s]
<1>1. DOMAIN f = Slots /\ DOMAIN g = Slots /\ \A t \in Slots : f[t] \in Nat /\ f[t] \in Int /\ g[t] \in Int
  OBVIOUS
<1>2. SumFunctionOnSet(g, Slots) = SumFunctionOnSet(f, Slots) - f[s] + g[s]
  BY <1>1, SetSumUpdate
<1>3. SumFunctionOnSet(f, Slots) \in Nat
  BY <1>1, SetSumNat
<1> QED BY <1>1, <1>2, <1>3, SumIsOverDomain

\* A history grows by what is added in one of its windows.
LEMMA HistoryGrows ==
  ASSUME NEW f \in [Windows -> Nat], NEW w \in Windows, NEW a \in Nat
  PROVE  SumFunction(f) \in Nat /\ SumFunction([f EXCEPT ![w] = @ + a]) = SumFunction(f) + a
<1> DEFINE g == [f EXCEPT ![w] = @ + a]
<1>1. IsFiniteSet(Windows)
  <2>1. Window(MaxTime) \in Int /\ 0 \in Int
    BY WindowNat, LeasedAssumption
  <2> QED BY <2>1, FS_Interval DEF Windows
<1>2. DOMAIN f = Windows /\ DOMAIN g = Windows /\ g[w] = f[w] + a
      /\ \A t \in Windows : f[t] \in Nat /\ f[t] \in Int /\ g[t] \in Int /\ (t # w => f[t] = g[t])
  OBVIOUS
<1> HIDE DEF g
<1>3. SumFunctionOnSet(g, Windows) = SumFunctionOnSet(f, Windows) - f[w] + g[w]
  BY <1>1, <1>2, SetSumUpdate
<1>4. SumFunctionOnSet(f, Windows) \in Nat
  BY <1>1, <1>2, SetSumNat
<1>5. SumFunction(g) = SumFunction(f) + a
  BY <1>2, <1>3, <1>4, SumIsOverDomain
<1> QED BY <1>2, <1>4, <1>5, SumIsOverDomain DEF g

\* What a call brings, and what a node may spend, are natural numbers.
LEMMA StockNat ==
  ASSUME IsFiniteSet(Slots), TypeOK, NEW n \in Node
  PROVE  Stock(n) \in Nat /\ entry[n].credits \in Nat /\ \A s \in Slots : Arriving(lease[n][s]) \in Nat
<1> DEFINE f == [s \in Slots |-> Arriving(lease[n][s])]
<1>1. entry[n].credits \in Nat
  BY DEF TypeOK, EntryType
<1>2. \A s \in Slots : Arriving(lease[n][s]) \in Nat
  BY DEF TypeOK, LeaseType, Arriving
<1>3. DOMAIN f = Slots /\ \A s \in Slots : f[s] \in Nat
  BY <1>2
<1>4. SumFunction(f) \in Nat
  BY <1>3, SetSumNat, SumIsOverDomain
<1> QED BY <1>1, <1>2, <1>4 DEF Stock

\* The same of the next state.
LEMMA StockNatNext ==
  ASSUME IsFiniteSet(Slots), TypeOK', NEW n \in Node
  PROVE  Stock(n)' \in Nat /\ entry'[n].credits \in Nat /\ \A s \in Slots : Arriving(lease'[n][s]) \in Nat
<1> DEFINE f == [s \in Slots |-> Arriving(lease'[n][s])]
<1>1. entry'[n].credits \in Nat
  BY DEF TypeOK, EntryType
<1>2. \A s \in Slots : Arriving(lease'[n][s]) \in Nat
  BY DEF TypeOK, LeaseType, Arriving
<1>3. DOMAIN f = Slots /\ \A s \in Slots : f[s] \in Nat
  BY <1>2
<1>4. SumFunction(f) \in Nat
  BY <1>3, SetSumNat, SumIsOverDomain
<1>5. Stock(n)' = entry'[n].credits + SumFunction(f)
  BY DEF Stock
<1> HIDE DEF f
<1> QED BY <1>1, <1>2, <1>4, <1>5

\* The stock of a node one of whose calls moves on.
LEMMA StockMoves ==
  ASSUME IsFiniteSet(Slots), TypeOK, TypeOK', NEW n \in Node, NEW s \in Slots,
         \A t \in Slots : t # s => lease'[n][t] = lease[n][t]
  PROVE  Stock(n)' = Stock(n) - entry[n].credits + entry'[n].credits
                       - Arriving(lease[n][s]) + Arriving(lease'[n][s])
<1> DEFINE f == [t \in Slots |-> Arriving(lease[n][t])]
           g == [t \in Slots |-> Arriving(lease'[n][t])]
<1>1. /\ \A t \in Slots : Arriving(lease[n][t]) \in Nat /\ Arriving(lease'[n][t]) \in Nat
      /\ entry[n].credits \in Nat /\ entry'[n].credits \in Nat
  BY StockNat, StockNatNext
<1>2. f \in [Slots -> Nat] /\ g \in [Slots -> Nat] /\ \A t \in Slots : t # s => f[t] = g[t]
  BY <1>1
<1>3. f[s] = Arriving(lease[n][s]) /\ g[s] = Arriving(lease'[n][s])
  OBVIOUS
<1>4. Stock(n) = entry[n].credits + SumFunction(f) /\ Stock(n)' = entry'[n].credits + SumFunction(g)
  BY DEF Stock
<1> HIDE DEF f, g
<1>5. SumFunction(f) \in Nat /\ SumFunction(g) = SumFunction(f) - f[s] + g[s]
  BY <1>2, SlotsMove
<1> QED BY <1>1, <1>3, <1>4, <1>5

\* The stock of a node none of whose calls moves on.
LEMMA StockSpent ==
  ASSUME IsFiniteSet(Slots), TypeOK, TypeOK', NEW n \in Node, lease'[n] = lease[n]
  PROVE  Stock(n)' = Stock(n) - entry[n].credits + entry'[n].credits
<1>1. Stock(n) \in Nat /\ entry[n].credits \in Nat /\ entry'[n].credits \in Nat
  <2>1. entry'[n].credits \in Nat
    BY DEF TypeOK, EntryType
  <2> QED BY <2>1, StockNat
<1> DEFINE f == SumFunction([t \in Slots |-> Arriving(lease[n][t])])
<1>2. Stock(n) = entry[n].credits + f /\ Stock(n)' = entry'[n].credits + f
  BY DEF Stock
<1>3. f \in Nat
  <2> DEFINE h == [t \in Slots |-> Arriving(lease[n][t])]
  <2>1. DOMAIN h = Slots /\ \A t \in Slots : h[t] \in Nat
    BY StockNat
  <2> QED BY <2>1, SetSumNat, SumIsOverDomain
<1> QED BY <1>1, <1>2, <1>3

----------------------------------------------------------------------------
(* What the steps of a node do to its entry and its calls *)

\* A step of node n leaves the other nodes alone.
OnlyAt(n) == \A m \in Node : m # n => entry'[m] = entry[m] /\ lease'[m] = lease[m] /\ waiting'[m] = waiting[m]

\* Node n sends a call, on a slot that was free.
Issues(n, kind) ==
    \E s \in Slots :
        /\ lease[n][s].st = "free" /\ lease'[n][s].st = "sent" /\ lease'[n][s].kind = kind
        /\ lease'[n][s].at <= now
        /\ \A t \in Slots : t # s => lease'[n][t] = lease[n][t]

\* A call that was just sent has brought nothing yet.
LEMMA SentFields ==
  ASSUME TypeOK, NEW k, NEW a
  PROVE  Sent(k, a).st = "sent" /\ Sent(k, a).kind = k /\ Sent(k, a).at <= now
<1>1. now \in Nat
  BY LeasedAssumption DEF TypeOK
<1> QED BY <1>1 DEF Sent, FreeLease, CallTime

\* Serving a request spends its cost and may send a proactive refill.
LEMMA ServeEffect ==
  ASSUME TypeOK, NEW n \in Node, NEW e \in EntryType, NEW c \in Costs, NEW w, Serve(n, e, c, w)
  PROVE  /\ c \in Nat /\ c >= 1 /\ e.credits >= c
         /\ entry'[n].credits = e.credits - c /\ entry'[n].resetAt = e.resetAt
         /\ entry'[n].pending = e.pending
         /\ \A m \in Node : m # n => entry'[m] = entry[m] /\ lease'[m] = lease[m]
         /\ lease'[n] = lease[n] \/ (LowWater > 0 /\ Issues(n, "refill"))
<1>1. c \in Nat /\ c >= 1 /\ e.credits >= c
  BY LeasedAssumption DEF Serve, Covers
<1> DEFINE f == Spend(e, c)
           h == [f EXCEPT !.refilling = TRUE]
<1>2. f.credits = e.credits - c /\ f.resetAt = e.resetAt /\ f.pending = e.pending
  BY DEF Spend, EntryType
<1>3. h.credits = f.credits /\ h.resetAt = f.resetAt /\ h.pending = f.pending
  BY DEF Spend, EntryType
<1>4. CASE ~WantsRefill(f)
  <2>1. entry' = [entry EXCEPT ![n] = f] /\ lease' = lease
    BY <1>4 DEF Serve
  <2> HIDE DEF f
  <2> QED BY <1>1, <1>2, <2>1 DEF TypeOK
<1>5. CASE WantsRefill(f)
  <2>1. entry' = [entry EXCEPT ![n] = h]
    BY <1>5 DEF Serve
  <2>2. PICK s \in Slots, b \in BatchSizes : lease[n][s].st = "free" /\ lease' = [lease EXCEPT ![n][s] = Sent("refill", b)]
    BY <1>5 DEF Serve
  <2>3. /\ lease'[n][s] = Sent("refill", b) /\ \A t \in Slots : t # s => lease'[n][t] = lease[n][t]
        /\ \A m \in Node : m # n => lease'[m] = lease[m]
    BY <2>2 DEF TypeOK
  <2>4. LowWater > 0 /\ Issues(n, "refill")
    BY <1>5, <2>2, <2>3, SentFields DEF WantsRefill, Issues
  <2> HIDE DEF f, h
  <2> QED BY <1>1, <1>2, <1>3, <2>1, <2>3, <2>4 DEF TypeOK
<1> QED BY <1>4, <1>5

\* Awaiting a lease spends nothing and may send one.
LEMMA AwaitEffect ==
  ASSUME TypeOK, NEW n \in Node, NEW e \in EntryType, NEW r, NEW c, NEW w, NEW q, AwaitLease(n, e, r, c, w, q)
  PROVE  /\ ~Covers(e, c) /\ admitted' = admitted /\ prompt' = prompt
         /\ entry'[n].credits = e.credits /\ entry'[n].resetAt = e.resetAt
         /\ \A m \in Node : m # n => entry'[m] = entry[m] /\ lease'[m] = lease[m]
         /\ lease'[n] = lease[n] \/ Issues(n, "demand")
<1>1. ~Covers(e, c) /\ admitted' = admitted /\ prompt' = prompt
  BY DEF AwaitLease
<1>2. CASE Joins(e)
  <2>1. entry' = [entry EXCEPT ![n] = e] /\ lease' = lease
    BY <1>2 DEF AwaitLease
  <2> QED BY <1>1, <2>1 DEF TypeOK
<1>3. CASE ~Joins(e)
  <2>1. PICK s \in Slots, b \in BatchSizes :
          /\ lease[n][s].st = "free"
          /\ lease' = [lease EXCEPT ![n][s] = Sent("demand", Larger(b, c))]
          /\ entry' = [entry EXCEPT ![n] = [e EXCEPT !.pending = s]]
    BY <1>3 DEF AwaitLease
  <2>2. /\ lease'[n][s] = Sent("demand", Larger(b, c)) /\ \A t \in Slots : t # s => lease'[n][t] = lease[n][t]
        /\ \A m \in Node : m # n => lease'[m] = lease[m]
    BY <2>1 DEF TypeOK
  <2>3. Issues(n, "demand")
    BY <2>1, <2>2, SentFields DEF Issues
  <2> DEFINE f == [e EXCEPT !.pending = s]
  <2>4. f.credits = e.credits /\ f.resetAt = e.resetAt
    BY DEF EntryType
  <2>5. entry' = [entry EXCEPT ![n] = f]
    BY <2>1
  <2> HIDE DEF f
  <2> QED BY <1>1, <2>2, <2>3, <2>4, <2>5 DEF TypeOK
<1> QED BY <1>2, <1>3

\* The stock of a node that may have sent a call: nothing has arrived through it yet.
LEMMA IssueStock ==
  ASSUME IsFiniteSet(Slots), TypeOK, TypeOK', NEW n \in Node, NEW k, lease'[n] = lease[n] \/ Issues(n, k)
  PROVE  Stock(n)' = Stock(n) - entry[n].credits + entry'[n].credits
<1>1. CASE lease'[n] = lease[n]
  BY <1>1, StockSpent
<1>2. CASE Issues(n, k)
  <2>1. PICK s \in Slots : /\ lease[n][s].st = "free" /\ lease'[n][s].st = "sent"
                           /\ \A t \in Slots : t # s => lease'[n][t] = lease[n][t]
    BY <1>2 DEF Issues
  <2>2. Arriving(lease[n][s]) = 0 /\ Arriving(lease'[n][s]) = 0
    BY <2>1 DEF Arriving
  <2>3. Stock(n)' = Stock(n) - entry[n].credits + entry'[n].credits - Arriving(lease[n][s]) + Arriving(lease'[n][s])
    BY <2>1, StockMoves
  <2>4. Stock(n) \in Nat /\ entry[n].credits \in Nat /\ entry'[n].credits \in Nat
    <3>1. entry'[n].credits \in Nat
      BY DEF TypeOK, EntryType
    <3> QED BY <3>1, StockNat
  <2> QED BY <2>2, <2>3, <2>4
<1> QED BY <1>1, <1>2

\* The entry a check works on holds no more than the one kept.
LEMMA EntryForCredits ==
  ASSUME TypeOK, NEW n \in Node
  PROVE  /\ EntryFor(n) \in EntryType /\ Unexpired(EntryFor(n)) \in EntryType
         /\ EntryFor(n).credits <= entry[n].credits /\ Unexpired(EntryFor(n)).credits <= EntryFor(n).credits
<1>1. EntryFor(n) \in EntryType /\ Unexpired(EntryFor(n)) \in EntryType
  BY EntryForTyped
<1>2. EntryFor(n).credits <= entry[n].credits
  BY DEF EntryFor, FreshEntry, TypeOK, EntryType
<1>3. Unexpired(EntryFor(n)).credits <= EntryFor(n).credits
  BY <1>1 DEF Unexpired, EntryType
<1> QED BY <1>1, <1>2, <1>3

\* A callback moves one call of one node.
LEMMA CallbackEffect ==
  ASSUME TypeOK, NEW n \in Node, NEW s \in Slots, Callback(n, s)
  PROVE  /\ \A m \in Node : m # n => entry'[m] = entry[m] /\ lease'[m] = lease[m] /\ waiting'[m] = waiting[m]
         /\ \A t \in Slots : t # s => lease'[n][t] = lease[n][t]
         /\ UNCHANGED <<now, resets, admitted, prompt>>
<1>1. CASE L2Apply(n, s)
  BY <1>1 DEF L2Apply, TypeOK
<1>2. CASE L2Fail(n, s)
  BY <1>2 DEF L2Fail, TypeOK
<1>3. CASE LeaseSettles(n, s)
  BY <1>3 DEF LeaseSettles, TypeOK
<1>4. CASE PendingCleared(n, s)
  BY <1>4 DEF PendingCleared, TypeOK
<1>5. CASE LeaseRejects(n, s)
  BY <1>5 DEF LeaseRejects, TypeOK
<1>6. CASE RefillSettles(n, s)
  BY <1>6 DEF RefillSettles, TypeOK
<1> QED BY <1>1, <1>2, <1>3, <1>4, <1>5, <1>6 DEF Callback

\* The callbacks turn what has arrived into credits, or lose it.
LEMMA CallbackStock ==
  ASSUME IsFiniteSet(Slots), TypeOK, TypeOK', NEW n \in Node, NEW s \in Slots, Callback(n, s)
  PROVE  /\ L2Apply(n, s) =>
              Stock(n)' = Stock(n) + IF Fits(l2, DecisionTime(lease[n][s]), lease[n][s].amt) THEN lease[n][s].amt ELSE 0
         /\ L2Fail(n, s) => Stock(n)' = Stock(n) - Arriving(lease[n][s])
         /\ ~L2Apply(n, s) => Stock(n)' <= Stock(n)
<1> DEFINE c == lease[n][s]
           d == lease'[n][s]
           e == entry[n]
           f == entry'[n]
<1>1. Stock(n)' = Stock(n) - e.credits + f.credits - Arriving(c) + Arriving(d)
  BY CallbackEffect, StockMoves
<1>2. /\ Stock(n) \in Nat /\ e.credits \in Nat /\ Arriving(c) \in Nat /\ f.credits \in Nat /\ Arriving(d) \in Nat
      /\ c.amt \in Nat /\ c \in LeaseType /\ e \in EntryType
  <2>1. f.credits \in Nat /\ Arriving(d) \in Nat
    <3>1. d \in LeaseType /\ f \in EntryType
      BY DEF TypeOK
    <3> HIDE DEF d, f
    <3> QED BY <3>1 DEF EntryType, LeaseType, Arriving
  <2>2. c.amt \in Nat /\ c \in LeaseType /\ e \in EntryType
    BY DEF TypeOK, LeaseType
  <2> QED BY <2>1, <2>2, StockNat
<1>3. (L2Apply(n, s) => d.st = "replied") /\ (L2Fail(n, s) => d.st = "lost")
  <2>1. ASSUME L2Fail(n, s) PROVE d.st = "lost"
    <3>1. d = [c EXCEPT !.st = "lost"]
      BY <2>1 DEF L2Fail, TypeOK
    <3> HIDE DEF d
    <3> QED BY <1>2, <3>1 DEF LeaseType
  <2>2. ASSUME L2Apply(n, s) PROVE d.st = "replied"
    <3> DEFINE t == DecisionTime(c)
               x == [c EXCEPT !.st = "replied", !.ok = Fits(l2, t, c.amt), !.resetAt = ResetAt(t)]
    <3>1. d = x
      BY <2>2 DEF L2Apply, TypeOK
    <3>2. x.st = "replied"
      BY <1>2 DEF LeaseType
    <3> HIDE DEF d, x
    <3> QED BY <3>1, <3>2
  <2> QED BY <2>1, <2>2
<1>4. CASE L2Apply(n, s)
  <2> DEFINE t == DecisionTime(c)
             x == [c EXCEPT !.st = "replied", !.ok = Fits(l2, t, c.amt), !.resetAt = ResetAt(t)]
  <2>1. c.st = "sent" /\ d = x /\ f = e
    BY <1>4 DEF L2Apply, TypeOK
  <2>2. x.st = "replied" /\ x.ok = Fits(l2, t, c.amt) /\ x.amt = c.amt
    BY <1>2 DEF LeaseType
  <2>3. Arriving(c) = 0 /\ Arriving(d) = IF Fits(l2, t, c.amt) THEN c.amt ELSE 0
    <3> HIDE DEF x, t
    <3> QED BY <2>1, <2>2 DEF Arriving
  <2>4. ~L2Fail(n, s)
    BY <1>3, <1>4
  <2> QED BY <1>1, <1>2, <1>4, <2>1, <2>3, <2>4
<1>5. CASE L2Fail(n, s)
  <2>1. f = e /\ d.st = "lost"
    BY <1>2, <1>5 DEF L2Fail, TypeOK, LeaseType
  <2>2. Arriving(d) = 0
    BY <2>1 DEF Arriving
  <2>3. ~L2Apply(n, s)
    BY <1>3, <2>1
  <2> QED BY <1>1, <1>2, <2>1, <2>2, <2>3
<1>6. CASE LeaseSettles(n, s)
  <2>1. c.st = "replied" /\ f = Credited(e, c) /\ d.st = "settled"
    BY <1>2, <1>6 DEF LeaseSettles, TypeOK, LeaseType
  <2>2. Arriving(d) = 0 /\ Arriving(c) = IF c.ok THEN c.amt ELSE 0
    BY <2>1 DEF Arriving
  <2>3. f.credits <= e.credits + Arriving(c)
    BY <1>2, <2>1, <2>2 DEF Credited, EntryType
  <2>4. ~L2Apply(n, s) /\ ~L2Fail(n, s)
    BY <1>3, <2>1
  <2> QED BY <1>1, <1>2, <2>2, <2>3, <2>4
<1>7. CASE PendingCleared(n, s) \/ LeaseRejects(n, s) \/ RefillSettles(n, s)
  <2>1. d = FreeLease
    BY <1>7 DEF PendingCleared, LeaseRejects, RefillSettles, TypeOK
  <2>2. Arriving(d) = 0 /\ d.st = "free"
    BY <2>1 DEF FreeLease, Arriving
  <2>3. f.credits <= e.credits + Arriving(c)
    <3>1. CASE PendingCleared(n, s) \/ LeaseRejects(n, s)
      <4>1. f = ClearedPending(e, s)
        BY <3>1 DEF PendingCleared, LeaseRejects, TypeOK
      <4>2. f.credits = e.credits
        BY <1>2, <4>1 DEF ClearedPending, EntryType
      <4> QED BY <1>2, <4>2
    <3>2. CASE RefillSettles(n, s)
      <4> DEFINE g == IF c.st = "lost" THEN e ELSE RefillCredited(e, c)
      <4>1. f = RefillDone(g) /\ c.st \in {"replied", "lost"}
        BY <3>2 DEF RefillSettles, TypeOK
      <4>2. g \in EntryType /\ g.credits <= e.credits + Arriving(c)
        <5>1. CASE g = e
          BY <1>2, <5>1
        <5>2. CASE c.st = "replied" /\ g = Credited(e, c)
          <6>1. Credited(e, c) \in EntryType
            BY <1>2, CreditedTyped
          <6>2. Arriving(c) = IF c.ok THEN c.amt ELSE 0
            BY <5>2 DEF Arriving
          <6>3. Credited(e, c).credits <= e.credits + Arriving(c)
            BY <1>2, <6>2 DEF Credited, EntryType
          <6> QED BY <5>2, <6>1, <6>3
        <5> QED BY <4>1, <5>1, <5>2 DEF RefillCredited
      <4>3. f.credits = g.credits
        <5> HIDE DEF g
        <5> QED BY <4>1, <4>2 DEF RefillDone, EntryType
      <4> QED BY <4>2, <4>3
    <3> QED BY <1>7, <3>1, <3>2
  <2>4. ~L2Apply(n, s) /\ ~L2Fail(n, s)
    BY <1>3, <2>2
  <2> QED BY <1>1, <1>2, <2>2, <2>3, <2>4
<1> QED BY <1>4, <1>5, <1>6, <1>7 DEF Callback

\* Evictions and resets drop the entry of one node.
LEMMA ForgetEffect ==
  ASSUME IsFiniteSet(Slots), TypeOK, TypeOK', NEW n \in Node, Evict(n) \/ Reset(n)
  PROVE  /\ \A m \in Node : m # n => entry'[m] = entry[m]
         /\ UNCHANGED <<now, l2, lease, waiting, granted, admitted, prompt>>
         /\ entry'[n].credits = 0 /\ Stock(n)' <= Stock(n)
<1>1. /\ UNCHANGED <<now, l2, lease, waiting, granted, admitted, prompt>>
      /\ entry' = [entry EXCEPT ![n] = NoEntry]
  BY DEF Evict, Reset
<1>2. entry'[n].credits = 0 /\ \A m \in Node : m # n => entry'[m] = entry[m]
  BY <1>1 DEF TypeOK, NoEntry, FreshEntry
<1>3. Stock(n)' = Stock(n) - entry[n].credits + entry'[n].credits
  BY <1>1, StockSpent
<1> QED BY <1>1, <1>2, <1>3, StockNat

\* A served request takes its cost out of the stock of the node.
LEMMA ServeStock ==
  ASSUME IsFiniteSet(Slots), TypeOK, TypeOK', NEW n \in Node, NEW e \in EntryType, NEW c \in Costs, NEW w,
         e.credits <= entry[n].credits, Serve(n, e, c, w)
  PROVE  Stock(n)' = Stock(n) - entry[n].credits + e.credits - c /\ Stock(n)' <= Stock(n) - c
<1>1. /\ c \in Nat /\ c >= 1 /\ e.credits >= c /\ entry'[n].credits = e.credits - c
      /\ lease'[n] = lease[n] \/ Issues(n, "refill")
  BY ServeEffect
<1>2. Stock(n)' = Stock(n) - entry[n].credits + entry'[n].credits
  BY <1>1, IssueStock
<1>3. Stock(n) \in Nat /\ entry[n].credits \in Nat /\ e.credits \in Nat
  BY StockNat DEF EntryType
<1> QED BY <1>1, <1>2, <1>3

\* A check that awaits a lease takes nothing out of the stock but expired credits.
LEMMA AwaitStock ==
  ASSUME IsFiniteSet(Slots), TypeOK, TypeOK', NEW n \in Node, NEW e \in EntryType, NEW r, NEW c, NEW w, NEW q,
         e.credits <= entry[n].credits, AwaitLease(n, e, r, c, w, q)
  PROVE  Stock(n)' = Stock(n) - entry[n].credits + e.credits /\ Stock(n)' <= Stock(n)
<1>1. /\ entry'[n].credits = e.credits
      /\ lease'[n] = lease[n] \/ Issues(n, "demand")
  BY AwaitEffect
<1>2. Stock(n)' = Stock(n) - entry[n].credits + entry'[n].credits
  BY <1>1, IssueStock
<1>3. Stock(n) \in Nat /\ entry[n].credits \in Nat /\ e.credits \in Nat
  BY StockNat DEF EntryType
<1> QED BY <1>1, <1>2, <1>3

----------------------------------------------------------------------------
(* No unit of budget is minted *)

\* The calls carry times that have been: a store that decides at the time of its
\* caller decides in a window of the model.
TimesKnown == \A n \in Node, s \in Slots : lease[n][s].at <= now

\* Every step keeps them so.
LEMMA TimesStep == TypeOK /\ TypeOK' /\ TimesKnown /\ [Next]_vars => TimesKnown'
<1> SUFFICES ASSUME TypeOK, TypeOK', TimesKnown, [Next]_vars PROVE TimesKnown'
  OBVIOUS
<1>1. now \in Nat /\ now' \in Nat
  BY LeasedAssumption DEF TypeOK
<1>2. CASE UNCHANGED <<now, lease>>
  BY <1>2 DEF TimesKnown
<1>3. ASSUME NEW n \in Node, now' = now, \A m \in Node : m # n => lease'[m] = lease[m],
             lease'[n] = lease[n] \/ \E k : Issues(n, k)
      PROVE  TimesKnown'
  <2>1. \A s \in Slots : lease'[n][s].at <= now
    BY <1>3 DEF Issues, TimesKnown
  <2> QED BY <1>3, <2>1 DEF TimesKnown
<1>4. ASSUME NEW n \in Node, NEW r \in Reqs, NEW c \in Costs, Check(n, r, c) PROVE TimesKnown'
  <2> DEFINE e == Unexpired(EntryFor(n))
  <2>1. e \in EntryType /\ now' = now
    BY <1>4, EntryForTyped DEF Check
  <2>2. Serve(n, e, c, Window(now)) \/ AwaitLease(n, e, r, c, Window(now), waiting[n])
    BY <1>4 DEF Check
  <2> HIDE DEF e
  <2> QED BY <1>3, <2>1, <2>2, ServeEffect, AwaitEffect
<1>5. ASSUME NEW n \in Node, NEW i \in DOMAIN waiting[n], Resume(n, i) PROVE TimesKnown'
  <2> DEFINE w == waiting[n][i]
             e == EntryFor(n)
             q == Without(waiting[n], i)
  <2>1. e \in EntryType /\ now' = now
    BY <1>5, EntryForTyped DEF Resume
  <2>2. w \in WaiterType
    BY DEF TypeOK
  <2>3. UNCHANGED lease \/ Serve(n, e, w.cost, w.at) \/ AwaitLease(n, e, w.req, w.cost, w.at, q)
    BY <1>5 DEF Resume
  <2> HIDE DEF e, w, q
  <2>4. w.cost \in Costs
    BY <2>2 DEF WaiterType
  <2> QED BY <1>2, <1>3, <2>1, <2>3, <2>4, ServeEffect, AwaitEffect
<1>6. ASSUME NEW n \in Node, NEW s \in Slots, Callback(n, s) PROVE TimesKnown'
  <2> DEFINE c == lease[n][s]
             d == lease'[n][s]
  <2>1. c \in LeaseType /\ c.at <= now
    BY DEF TypeOK, TimesKnown
  <2>2. d.at = c.at \/ d.at = 0
    <3>1. CASE L2Apply(n, s)
      <4> DEFINE t == DecisionTime(c)
                 x == [c EXCEPT !.st = "replied", !.ok = Fits(l2, t, c.amt), !.resetAt = ResetAt(t)]
      <4>1. d = x
        BY <3>1 DEF L2Apply, TypeOK
      <4>2. x.at = c.at
        BY <2>1 DEF LeaseType
      <4> HIDE DEF d, x
      <4> QED BY <4>1, <4>2
    <3>2. CASE L2Fail(n, s)
      BY <2>1, <3>2 DEF L2Fail, TypeOK, LeaseType
    <3>3. CASE LeaseSettles(n, s)
      BY <2>1, <3>3 DEF LeaseSettles, TypeOK, LeaseType
    <3>4. CASE PendingCleared(n, s) \/ LeaseRejects(n, s) \/ RefillSettles(n, s)
      <4>1. d = FreeLease
        BY <3>4 DEF PendingCleared, LeaseRejects, RefillSettles, TypeOK
      <4> QED BY <4>1 DEF FreeLease
    <3> QED BY <1>6, <3>1, <3>2, <3>3, <3>4 DEF Callback
  <2>3. now' = now /\ (\A m \in Node : m # n => lease'[m] = lease[m])
        /\ \A t \in Slots : t # s => lease'[n][t] = lease[n][t]
    BY <1>6, CallbackEffect
  <2> HIDE DEF c, d
  <2>4. d.at <= now
    BY <1>1, <2>1, <2>2
  <2> QED BY <2>3, <2>4 DEF TimesKnown, d
<1>7. CASE \E n \in Node : Evict(n) \/ Reset(n)
  BY <1>2, <1>7 DEF Evict, Reset
<1>8. CASE L2Reset
  BY <1>2, <1>8 DEF L2Reset
<1>9. CASE Tick
  <2>1. lease' = lease /\ now' = now + 1
    BY <1>9 DEF Tick
  <2>2. \A n \in Node, s \in Slots : lease[n][s].at \in Nat
    BY DEF TypeOK, LeaseType
  <2> QED BY <1>1, <2>1, <2>2 DEF TimesKnown
<1>10. CASE UNCHANGED vars
  BY <1>2, <1>10 DEF vars
<1> QED BY <1>4, <1>5, <1>6, <1>7, <1>8, <1>9, <1>10 DEF Next

\* What all the nodes may still spend.
Stocks == Sum([n \in Node |-> Stock(n)], N)

\* A step of one node moves the stock of the fleet by that of the node.
LEMMA StocksMove ==
  ASSUME IsFiniteSet(Slots), TypeOK, TypeOK', NEW n \in Node,
         \A m \in Node : m # n => entry'[m] = entry[m] /\ lease'[m] = lease[m]
  PROVE  Stocks \in Int /\ Stocks' = Stocks - Stock(n) + Stock(n)'
<1> DEFINE f == [m \in Node |-> Stock(m)]
           g == [m \in Node |-> Stock(m)']
<1>1. \A m \in Node : Stock(m) \in Nat /\ Stock(m)' \in Nat
  BY StockNat, StockNatNext
<1>2. \A m \in Node : m # n => Stock(m)' = Stock(m)
  BY DEF Stock
<1>3. /\ \A m \in Node : f[m] \in Int /\ g[m] \in Int
      /\ \A m \in Node : m # n => f[m] = g[m]
      /\ f[n] = Stock(n) /\ g[n] = Stock(n)'
  BY <1>1, <1>2
<1>4. Stocks = Sum(f, N) /\ Stocks' = Sum(g, N)
  BY DEF Stocks
<1> HIDE DEF f, g
<1>5. Sum(f, N) \in Int /\ Sum(g, N) = Sum(f, N) - f[n] + g[n]
  BY <1>3, NodesMove
<1> QED BY <1>3, <1>4, <1>5

\* A step of one node that admits no more than it takes out of its stock, and stocks no
\* more than L2 grants, mints nothing.
LEMMA MintedAt ==
  ASSUME IsFiniteSet(Slots), TypeOK, TypeOK', NothingMinted, NEW n \in Node, NEW a \in Nat, NEW g \in Nat,
         \A m \in Node : m # n => entry'[m] = entry[m] /\ lease'[m] = lease[m],
         Stock(n)' <= Stock(n) - a + g,
         SumFunction(admitted') = SumFunction(admitted) + a,
         SumFunction(granted') = SumFunction(granted) + g
  PROVE  NothingMinted'
<1>1. Stocks \in Int /\ Stocks' = Stocks - Stock(n) + Stock(n)' /\ Stock(n) \in Nat
  BY StocksMove, StockNat
<1>2. SumFunction(admitted) \in Nat /\ SumFunction(granted) \in Nat
  <2>1. now \in 0..MaxTime /\ 0 \in Nat /\ admitted \in [Windows -> Nat] /\ granted \in [Windows -> Nat]
    BY DEF TypeOK
  <2> QED BY <2>1, WindowInRange, HistoryGrows
<1>3. SumFunction(admitted) + Stocks <= SumFunction(granted)
  BY DEF NothingMinted, Stocks
<1>4. Stock(n)' \in Int
  BY StockNatNext
<1>5. SumFunction(admitted') + Stocks' <= SumFunction(granted')
  BY <1>1, <1>2, <1>3, <1>4
<1> QED BY <1>5 DEF NothingMinted, Stocks

\* A step of one node that admits and is granted nothing.
LEMMA MintsNothing ==
  ASSUME IsFiniteSet(Slots), TypeOK, TypeOK', NothingMinted, NEW n \in Node,
         \A m \in Node : m # n => entry'[m] = entry[m] /\ lease'[m] = lease[m],
         Stock(n)' <= Stock(n), UNCHANGED <<admitted, granted>>
  PROVE  NothingMinted'
<1>1. SumFunction(admitted) \in Nat /\ SumFunction(granted) \in Nat
  <2>1. now \in 0..MaxTime /\ 0 \in Nat /\ admitted \in [Windows -> Nat] /\ granted \in [Windows -> Nat]
    BY DEF TypeOK
  <2> QED BY <2>1, WindowInRange, HistoryGrows
<1>2. Stock(n) \in Nat /\ Stock(n)' \in Nat
  BY StockNat, StockNatNext
<1>3. /\ Stock(n)' <= Stock(n) - 0 + 0
      /\ SumFunction(admitted') = SumFunction(admitted) + 0
      /\ SumFunction(granted') = SumFunction(granted) + 0
  BY <1>1, <1>2
<1>4. 0 \in Nat
  OBVIOUS
<1> QED BY <1>3, <1>4, MintedAt

\* Serving a request spends what was granted.
LEMMA ServeMints ==
  ASSUME IsFiniteSet(Slots), TypeOK, TypeOK', NothingMinted, NEW n \in Node, NEW e \in EntryType, NEW c \in Costs,
         NEW w, e.credits <= entry[n].credits, Serve(n, e, c, w), granted' = granted
  PROVE  NothingMinted'
<1>1. /\ c \in Nat /\ Stock(n)' <= Stock(n) - c
      /\ \A m \in Node : m # n => entry'[m] = entry[m] /\ lease'[m] = lease[m]
  BY ServeEffect, ServeStock
<1>2. SumFunction(admitted') = SumFunction(admitted) + c /\ SumFunction(granted) \in Nat
  <2>1. /\ Window(now) \in Windows /\ admitted \in [Windows -> Nat] /\ granted \in [Windows -> Nat]
        /\ admitted' = [admitted EXCEPT ![Window(now)] = @ + c]
    BY WindowInRange DEF TypeOK, Serve
  <2> QED BY <1>1, <2>1, HistoryGrows
<1>3. Stock(n)' <= Stock(n) - c + 0 /\ SumFunction(granted') = SumFunction(granted) + 0 /\ 0 \in Nat
  BY <1>1, <1>2, StockNat, StockNatNext
<1> QED BY <1>1, <1>2, <1>3, MintedAt

\* What L2 grants is what the node that asked for it may spend.
LEMMA ApplyMints ==
  ASSUME IsFiniteSet(Slots), TypeOK, TypeOK', NothingMinted, TimesKnown, NEW n \in Node, NEW s \in Slots,
         L2Apply(n, s)
  PROVE  NothingMinted'
<1> DEFINE c == lease[n][s]
           t == DecisionTime(c)
           g == IF Fits(l2, t, c.amt) THEN c.amt ELSE 0
<1>1. c \in LeaseType /\ c.amt \in Nat /\ g \in Nat /\ now \in Nat /\ now <= MaxTime
  BY LeasedAssumption DEF TypeOK, LeaseType
<1>2. Window(t) \in Windows
  <2>1. c.at \in Nat /\ c.at <= now
    BY <1>1 DEF LeaseType, TimesKnown
  <2>2. t \in 0..MaxTime
    BY <1>1, <2>1, LeasedAssumption DEF DecisionTime
  <2> QED BY <2>2, WindowInRange
<1>3. granted' = [granted EXCEPT ![Window(t)] = @ + g] /\ admitted' = admitted
  BY DEF L2Apply
<1>4. Stock(n)' = Stock(n) + g
  BY CallbackStock DEF Callback
<1>5. \A m \in Node : m # n => entry'[m] = entry[m] /\ lease'[m] = lease[m]
  BY CallbackEffect DEF Callback
<1> HIDE DEF g, t, c
<1>6. SumFunction(granted') = SumFunction(granted) + g /\ SumFunction(admitted) \in Nat
  <2>1. granted \in [Windows -> Nat] /\ admitted \in [Windows -> Nat]
    BY DEF TypeOK
  <2> QED BY <1>1, <1>2, <1>3, <2>1, HistoryGrows
<1>7. Stock(n)' <= Stock(n) - 0 + g /\ SumFunction(admitted') = SumFunction(admitted) + 0 /\ 0 \in Nat
  BY <1>1, <1>3, <1>4, <1>6, StockNat
<1> QED BY <1>1, <1>5, <1>6, <1>7, MintedAt

\* Every step admits or loses what was granted, and never makes more of it.
LEMMA MintedStep ==
  ASSUME IsFiniteSet(Slots)
  PROVE  TypeOK /\ TypeOK' /\ TimesKnown /\ NothingMinted /\ [Next]_vars => NothingMinted'
<1> SUFFICES ASSUME TypeOK, TypeOK', TimesKnown, NothingMinted, [Next]_vars PROVE NothingMinted'
  OBVIOUS
<1>1. CASE UNCHANGED <<entry, lease, admitted, granted>>
  BY <1>1 DEF NothingMinted, Stock
<1>2. ASSUME NEW n \in Node, NEW r \in Reqs, NEW c \in Costs, Check(n, r, c) PROVE NothingMinted'
  <2> DEFINE e == Unexpired(EntryFor(n))
  <2>1. e \in EntryType /\ e.credits <= entry[n].credits /\ granted' = granted
    <3>1. granted' = granted
      BY <1>2 DEF Check
    <3>2. e \in EntryType /\ e.credits <= EntryFor(n).credits /\ EntryFor(n).credits <= entry[n].credits
          /\ EntryFor(n) \in EntryType
      BY EntryForCredits
    <3>3. e.credits \in Nat /\ EntryFor(n).credits \in Nat /\ entry[n].credits \in Nat
      BY <3>2 DEF EntryType, TypeOK
    <3> HIDE DEF e
    <3> QED BY <3>1, <3>2, <3>3
  <2>2. Serve(n, e, c, Window(now)) \/ AwaitLease(n, e, r, c, Window(now), waiting[n])
    BY <1>2 DEF Check
  <2> HIDE DEF e
  <2>3. CASE Serve(n, e, c, Window(now))
    BY <2>1, <2>3, ServeMints
  <2>4. CASE AwaitLease(n, e, r, c, Window(now), waiting[n])
    <3>1. UNCHANGED <<admitted, granted>> /\ Stock(n)' <= Stock(n)
          /\ \A m \in Node : m # n => entry'[m] = entry[m] /\ lease'[m] = lease[m]
      BY <2>1, <2>4, AwaitEffect, AwaitStock
    <3> QED BY <3>1, MintsNothing
  <2> QED BY <2>2, <2>3, <2>4
<1>3. ASSUME NEW n \in Node, NEW i \in DOMAIN waiting[n], Resume(n, i) PROVE NothingMinted'
  <2> DEFINE w == waiting[n][i]
             e == EntryFor(n)
             q == Without(waiting[n], i)
  <2>1. e \in EntryType /\ e.credits <= entry[n].credits /\ granted' = granted
    BY <1>3, EntryForCredits DEF Resume
  <2>2. \/ UNCHANGED <<entry, lease, admitted>>
        \/ entry' = [entry EXCEPT ![n] = e] /\ UNCHANGED <<lease, admitted>>
        \/ Serve(n, e, w.cost, w.at)
        \/ AwaitLease(n, e, w.req, w.cost, w.at, q)
    BY <1>3 DEF Resume
  <2>3. w.cost \in Costs
    <3>1. w \in WaiterType
      BY DEF TypeOK
    <3> HIDE DEF w
    <3> QED BY <3>1 DEF WaiterType
  <2> HIDE DEF e, w, q
  <2>4. CASE UNCHANGED <<entry, lease, admitted>>
    BY <1>1, <2>1, <2>4
  <2>5. CASE entry' = [entry EXCEPT ![n] = e] /\ UNCHANGED <<lease, admitted>>
    <3>1. entry'[n] = e /\ lease' = lease /\ \A m \in Node : m # n => entry'[m] = entry[m]
      BY <2>5 DEF TypeOK
    <3>2. Stock(n)' = Stock(n) - entry[n].credits + entry'[n].credits
      BY <3>1, StockSpent
    <3>3. Stock(n)' <= Stock(n)
      BY <2>1, <3>1, <3>2, StockNat, StockNatNext
    <3> QED BY <2>1, <2>5, <3>1, <3>3, MintsNothing
  <2>6. CASE Serve(n, e, w.cost, w.at)
    BY <2>1, <2>3, <2>6, ServeMints
  <2>7. CASE AwaitLease(n, e, w.req, w.cost, w.at, q)
    <3>1. UNCHANGED <<admitted, granted>> /\ Stock(n)' <= Stock(n)
          /\ \A m \in Node : m # n => entry'[m] = entry[m] /\ lease'[m] = lease[m]
      BY <2>1, <2>7, AwaitEffect, AwaitStock
    <3> QED BY <3>1, MintsNothing
  <2> QED BY <2>2, <2>4, <2>5, <2>6, <2>7
<1>4. ASSUME NEW n \in Node, NEW s \in Slots, Callback(n, s) PROVE NothingMinted'
  <2>1. CASE L2Apply(n, s)
    BY <2>1, ApplyMints
  <2>2. CASE ~L2Apply(n, s)
    <3>1. Stock(n)' <= Stock(n)
      BY <1>4, <2>2, CallbackStock
    <3>2. UNCHANGED <<admitted, granted>>
      BY <1>4, <2>2 DEF Callback, L2Fail, LeaseSettles, PendingCleared, LeaseRejects, RefillSettles
    <3>3. \A m \in Node : m # n => entry'[m] = entry[m] /\ lease'[m] = lease[m]
      BY <1>4, CallbackEffect
    <3> QED BY <3>1, <3>2, <3>3, MintsNothing
  <2> QED BY <2>1, <2>2
<1>5. ASSUME NEW n \in Node, Evict(n) \/ Reset(n) PROVE NothingMinted'
  <2>1. /\ \A m \in Node : m # n => entry'[m] = entry[m] /\ lease'[m] = lease[m]
        /\ Stock(n)' <= Stock(n) /\ UNCHANGED <<admitted, granted>>
    BY <1>5, ForgetEffect
  <2> QED BY <2>1, MintsNothing
<1>6. CASE L2Reset \/ Tick
  BY <1>1, <1>6 DEF L2Reset, Tick
<1>7. CASE UNCHANGED vars
  BY <1>1, <1>7 DEF vars
<1> QED BY <1>2, <1>3, <1>4, <1>5, <1>6, <1>7 DEF Next

\* Nothing is granted, stocked or admitted in the initial state.
LEMMA MintedInit == ASSUME IsFiniteSet(Slots), Init PROVE NothingMinted /\ TimesKnown
<1>1. TypeOK
  BY TypeInit
<1>2. \A n \in Node, s \in Slots : Arriving(lease[n][s]) = 0 /\ lease[n][s].at = 0
  BY DEF Init, FreeLease, Arriving
<1>3. \A n \in Node : Stock(n) = 0
  <2> TAKE n \in Node
  <2> DEFINE f == [s \in Slots |-> Arriving(lease[n][s])]
  <2>1. DOMAIN f = Slots /\ \A s \in Slots : f[s] = 0
    BY <1>2
  <2>2. SumFunction(f) = 0
    BY <2>1, SetSumZero, SumIsOverDomain
  <2>3. entry[n].credits = 0
    BY DEF Init, NoEntry, FreshEntry
  <2> QED BY <2>2, <2>3 DEF Stock
<1>4. Sum([n \in Node |-> Stock(n)], N) = 0
  <2>1. N \in Nat /\ \A n \in 1..N : [m \in Node |-> Stock(m)][n] = 0
    BY <1>3, LeasedAssumption DEF Node
  <2> QED BY ONLY <2>1, SumZero
<1>5. SumFunction(admitted) \in Nat /\ SumFunction(granted) = SumFunction(admitted)
  <2>1. now \in 0..MaxTime /\ 0 \in Nat /\ admitted \in [Windows -> Nat]
    BY <1>1 DEF TypeOK
  <2>2. granted = admitted
    BY DEF Init
  <2> QED BY <2>1, <2>2, WindowInRange, HistoryGrows
<1>6. TimesKnown
  BY <1>2 DEF TimesKnown, Init
<1> QED BY <1>4, <1>5, <1>6 DEF NothingMinted

\* No unit of budget is spent twice (index.ts:279-285, 338-345): whatever the order of the
\* answers, the failures, the evictions and the resets, the requests admitted, the credits
\* held and the grants under way never add up to more than L2 has granted.
THEOREM NothingIsMinted == ASSUME IsFiniteSet(Slots) PROVE Spec => []NothingMinted
<1>1. Init => TypeOK /\ TimesKnown /\ NothingMinted
  BY TypeInit, MintedInit
<1>2. TypeOK /\ TimesKnown /\ NothingMinted /\ [Next]_vars => (TypeOK /\ TimesKnown /\ NothingMinted)'
  BY TypeStep, TimesStep, MintedStep
<1> QED BY <1>1, <1>2, PTL DEF Spec

----------------------------------------------------------------------------
(* The checks that wait, and the leases they wait for *)

\* The elements of a queue one element longer.
LEMMA AppendRange ==
  ASSUME NEW T, NEW q \in Seq(T), NEW x \in T
  PROVE  Range(Append(q, x)) = Range(q) \cup {x} /\ (q # <<>> => Append(q, x)[1] = q[1])
<1>1. /\ DOMAIN q = 1..Len(q) /\ DOMAIN Append(q, x) = 1..(Len(q) + 1) /\ Len(q) \in Nat
      /\ Append(q, x)[Len(q) + 1] = x /\ \A i \in 1..Len(q) : Append(q, x)[i] = q[i]
  OBVIOUS
<1>2. Range(Append(q, x)) = Range(q) \cup {x}
  <2>1. ASSUME NEW y \in Range(Append(q, x)) PROVE y \in Range(q) \cup {x}
    <3>1. PICK i \in 1..(Len(q) + 1) : y = Append(q, x)[i]
      BY <1>1 DEF Range
    <3>2. CASE i = Len(q) + 1
      BY <1>1, <3>1, <3>2
    <3>3. CASE i # Len(q) + 1
      <4>1. i \in 1..Len(q)
        BY <1>1, <3>3
      <4> QED BY <1>1, <3>1, <4>1 DEF Range
    <3> QED BY <3>2, <3>3
  <2>2. ASSUME NEW y \in Range(q) PROVE y \in Range(Append(q, x))
    <3>1. PICK i \in 1..Len(q) : y = q[i]
      BY <1>1 DEF Range
    <3>2. i \in 1..(Len(q) + 1) /\ Append(q, x)[i] = y
      BY <1>1, <3>1
    <3> QED BY <1>1, <3>2 DEF Range
  <2>3. x \in Range(Append(q, x))
    <3>1. Len(q) + 1 \in 1..(Len(q) + 1)
      BY <1>1
    <3> QED BY <1>1, <3>1 DEF Range
  <2> QED BY <2>1, <2>2, <2>3
<1>3. q # <<>> => Append(q, x)[1] = q[1]
  BY <1>1
<1> QED BY <1>2, <1>3

\* A check that leaves the queue takes no other with it.
LEMMA WithoutRange ==
  ASSUME NEW T, NEW q \in Seq(T), NEW i \in DOMAIN q
  PROVE  /\ Range(Without(q, i)) \subseteq Range(q)
         /\ \A x \in Range(q) : x # q[i] => x \in Range(Without(q, i))
<1> DEFINE r == Without(q, i)
<1>1. Len(q) \in Nat /\ i \in 1..Len(q) /\ DOMAIN q = 1..Len(q) /\ DOMAIN r = 1..(Len(q) - 1)
      /\ \A j \in 1..(Len(q) - 1) : r[j] = IF j < i THEN q[j] ELSE q[j + 1]
  BY DEF Without
<1> HIDE DEF r
<1>2. ASSUME NEW x \in Range(r) PROVE x \in Range(q)
  <2>1. PICK j \in 1..(Len(q) - 1) : x = r[j]
    BY <1>1 DEF Range
  <2>2. j \in 1..Len(q) /\ j + 1 \in 1..Len(q) /\ (x = q[j] \/ x = q[j + 1])
    BY <1>1, <2>1
  <2> QED BY <1>1, <2>2 DEF Range
<1>3. ASSUME NEW x \in Range(q), x # q[i] PROVE x \in Range(r)
  <2>1. PICK j \in 1..Len(q) : x = q[j]
    BY <1>1 DEF Range
  <2>2. CASE j < i
    <3>1. j \in 1..(Len(q) - 1) /\ r[j] = x
      BY <1>1, <2>1, <2>2
    <3> QED BY <1>1, <3>1 DEF Range
  <2>3. CASE j > i
    <3>1. j - 1 \in 1..(Len(q) - 1) /\ ~(j - 1 < i) /\ (j - 1) + 1 = j
      BY <1>1, <2>1, <2>3
    <3>2. r[j - 1] = x
      BY <1>1, <2>1, <3>1
    <3> QED BY <1>1, <3>1, <3>2 DEF Range
  <2>4. j # i
    BY <1>3, <2>1
  <2> QED BY <1>1, <2>2, <2>3, <2>4
<1> QED BY <1>2, <1>3 DEF r

\* Waking the waiters of a lease changes nothing of the other checks, and nobody's place.
Woken(w, s, res) == IF w.slot = s /\ w.res = "none" THEN [w EXCEPT !.res = res] ELSE w

\* The elements of a queue some of whose checks were woken.
LEMMA WakeRange ==
  ASSUME NEW q \in Seq(WaiterType), NEW s, NEW res
  PROVE  /\ \A x \in Range(q) : Woken(x, s, res) \in Range(Wake(q, s, res))
         /\ \A y \in Range(Wake(q, s, res)) : \E x \in Range(q) : y = Woken(x, s, res)
         /\ q # <<>> => Wake(q, s, res)[1] = Woken(q[1], s, res)
         /\ q # <<>> <=> Wake(q, s, res) # <<>>
<1>1. DOMAIN Wake(q, s, res) = DOMAIN q /\ \A i \in DOMAIN q : Wake(q, s, res)[i] = Woken(q[i], s, res)
  BY DEF Wake, Woken
<1>2. DOMAIN q = 1..Len(q) /\ Len(q) \in Nat /\ (q # <<>> => 1 \in DOMAIN q)
  OBVIOUS
<1>3. Wake(q, s, res) \in Seq({Woken(q[i], s, res) : i \in DOMAIN q})
  <2>1. Wake(q, s, res) = [i \in 1..Len(q) |-> Woken(q[i], s, res)]
    BY <1>2 DEF Wake, Woken
  <2> QED BY <1>2, <2>1
<1>4. q # <<>> <=> Wake(q, s, res) # <<>>
  <2>1. CASE q # <<>>
    BY <1>1, <1>2, <2>1
  <2>2. CASE q = <<>>
    <3>1. DOMAIN Wake(q, s, res) = {}
      BY <1>1, <2>2
    <3> QED BY <1>3, <2>2, <3>1
  <2> QED BY <2>1, <2>2
<1> QED BY <1>1, <1>2, <1>4 DEF Range

\* What a woken check keeps, and what it no longer waits for.
LEMMA WokenFields ==
  ASSUME NEW w \in WaiterType, NEW s, NEW res, res # "none"
  PROVE  /\ Woken(w, s, res).at = w.at /\ Woken(w, s, res).slot = w.slot /\ Woken(w, s, res).cost = w.cost
         /\ Woken(w, s, res).res = "none" <=> w.res = "none" /\ w.slot # s
         /\ w.res # "none" => Woken(w, s, res) = w
         /\ w.res = "none" /\ w.slot = s => Woken(w, s, res).res = res
BY DEF Woken, WaiterType

\* A call that has not run the callbacks of its answer.
UnderWay == {"sent", "replied", "lost"}

\* The waiting list q of a node with calls L and entry e, in window v: the pending slot of
\* the entry names an awaited lease, every such lease under way has a check that waits for
\* it, and every check that waits, waits for one.
WaitsRight(L, q, e, v) ==
    /\ e.pending # NoSlot => L[e.pending].st # "free" /\ L[e.pending].kind = "demand"
    /\ \A s \in Slots : L[s].kind = "demand" /\ L[s].st \in UnderWay =>
          \E w \in Range(q) : w.slot = s /\ w.res = "none"
    /\ \A w \in Range(q) :
          /\ w.at <= v
          /\ w.res = "none" => L[w.slot].kind = "demand" /\ L[w.slot].st \in UnderWay
WaitersInv == \A n \in Node : WaitsRight(lease[n], waiting[n], entry[n], Window(now))

\* The checks of a waiting list are well formed.
LEMMA WaiterFields ==
  ASSUME NEW q \in Seq(WaiterType), NEW w \in Range(q)
  PROVE  w \in WaiterType /\ w.at \in Int /\ w.slot \in Slots /\ w.cost \in Costs /\ w.res \in Results
<1>1. \A i \in DOMAIN q : q[i] \in WaiterType
  OBVIOUS
<1>2. w \in WaiterType
  BY <1>1 DEF Range
<1>3. w.at \in Windows
  BY <1>2 DEF WaiterType
<1>4. w.at \in Int
  BY <1>3 DEF Windows
<1> QED BY <1>2, <1>4 DEF WaiterType

\* Awaiting a lease puts the check at the end of the queue, waiting for the pending lease.
LEMMA AwaitQueue ==
  ASSUME TypeOK, NEW n \in Node, NEW e \in EntryType, NEW r \in Reqs, NEW c \in Costs, NEW w \in Windows,
         NEW q \in Seq(WaiterType), AwaitLease(n, e, r, c, w, q)
  PROVE  \E x \in WaiterType :
            /\ waiting'[n] = Append(q, x) /\ x.at = w /\ x.slot = entry'[n].pending /\ x.cost = c
            /\ \/ /\ Joins(e) /\ entry'[n].pending = e.pending /\ lease'[n] = lease[n]
                  /\ x.res = ResultOf(lease[n][e.pending])
               \/ /\ ~Joins(e) /\ lease[n][x.slot].st = "free" /\ x.res = "none"
                  /\ lease'[n][x.slot].st = "sent" /\ lease'[n][x.slot].kind = "demand"
                  /\ \A t \in Slots : t # x.slot => lease'[n][t] = lease[n][t]
<1> DEFINE Waiter(s, res) == [req |-> r, cost |-> c, at |-> w, slot |-> s, res |-> res]
<1>1. \A s \in Slots, res \in Results :
         /\ Waiter(s, res) \in WaiterType /\ Waiter(s, res).at = w /\ Waiter(s, res).cost = c
         /\ Waiter(s, res).slot = s /\ Waiter(s, res).res = res
  BY DEF WaiterType
<1>2. CASE Joins(e)
  <2>1. e.pending \in Slots /\ ResultOf(lease[n][e.pending]) \in Results
    BY <1>2 DEF Joins, EntryType, ResultOf, Results
  <2>2. /\ entry' = [entry EXCEPT ![n] = e] /\ lease' = lease
        /\ waiting' = [waiting EXCEPT ![n] = Append(q, Waiter(e.pending, ResultOf(lease[n][e.pending])))]
    BY <1>2 DEF AwaitLease
  <2>3. waiting'[n] = Append(q, Waiter(e.pending, ResultOf(lease[n][e.pending]))) /\ entry'[n] = e
    BY <2>2 DEF TypeOK
  <2> DEFINE x == Waiter(e.pending, ResultOf(lease[n][e.pending]))
  <2>4. x \in WaiterType /\ x.at = w /\ x.cost = c /\ x.slot = e.pending
        /\ x.res = ResultOf(lease[n][e.pending])
    BY <1>1, <2>1
  <2>5. waiting'[n] = Append(q, x)
    BY <2>3
  <2> HIDE DEF x
  <2> QED BY <1>2, <2>2, <2>3, <2>4, <2>5
<1>3. CASE ~Joins(e)
  <2>1. PICK s \in Slots, b \in BatchSizes :
          /\ lease[n][s].st = "free"
          /\ lease' = [lease EXCEPT ![n][s] = Sent("demand", Larger(b, c))]
          /\ waiting' = [waiting EXCEPT ![n] = Append(q, Waiter(s, "none"))]
          /\ entry' = [entry EXCEPT ![n] = [e EXCEPT !.pending = s]]
    BY <1>3 DEF AwaitLease
  <2>2. /\ lease'[n][s] = Sent("demand", Larger(b, c)) /\ \A t \in Slots : t # s => lease'[n][t] = lease[n][t]
        /\ waiting'[n] = Append(q, Waiter(s, "none")) /\ entry'[n].pending = s
    BY <2>1 DEF TypeOK, EntryType
  <2>3. "none" \in Results
    BY DEF Results
  <2> DEFINE x == Waiter(s, "none")
  <2>4. x \in WaiterType /\ x.at = w /\ x.cost = c /\ x.slot = s /\ x.res = "none"
    BY <1>1, <2>3
  <2>5. waiting'[n] = Append(q, x)
    BY <2>2
  <2>6. lease'[n][s].st = "sent" /\ lease'[n][s].kind = "demand"
    BY <2>2, SentFields
  <2> HIDE DEF x
  <2> QED BY <1>3, <2>1, <2>2, <2>4, <2>5, <2>6
<1> QED BY <1>2, <1>3

\* A step of node n, in a window that does not change.
LEMMA WaitsAt ==
  ASSUME WaitersInv, NEW n \in Node, WaitsRight(lease'[n], waiting'[n], entry'[n], Window(now)), now' = now, OnlyAt(n)
  PROVE  WaitersInv'
BY DEF WaitersInv, OnlyAt, Window

\* A new refill on a slot that was free concerns no check that waits.
LEMMA WaitsRefill ==
  ASSUME TypeOK, TypeOK', NEW n \in Node, NEW e, NEW f, NEW q \in Seq(WaiterType), NEW v,
         WaitsRight(lease[n], q, e, v), e.pending \in Slots \cup {NoSlot}, f.pending = e.pending,
         lease'[n] = lease[n] \/ Issues(n, "refill")
  PROVE  WaitsRight(lease'[n], q, f, v)
<1>1. CASE lease'[n] = lease[n]
  BY <1>1 DEF WaitsRight
<1>2. CASE Issues(n, "refill")
  <2>1. PICK s \in Slots : /\ lease[n][s].st = "free" /\ lease'[n][s].st = "sent" /\ lease'[n][s].kind = "refill"
                           /\ \A t \in Slots : t # s => lease'[n][t] = lease[n][t]
    BY <1>2 DEF Issues
  <2>2. \A w \in Range(q) : w.slot \in Slots
    BY WaiterFields
  <2>3. f.pending # NoSlot => lease'[n][f.pending].st # "free" /\ lease'[n][f.pending].kind = "demand"
    BY <2>1, LeasedAssumption DEF WaitsRight
  <2>4. ASSUME NEW t \in Slots, lease'[n][t].kind = "demand", lease'[n][t].st \in UnderWay
        PROVE  \E w \in Range(q) : w.slot = t /\ w.res = "none"
    BY <2>1, <2>4 DEF WaitsRight
  <2>5. ASSUME NEW w \in Range(q)
        PROVE  w.at <= v /\ (w.res = "none" => lease'[n][w.slot].kind = "demand" /\ lease'[n][w.slot].st \in UnderWay)
    BY <2>1, <2>2 DEF WaitsRight, UnderWay
  <2> QED BY <2>3, <2>4, <2>5 DEF WaitsRight
<1> QED BY <1>1, <1>2

\* A check that awaits a lease joins a list that is in order.
LEMMA WaitsAwait ==
  ASSUME TypeOK, TypeOK', NEW n \in Node, NEW e \in EntryType, NEW r \in Reqs, NEW c \in Costs, NEW w \in Windows,
         NEW q \in Seq(WaiterType), NEW v, w <= v, WaitsRight(lease[n], q, e, v), AwaitLease(n, e, r, c, w, q)
  PROVE  WaitsRight(lease'[n], waiting'[n], entry'[n], v)
<1>1. PICK x \in WaiterType :
         /\ waiting'[n] = Append(q, x) /\ x.at = w /\ x.slot = entry'[n].pending
         /\ \/ /\ Joins(e) /\ entry'[n].pending = e.pending /\ lease'[n] = lease[n]
               /\ x.res = ResultOf(lease[n][e.pending])
            \/ /\ ~Joins(e) /\ lease[n][x.slot].st = "free" /\ x.res = "none"
               /\ lease'[n][x.slot].st = "sent" /\ lease'[n][x.slot].kind = "demand"
               /\ \A t \in Slots : t # x.slot => lease'[n][t] = lease[n][t]
  BY AwaitQueue
<1>2. Range(waiting'[n]) = Range(q) \cup {x} /\ x.slot \in Slots
  <2>1. x.slot \in Slots
    BY DEF WaiterType
  <2>2. Range(Append(q, x)) = Range(q) \cup {x}
    BY AppendRange
  <2> QED BY <1>1, <2>1, <2>2
<1>3. \A y \in Range(q) : y.slot \in Slots
  BY WaiterFields
<1>4. CASE Joins(e)
  <2>1. /\ entry'[n].pending = e.pending /\ lease'[n] = lease[n] /\ x.res = ResultOf(lease[n][e.pending])
        /\ e.pending # NoSlot
    BY <1>1, <1>4 DEF Joins
  <2>2. x.res = "none" => lease[n][x.slot].st \in UnderWay /\ lease[n][x.slot].kind = "demand"
    <3>1. lease[n][x.slot].st \in {"free", "sent", "replied", "lost", "settled"}
      <4>1. lease[n][x.slot] \in LeaseType
        BY <1>2, LeaseTyped
      <4> QED BY <4>1 DEF LeaseType
    <3> QED BY <1>1, <2>1, <3>1 DEF WaitsRight, ResultOf, UnderWay
  <2> QED BY <1>1, <1>2, <2>1, <2>2 DEF WaitsRight
<1>5. CASE ~Joins(e)
  <2>1. /\ lease[n][x.slot].st = "free" /\ x.res = "none"
        /\ lease'[n][x.slot].st = "sent" /\ lease'[n][x.slot].kind = "demand"
        /\ \A t \in Slots : t # x.slot => lease'[n][t] = lease[n][t]
    BY <1>1, <1>5
  <2>2. ASSUME NEW t \in Slots, lease'[n][t].kind = "demand", lease'[n][t].st \in UnderWay
        PROVE  \E y \in Range(waiting'[n]) : y.slot = t /\ y.res = "none"
    <3>1. CASE t = x.slot
      BY <1>2, <2>1, <3>1
    <3>2. CASE t # x.slot
      <4>1. \E y \in Range(q) : y.slot = t /\ y.res = "none"
        BY <2>1, <2>2, <3>2 DEF WaitsRight
      <4> QED BY <1>2, <4>1
    <3> QED BY <3>1, <3>2
  <2>3. ASSUME NEW y \in Range(waiting'[n])
        PROVE  y.at <= v /\ (y.res = "none" => lease'[n][y.slot].kind = "demand" /\ lease'[n][y.slot].st \in UnderWay)
    <3>1. CASE y = x
      BY <1>1, <2>1, <3>1 DEF UnderWay
    <3>2. CASE y \in Range(q)
      BY <1>3, <2>1, <3>2 DEF WaitsRight, UnderWay
    <3> QED BY <1>2, <2>3, <3>1, <3>2
  <2>4. entry'[n].pending # NoSlot => lease'[n][entry'[n].pending].st # "free" /\ lease'[n][entry'[n].pending].kind = "demand"
    BY <1>1, <2>1
  <2> QED BY <2>2, <2>3, <2>4 DEF WaitsRight
<1> QED BY <1>4, <1>5

\* Removing a check that was woken leaves the list in order.
LEMMA WaitsLeave ==
  ASSUME NEW L, NEW q \in Seq(WaiterType), NEW e, NEW v, NEW i \in DOMAIN q, q[i].res # "none", WaitsRight(L, q, e, v)
  PROVE  WaitsRight(L, Without(q, i), e, v)
<1>1. /\ Range(Without(q, i)) \subseteq Range(q)
      /\ \A x \in Range(q) : x.res = "none" => x \in Range(Without(q, i))
  BY WithoutRange
<1>2. ASSUME NEW s \in Slots, L[s].kind = "demand", L[s].st \in UnderWay
      PROVE  \E w \in Range(Without(q, i)) : w.slot = s /\ w.res = "none"
  <2>1. PICK w \in Range(q) : w.slot = s /\ w.res = "none"
    BY <1>2 DEF WaitsRight
  <2> QED BY <1>1, <2>1
<1>3. ASSUME NEW w \in Range(Without(q, i))
      PROVE  w.at <= v /\ (w.res = "none" => L[w.slot].kind = "demand" /\ L[w.slot].st \in UnderWay)
  BY <1>1 DEF WaitsRight
<1> QED BY <1>2, <1>3 DEF WaitsRight

\* What each callback does to the fields of its call, the entry and the queue.
LEMMA CallbackFields ==
  ASSUME TypeOK, NEW n \in Node, NEW s \in Slots
  PROVE  /\ L2Apply(n, s) =>
              /\ lease[n][s].st = "sent" /\ lease'[n][s].st = "replied"
              /\ lease'[n][s].kind = lease[n][s].kind /\ lease'[n][s].amt = lease[n][s].amt
              /\ lease'[n][s].resetAt = ResetAt(DecisionTime(lease[n][s]))
              /\ lease'[n][s].ok = Fits(l2, DecisionTime(lease[n][s]), lease[n][s].amt)
              /\ entry'[n] = entry[n] /\ waiting'[n] = waiting[n]
         /\ L2Fail(n, s) =>
              /\ lease[n][s].st \in {"sent", "replied"} /\ lease'[n][s].st = "lost"
              /\ lease'[n][s].kind = lease[n][s].kind
              /\ entry'[n] = entry[n] /\ waiting'[n] = waiting[n]
         /\ LeaseSettles(n, s) =>
              /\ lease[n][s].kind = "demand" /\ lease[n][s].st = "replied"
              /\ lease'[n][s].kind = "demand" /\ lease'[n][s].st = "settled"
              /\ entry'[n] = Credited(entry[n], lease[n][s])
              /\ waiting'[n] = Wake(waiting[n], s, IF lease[n][s].ok THEN "allowed" ELSE "denied")
         /\ PendingCleared(n, s) =>
              /\ lease[n][s].st = "settled" /\ lease'[n][s] = FreeLease
              /\ entry'[n] = ClearedPending(entry[n], s) /\ waiting'[n] = waiting[n]
         /\ LeaseRejects(n, s) =>
              /\ lease[n][s].kind = "demand" /\ lease[n][s].st = "lost" /\ lease'[n][s] = FreeLease
              /\ entry'[n] = ClearedPending(entry[n], s) /\ waiting'[n] = Wake(waiting[n], s, "failed")
         /\ RefillSettles(n, s) =>
              /\ lease[n][s].kind = "refill" /\ lease[n][s].st \in {"replied", "lost"} /\ lease'[n][s] = FreeLease
              /\ entry'[n] = RefillDone(IF lease[n][s].st = "lost" THEN entry[n] ELSE RefillCredited(entry[n], lease[n][s]))
              /\ waiting'[n] = waiting[n]
<1> DEFINE c == lease[n][s]
           d == lease'[n][s]
<1>1. c \in LeaseType
  BY DEF TypeOK
<1>2. ASSUME L2Apply(n, s)
      PROVE  /\ c.st = "sent" /\ d.st = "replied" /\ d.kind = c.kind /\ d.amt = c.amt
             /\ d.resetAt = ResetAt(DecisionTime(c)) /\ d.ok = Fits(l2, DecisionTime(c), c.amt)
             /\ entry'[n] = entry[n] /\ waiting'[n] = waiting[n]
  <2> DEFINE t == DecisionTime(c)
             x == [c EXCEPT !.st = "replied", !.ok = Fits(l2, t, c.amt), !.resetAt = ResetAt(t)]
  <2>1. d = x /\ c.st = "sent" /\ entry'[n] = entry[n] /\ waiting'[n] = waiting[n]
    BY <1>2 DEF L2Apply, TypeOK
  <2>2. x.st = "replied" /\ x.kind = c.kind /\ x.amt = c.amt /\ x.resetAt = ResetAt(t) /\ x.ok = Fits(l2, t, c.amt)
    BY <1>1 DEF LeaseType
  <2> HIDE DEF x, d
  <2> QED BY <2>1, <2>2
<1>3. ASSUME L2Fail(n, s)
      PROVE  /\ c.st \in {"sent", "replied"} /\ d.st = "lost" /\ d.kind = c.kind
             /\ entry'[n] = entry[n] /\ waiting'[n] = waiting[n]
  <2>1. d = [c EXCEPT !.st = "lost"] /\ c.st \in {"sent", "replied"} /\ entry'[n] = entry[n] /\ waiting'[n] = waiting[n]
    BY <1>3 DEF L2Fail, TypeOK
  <2> HIDE DEF d
  <2> QED BY <1>1, <2>1 DEF LeaseType
<1>4. ASSUME LeaseSettles(n, s)
      PROVE  /\ c.kind = "demand" /\ c.st = "replied" /\ d.kind = "demand" /\ d.st = "settled"
             /\ entry'[n] = Credited(entry[n], c)
             /\ waiting'[n] = Wake(waiting[n], s, IF c.ok THEN "allowed" ELSE "denied")
  <2>1. /\ c.kind = "demand" /\ c.st = "replied" /\ d = [c EXCEPT !.st = "settled"]
        /\ entry'[n] = Credited(entry[n], c)
        /\ waiting'[n] = Wake(waiting[n], s, IF c.ok THEN "allowed" ELSE "denied")
    BY <1>4 DEF LeaseSettles, TypeOK
  <2> HIDE DEF d
  <2>2. d.kind = "demand" /\ d.st = "settled"
    BY <1>1, <2>1 DEF LeaseType
  <2> QED BY <2>1, <2>2
<1>5. ASSUME PendingCleared(n, s)
      PROVE  c.st = "settled" /\ d = FreeLease /\ entry'[n] = ClearedPending(entry[n], s) /\ waiting'[n] = waiting[n]
  BY <1>5 DEF PendingCleared, TypeOK
<1>6. ASSUME LeaseRejects(n, s)
      PROVE  /\ c.kind = "demand" /\ c.st = "lost" /\ d = FreeLease
             /\ entry'[n] = ClearedPending(entry[n], s) /\ waiting'[n] = Wake(waiting[n], s, "failed")
  BY <1>6 DEF LeaseRejects, TypeOK
<1>7. ASSUME RefillSettles(n, s)
      PROVE  /\ c.kind = "refill" /\ c.st \in {"replied", "lost"} /\ d = FreeLease /\ waiting'[n] = waiting[n]
             /\ entry'[n] = RefillDone(IF c.st = "lost" THEN entry[n] ELSE RefillCredited(entry[n], c))
  BY <1>7 DEF RefillSettles, TypeOK
<1> QED BY <1>2, <1>3, <1>4, <1>5, <1>6, <1>7

\* What the callbacks do to the fields of an entry.
LEMMA EntryFields ==
  ASSUME NEW e \in EntryType, NEW c \in LeaseType, NEW s \in Slots
  PROVE  /\ Credited(e, c).pending = e.pending /\ RefillCredited(e, c).pending = e.pending
         /\ RefillDone(e).pending = e.pending /\ RefillDone(e).credits = e.credits /\ RefillDone(e).resetAt = e.resetAt
         /\ ClearedPending(e, s).credits = e.credits /\ ClearedPending(e, s).resetAt = e.resetAt
         /\ ClearedPending(e, s).pending = IF e.pending = s THEN NoSlot ELSE e.pending
         /\ e.live => /\ Credited(e, c).resetAt = c.resetAt
                      /\ Credited(e, c).credits = e.credits + IF c.ok THEN c.amt ELSE 0
<1>1. Credited(e, c).pending = e.pending
  BY DEF Credited, EntryType
<1>2. RefillCredited(e, c).pending = e.pending
  BY <1>1 DEF RefillCredited
<1>3. RefillDone(e).pending = e.pending /\ RefillDone(e).credits = e.credits /\ RefillDone(e).resetAt = e.resetAt
  BY DEF RefillDone, EntryType
<1>4. /\ ClearedPending(e, s).credits = e.credits /\ ClearedPending(e, s).resetAt = e.resetAt
      /\ ClearedPending(e, s).pending = IF e.pending = s THEN NoSlot ELSE e.pending
  BY DEF ClearedPending, EntryType
<1>5. ASSUME e.live
      PROVE  Credited(e, c).resetAt = c.resetAt /\ Credited(e, c).credits = e.credits + IF c.ok THEN c.amt ELSE 0
  BY <1>5 DEF Credited, EntryType
<1> QED BY <1>1, <1>2, <1>3, <1>4, <1>5

\* The callbacks wake every check that waits for the lease they end.
LEMMA WaitsCallback ==
  ASSUME TypeOK, TypeOK', WaitersInv, NEW n \in Node, NEW s \in Slots, Callback(n, s)
  PROVE  WaitsRight(lease'[n], waiting'[n], entry'[n], Window(now))
<1> DEFINE L == lease[n]
           M == lease'[n]
           q == waiting[n]
           r == waiting'[n]
           e == entry[n]
           f == entry'[n]
           v == Window(now)
<1>1. /\ q \in Seq(WaiterType) /\ e \in EntryType /\ L[s] \in LeaseType /\ WaitsRight(L, q, e, v)
      /\ e.pending \in Slots \cup {NoSlot}
  BY DEF TypeOK, WaitersInv, EntryType
<1>2. \A w \in Range(q) : w \in WaiterType /\ w.slot \in Slots
  BY <1>1, WaiterFields
<1>3. \A t \in Slots : t # s => M[t] = L[t]
  BY CallbackEffect
<1>4. CASE L2Apply(n, s) \/ L2Fail(n, s)
  <2>1. M[s].kind = L[s].kind /\ L[s].st \in UnderWay /\ M[s].st \in UnderWay /\ f = e /\ r = q /\ M[s].st # "free"
    BY <1>4, CallbackFields DEF UnderWay
  <2> HIDE DEF L, M, q, r, e, f, v
  <2>2. \A t \in Slots : /\ M[t].kind = L[t].kind /\ (M[t].st \in UnderWay <=> L[t].st \in UnderWay)
                         /\ (L[t].st # "free" => M[t].st # "free")
    BY <1>3, <2>1
  <2>6. WaitsRight(M, r, f, v)
    BY <1>1, <1>2, <2>1, <2>2 DEF WaitsRight
  <2> QED BY <2>6 DEF M, r, f, v
<1>5. CASE LeaseSettles(n, s)
  <2> DEFINE res == IF L[s].ok THEN "allowed" ELSE "denied"
  <2>1. /\ L[s].kind = "demand" /\ M[s].kind = "demand" /\ M[s].st = "settled"
        /\ f.pending = e.pending /\ r = Wake(q, s, res)
    BY <1>1, <1>5, CallbackFields, EntryFields
  <2>2. res # "none"
    OBVIOUS
  <2> HIDE DEF L, M, q, r, e, f, v, res
  <2>3. f.pending # NoSlot => M[f.pending].st # "free" /\ M[f.pending].kind = "demand"
    BY <1>1, <1>3, <2>1 DEF WaitsRight
  <2>4. ASSUME NEW t \in Slots, M[t].kind = "demand", M[t].st \in UnderWay
        PROVE  \E y \in Range(r) : y.slot = t /\ y.res = "none"
    <3>1. t # s
      BY <2>1, <2>4 DEF UnderWay
    <3>2. PICK w \in Range(q) : w.slot = t /\ w.res = "none"
      BY <1>1, <1>3, <2>4, <3>1 DEF WaitsRight
    <3>3. Woken(w, s, res) \in Range(r)
      BY <1>1, <2>1, WakeRange
    <3> QED BY <3>1, <3>2, <3>3 DEF Woken
  <2>5. ASSUME NEW y \in Range(r)
        PROVE  y.at <= v /\ (y.res = "none" => M[y.slot].kind = "demand" /\ M[y.slot].st \in UnderWay)
    <3>1. PICK w \in Range(q) : y = Woken(w, s, res)
      BY <1>1, <2>1, WakeRange
    <3>2. y.at = w.at /\ y.slot = w.slot /\ (y.res = "none" => w.res = "none" /\ w.slot # s)
      BY <1>2, <2>2, <3>1, WokenFields
    <3> QED BY <1>1, <1>2, <1>3, <3>2 DEF WaitsRight
  <2>6. WaitsRight(M, r, f, v)
    BY <2>3, <2>4, <2>5 DEF WaitsRight
  <2> QED BY <2>6 DEF M, r, f, v
<1>6. CASE LeaseRejects(n, s)
  <2>1. /\ M[s].st = "free" /\ f.pending = (IF e.pending = s THEN NoSlot ELSE e.pending) /\ r = Wake(q, s, "failed")
    BY <1>1, <1>6, CallbackFields, EntryFields DEF FreeLease
  <2> HIDE DEF L, M, q, r, e, f, v
  <2>3. f.pending # NoSlot => M[f.pending].st # "free" /\ M[f.pending].kind = "demand"
    BY <1>1, <1>3, <2>1 DEF WaitsRight
  <2>4. ASSUME NEW t \in Slots, M[t].kind = "demand", M[t].st \in UnderWay
        PROVE  \E y \in Range(r) : y.slot = t /\ y.res = "none"
    <3>1. t # s
      BY <2>1, <2>4 DEF UnderWay
    <3>2. PICK w \in Range(q) : w.slot = t /\ w.res = "none"
      BY <1>1, <1>3, <2>4, <3>1 DEF WaitsRight
    <3>3. Woken(w, s, "failed") \in Range(r)
      BY <1>1, <2>1, WakeRange
    <3> QED BY <3>1, <3>2, <3>3 DEF Woken
  <2>5. ASSUME NEW y \in Range(r)
        PROVE  y.at <= v /\ (y.res = "none" => M[y.slot].kind = "demand" /\ M[y.slot].st \in UnderWay)
    <3>1. PICK w \in Range(q) : y = Woken(w, s, "failed")
      BY <1>1, <2>1, WakeRange
    <3>2. y.at = w.at /\ y.slot = w.slot /\ (y.res = "none" => w.res = "none" /\ w.slot # s)
      BY <1>2, <3>1, WokenFields
    <3> QED BY <1>1, <1>2, <1>3, <3>2 DEF WaitsRight
  <2>6. WaitsRight(M, r, f, v)
    BY <2>3, <2>4, <2>5 DEF WaitsRight
  <2> QED BY <2>6 DEF M, r, f, v
<1>7. CASE PendingCleared(n, s) \/ RefillSettles(n, s)
  <2>1. /\ M[s].st = "free" /\ r = q /\ (L[s].st = "settled" \/ L[s].kind = "refill")
        /\ f.pending = e.pending \/ (f.pending = NoSlot /\ e.pending = s)
        /\ f.pending = s => L[s].kind = "refill"
    <3>1. CASE PendingCleared(n, s)
      BY <1>1, <3>1, CallbackFields, EntryFields, LeasedAssumption DEF FreeLease
    <3>2. CASE RefillSettles(n, s)
      <4> DEFINE g == IF L[s].st = "lost" THEN e ELSE RefillCredited(e, L[s])
      <4>1. /\ M[s] = FreeLease /\ r = q /\ L[s].kind = "refill" /\ f = RefillDone(g)
        BY <3>2, CallbackFields
      <4>2. g \in EntryType /\ g.pending = e.pending
        BY <1>1, CreditedTyped, EntryFields
      <4> HIDE DEF g
      <4>3. f.pending = e.pending
        BY <1>1, <4>1, <4>2, EntryFields
      <4> QED BY <4>1, <4>3 DEF FreeLease
    <3> QED BY <1>7, <3>1, <3>2
  <2> HIDE DEF L, M, q, r, e, f, v
  <2>3. f.pending # NoSlot => M[f.pending].st # "free" /\ M[f.pending].kind = "demand"
    BY <1>1, <1>3, <2>1 DEF WaitsRight
  <2>4. \A t \in Slots : M[t].st \in UnderWay => M[t] = L[t]
    BY <1>3, <2>1 DEF UnderWay
  <2>5. \A w \in Range(q) : w.res = "none" => M[w.slot] = L[w.slot]
    BY <1>1, <1>2, <1>3, <2>1 DEF WaitsRight, UnderWay
  <2>6. WaitsRight(M, r, f, v)
    BY <1>1, <2>1, <2>3, <2>4, <2>5 DEF WaitsRight
  <2> QED BY <2>6 DEF M, r, f, v
<1> QED BY <1>4, <1>5, <1>6, <1>7 DEF Callback

\* The entry a check works on is waited for like the one kept.
LEMMA WaitsEntryFor ==
  ASSUME TypeOK, WaitersInv, NEW n \in Node
  PROVE  /\ WaitsRight(lease[n], waiting[n], EntryFor(n), Window(now))
         /\ WaitsRight(lease[n], waiting[n], Unexpired(EntryFor(n)), Window(now))
<1>1. WaitsRight(lease[n], waiting[n], entry[n], Window(now))
  BY DEF WaitersInv
<1>2. EntryFor(n) \in EntryType
  BY EntryForTyped
<1>3. EntryFor(n).pending = entry[n].pending \/ EntryFor(n).pending = NoSlot
  BY DEF EntryFor, FreshEntry
<1>4. Unexpired(EntryFor(n)).pending = EntryFor(n).pending
  BY <1>2 DEF Unexpired, EntryType
<1> QED BY <1>1, <1>3, <1>4 DEF WaitsRight

\* Every step keeps the waiting lists in order.
LEMMA WaitersStep == TypeOK /\ TypeOK' /\ WaitersInv /\ [Next]_vars => WaitersInv'
<1> SUFFICES ASSUME TypeOK, TypeOK', WaitersInv, [Next]_vars PROVE WaitersInv'
  OBVIOUS
<1>1. CASE UNCHANGED <<now, entry, lease, waiting>>
  BY <1>1 DEF WaitersInv, Window
<1>2. Window(now) \in Windows /\ Window(now) \in Int
  BY WindowInRange DEF TypeOK, Windows
<1>3. ASSUME NEW n \in Node, NEW r \in Reqs, NEW c \in Costs, Check(n, r, c) PROVE WaitersInv'
  <2> DEFINE e == Unexpired(EntryFor(n))
             v == Window(now)
  <2>1. /\ e \in EntryType /\ now' = now /\ WaitsRight(lease[n], waiting[n], e, v)
        /\ waiting[n] \in Seq(WaiterType)
    BY <1>3, EntryForTyped, WaitsEntryFor DEF Check, TypeOK
  <2>2. \/ Serve(n, e, c, v) /\ waiting' = waiting
        \/ AwaitLease(n, e, r, c, v, waiting[n])
    BY <1>3 DEF Check
  <2> HIDE DEF e
  <2>3. CASE Serve(n, e, c, v) /\ waiting' = waiting
    <3>1. /\ lease'[n] = lease[n] \/ Issues(n, "refill")
          /\ entry'[n].pending = e.pending /\ OnlyAt(n)
      BY <2>1, <2>3, ServeEffect DEF OnlyAt
    <3>2. e.pending \in Slots \cup {NoSlot}
      BY <2>1 DEF EntryType
    <3>3. WaitsRight(lease'[n], waiting'[n], entry'[n], Window(now))
      BY <2>1, <2>3, <3>1, <3>2, WaitsRefill
    <3> QED BY <2>1, <3>1, <3>3, WaitsAt
  <2>4. CASE AwaitLease(n, e, r, c, v, waiting[n])
    <3>1. WaitsRight(lease'[n], waiting'[n], entry'[n], v)
      BY <1>2, <2>1, <2>4, WaitsAwait
    <3>2. OnlyAt(n)
      <4>1. \A m \in Node : m # n => waiting'[m] = waiting[m]
        BY <2>4 DEF AwaitLease, TypeOK
      <4> QED BY <2>1, <2>4, <4>1, AwaitEffect DEF OnlyAt
    <3> QED BY <2>1, <3>1, <3>2, WaitsAt
  <2> QED BY <2>2, <2>3, <2>4
<1>4. ASSUME NEW n \in Node, NEW i \in DOMAIN waiting[n], Resume(n, i) PROVE WaitersInv'
  <2> DEFINE w == waiting[n][i]
             e == EntryFor(n)
             q == Without(waiting[n], i)
             v == Window(now)
  <2>1. /\ e \in EntryType /\ now' = now /\ waiting[n] \in Seq(WaiterType) /\ w.res # "none"
        /\ WaitsRight(lease[n], waiting[n], e, v) /\ WaitsRight(lease[n], waiting[n], entry[n], v)
    BY <1>4, EntryForTyped, WaitsEntryFor DEF Resume, TypeOK, WaitersInv
  <2>2. q \in Seq(WaiterType) /\ WaitsRight(lease[n], q, e, v) /\ WaitsRight(lease[n], q, entry[n], v)
    BY <2>1, WithoutTyped, WaitsLeave
  <2>3. w \in Range(waiting[n])
    BY DEF Range
  <2>4. w.cost \in Costs /\ w.at \in Windows /\ w.req \in Reqs /\ w.at <= v
    <3>1. w \in WaiterType
      BY DEF TypeOK
    <3>2. w.at <= v
      BY <2>1, <2>3 DEF WaitsRight
    <3> HIDE DEF w
    <3> QED BY <3>1, <3>2 DEF WaiterType
  <2>5. \/ /\ waiting' = [waiting EXCEPT ![n] = q] /\ UNCHANGED lease
           /\ entry' = entry \/ entry' = [entry EXCEPT ![n] = e]
        \/ Serve(n, e, w.cost, w.at) /\ waiting' = [waiting EXCEPT ![n] = q]
        \/ AwaitLease(n, e, w.req, w.cost, w.at, q)
    BY <1>4 DEF Resume
  <2> HIDE DEF e, w, q
  <2>6. CASE /\ waiting' = [waiting EXCEPT ![n] = q] /\ UNCHANGED lease
             /\ entry' = entry \/ entry' = [entry EXCEPT ![n] = e]
    <3>1. /\ OnlyAt(n) /\ waiting'[n] = q /\ lease'[n] = lease[n]
          /\ entry'[n] = entry[n] \/ entry'[n] = e
      BY <2>6 DEF OnlyAt, TypeOK
    <3>2. WaitsRight(lease'[n], waiting'[n], entry'[n], Window(now))
      BY <2>2, <3>1
    <3> QED BY <2>1, <3>1, <3>2, WaitsAt
  <2>7. CASE Serve(n, e, w.cost, w.at) /\ waiting' = [waiting EXCEPT ![n] = q]
    <3>1. /\ lease'[n] = lease[n] \/ Issues(n, "refill")
          /\ entry'[n].pending = e.pending
          /\ \A m \in Node : m # n => entry'[m] = entry[m] /\ lease'[m] = lease[m]
      BY <2>1, <2>4, <2>7, ServeEffect
    <3>2. waiting'[n] = q /\ \A m \in Node : m # n => waiting'[m] = waiting[m]
      BY <2>7 DEF TypeOK
    <3>3. e.pending \in Slots \cup {NoSlot}
      BY <2>1 DEF EntryType
    <3>4. WaitsRight(lease'[n], waiting'[n], entry'[n], Window(now))
      BY <2>2, <3>1, <3>2, <3>3, WaitsRefill
    <3>5. OnlyAt(n)
      BY <3>1, <3>2 DEF OnlyAt
    <3> QED BY <2>1, <3>4, <3>5, WaitsAt
  <2>8. CASE AwaitLease(n, e, w.req, w.cost, w.at, q)
    <3>1. WaitsRight(lease'[n], waiting'[n], entry'[n], v)
      BY <2>1, <2>2, <2>4, <2>8, WaitsAwait
    <3>2. OnlyAt(n)
      <4>1. \A m \in Node : m # n => waiting'[m] = waiting[m]
        BY ZenonT(60), <2>8 DEF AwaitLease, TypeOK
      <4> QED BY <2>1, <2>8, <4>1, AwaitEffect DEF OnlyAt
    <3> QED BY <2>1, <3>1, <3>2, WaitsAt
  <2> QED BY <2>5, <2>6, <2>7, <2>8
<1>5. ASSUME NEW n \in Node, NEW s \in Slots, Callback(n, s) PROVE WaitersInv'
  <2>1. OnlyAt(n) /\ now' = now
    BY <1>5, CallbackEffect DEF OnlyAt
  <2> QED BY <1>5, <2>1, WaitsCallback, WaitsAt
<1>6. ASSUME NEW n \in Node, Evict(n) \/ Reset(n) PROVE WaitersInv'
  <2>1. entry' = [entry EXCEPT ![n] = NoEntry] /\ UNCHANGED <<now, lease, waiting>>
    BY <1>6 DEF Evict, Reset
  <2>2. entry'[n].pending = NoSlot /\ OnlyAt(n)
    BY <2>1 DEF OnlyAt, TypeOK, NoEntry, FreshEntry
  <2>3. WaitsRight(lease'[n], waiting'[n], entry'[n], Window(now))
    BY <2>1, <2>2 DEF WaitersInv, WaitsRight
  <2> QED BY <2>1, <2>2, <2>3, WaitsAt
<1>7. CASE L2Reset
  BY <1>1, <1>7 DEF L2Reset
<1>8. CASE Tick
  <2>1. UNCHANGED <<entry, lease, waiting>> /\ now \in Nat /\ now' \in Nat /\ now <= now'
    BY <1>8, LeasedAssumption DEF Tick, TypeOK
  <2>2. Window(now) <= Window(now') /\ Window(now) \in Int /\ Window(now') \in Int
    BY <2>1, WindowMonotone, WindowNat
  <2>3. \A n \in Node : \A w \in Range(waiting[n]) : w.at \in Int
    BY WaiterFields DEF TypeOK
  <2>4. ASSUME NEW n \in Node PROVE WaitsRight(lease'[n], waiting'[n], entry'[n], Window(now'))
    <3>1. \A w \in Range(waiting[n]) : w.at <= Window(now')
      BY <2>2, <2>3 DEF WaitersInv, WaitsRight
    <3> QED BY <2>1, <3>1 DEF WaitersInv, WaitsRight
  <2> QED BY <2>4 DEF WaitersInv, Window
<1>9. CASE UNCHANGED vars
  BY <1>1, <1>9 DEF vars
<1> QED BY <1>3, <1>4, <1>5, <1>6, <1>7, <1>8, <1>9 DEF Next

\* Nobody waits in the initial state.
LEMMA WaitersInit == Init => WaitersInv
<1> SUFFICES ASSUME Init, NEW n \in Node PROVE WaitsRight(lease[n], waiting[n], entry[n], Window(now))
  BY DEF WaitersInv
<1>1. waiting[n] = <<>> /\ entry[n].pending = NoSlot /\ \A s \in Slots : lease[n][s].st = "free"
  BY DEF Init, NoEntry, FreshEntry, FreeLease
<1>2. Range(waiting[n]) = {}
  BY <1>1 DEF Range
<1> QED BY <1>1, <1>2 DEF WaitsRight, UnderWay

----------------------------------------------------------------------------
(* What both bounds on a window rest on *)

\* With no reset(), L2 grants at most the limit in a window.
LEMMA GrantedWithinLimit ==
  ASSUME TypeOK, BudgetInv, resets.issued = 0
  PROVE  \A w \in Windows : granted[w] <= Limit
<1>1. resets.underway \in Nat /\ resets.underway <= 0
  BY DEF TypeOK, BudgetInv
<1>2. ResetsDone = 0
  BY <1>1 DEF ResetsDone
<1>3. Limit * (1 + 0) = Limit
  BY LeasedAssumption
<1> QED BY <1>2, <1>3 DEF BudgetInv

\* Where reset() is never called, none is ever issued.
LEMMA NoResets ==
  ASSUME MaxResets = 0
  PROVE  /\ Init => resets.issued = 0
         /\ TypeOK /\ resets.issued = 0 /\ [Next]_vars => resets'.issued = 0
<1>1. Init => resets.issued = 0
  BY DEF Init
<1>2. ASSUME TypeOK, resets.issued = 0, [Next]_vars PROVE resets'.issued = 0
  <2>1. CASE UNCHANGED resets
    BY <1>2, <2>1
  <2>2. CASE L2Reset
    BY <1>2, <2>2 DEF L2Reset, TypeOK
  <2>3. CASE \E n \in Node : Reset(n)
    <3>1. resets.issued < MaxResets
      BY Zenon, <2>3 DEF Reset
    <3> QED BY <1>2, <3>1
  <2>4. UNCHANGED resets \/ L2Reset \/ \E n \in Node : Reset(n)
    <3>1. \A n \in Node, r \in Reqs, c \in Costs : Check(n, r, c) => UNCHANGED resets
      BY DEF Check
    <3>2. \A n \in Node : \A i \in DOMAIN waiting[n] : Resume(n, i) => UNCHANGED resets
      BY DEF Resume
    <3>3. \A n \in Node, s \in Slots : Callback(n, s) => UNCHANGED resets
      BY DEF Callback, L2Apply, L2Fail, LeaseSettles, PendingCleared, LeaseRejects, RefillSettles
    <3>4. (\A n \in Node : Evict(n) => UNCHANGED resets) /\ (Tick => UNCHANGED resets)
      BY DEF Evict, Tick
    <3> QED BY Zenon, <1>2, <3>1, <3>2, <3>3, <3>4 DEF Next, vars
  <2> QED BY <2>1, <2>2, <2>3, <2>4
<1> QED BY <1>1, <1>2

\* No window to come has admitted anything, and none that is over more than b.
PastWithin(b) ==
    \A w \in Windows : (w > Window(now) => prompt[w] = 0) /\ (w < Window(now) => prompt[w] <= b)

\* A step admits requests into the window it is taken in only.
LEMMA PromptMoves ==
  ASSUME TypeOK, TypeOK', [Next]_vars
  PROVE  /\ \A w \in Windows : w # Window(now) => prompt'[w] = prompt[w]
         /\ Window(now) <= Window(now') /\ (Window(now') # Window(now) => prompt' = prompt)
<1>1. now \in Nat /\ now' \in Nat
  BY LeasedAssumption DEF TypeOK
<1>2. CASE UNCHANGED prompt /\ now <= now'
  BY <1>1, <1>2, WindowMonotone
<1>3. ASSUME NEW n \in Node, NEW e, NEW c, NEW w, Serve(n, e, c, w), now' = now
      PROVE  /\ \A x \in Windows : x # Window(now) => prompt'[x] = prompt[x]
             /\ Window(now) <= Window(now') /\ Window(now') = Window(now)
  <2>1. Window(now) \in Int
    BY <1>1, WindowNat
  <2> QED BY <1>3, <2>1 DEF Serve, TypeOK
<1>4. ASSUME NEW n \in Node, NEW r \in Reqs, NEW c \in Costs, Check(n, r, c)
      PROVE  now' = now /\ (prompt' = prompt \/ \E e, x : Serve(n, e, c, x))
  BY <1>4 DEF Check, AwaitLease
<1>5. ASSUME NEW n \in Node, NEW i \in DOMAIN waiting[n], Resume(n, i)
      PROVE  now' = now /\ (prompt' = prompt \/ \E e, c, x : Serve(n, e, c, x))
  BY <1>5 DEF Resume, AwaitLease
<1>6. CASE Tick
  <2>1. prompt' = prompt /\ now' = now + 1
    BY <1>6 DEF Tick
  <2> QED BY <1>1, <1>2, <2>1
<1>7. CASE (\E n \in Node, s \in Slots : Callback(n, s)) \/ (\E n \in Node : Evict(n) \/ Reset(n)) \/ L2Reset
            \/ UNCHANGED vars
  <2>1. prompt' = prompt /\ now' = now
    BY <1>7, CallbackEffect DEF Evict, Reset, L2Reset, vars
  <2> QED BY <1>1, <1>2, <2>1
<1> QED BY <1>1, <1>2, <1>3, <1>4, <1>5, <1>6, <1>7 DEF Next

\* A window that closes within the bound stays within it.
LEMMA PastStep ==
  ASSUME TypeOK, TypeOK', [Next]_vars, NEW b, PastWithin(b), prompt[Window(now)] <= b
  PROVE  PastWithin(b)'
<1>1. now \in Nat /\ now' \in Nat
  BY LeasedAssumption DEF TypeOK
<1>2. Window(now) \in Int /\ Window(now') \in Int /\ \A w \in Windows : w \in Int
  BY <1>1, WindowNat DEF Windows
<1>3. ASSUME NEW w \in Windows, w > Window(now') PROVE prompt'[w] = 0
  <2>1. w > Window(now) /\ w # Window(now)
    BY <1>2, <1>3, PromptMoves
  <2> QED BY <2>1, PromptMoves DEF PastWithin
<1>4. ASSUME NEW w \in Windows, w < Window(now') PROVE prompt'[w] <= b
  <2>1. CASE w < Window(now)
    BY <1>2, <2>1, PromptMoves DEF PastWithin
  <2>2. CASE w = Window(now)
    BY <1>2, <1>4, <2>2, PromptMoves
  <2>3. CASE w > Window(now)
    <3>1. Window(now') # Window(now)
      BY <1>2, <1>4, <2>3
    <3>2. CASE Tick
      <4>1. now' = now + 1
        BY <3>2 DEF Tick
      <4>2. Window(now + 1) <= Window(now) + 1
        BY <1>1, LeasedAssumption DEF Window
      <4> QED BY <1>2, <1>4, <2>3, <4>1, <4>2
    <3>3. CASE ~Tick
      <4>1. now' = now
        BY <3>3, CallbackEffect DEF Next, vars, Check, Resume, Evict, Reset, L2Reset
      <4> QED BY <3>1, <4>1
    <3> QED BY <3>2, <3>3
  <2> QED BY <1>2, <2>1, <2>2, <2>3
<1> QED BY <1>3, <1>4 DEF PastWithin, Window

----------------------------------------------------------------------------
(* The carryover bound: leases on demand, costs of 1 *)

OneUnitOnDemand == OnDemandOnly /\ ServerTime = TRUE /\ MaxCost = 1

\* With costs of 1, a node leases when it has nothing left, and holds a whole batch only
\* until the check that asked for it continues.
HoldsUnits(e, L, q) ==
    /\ \A s \in Slots : L[s].st \in UnderWay => e.credits = 0
    /\ e.credits <= MaxBatch - 1 \/ \E w \in Range(q) : w.res = "allowed"
UnitInv == \A n \in Node : HoldsUnits(entry[n], lease[n], waiting[n])

\* A unit of node n is promised to a check of an earlier window: it waits first in line, for a
\* grant that is on its way or has been credited.
Promised(n) ==
    /\ waiting[n] # <<>> /\ waiting[n][1].at < Window(now)
    /\ \/ /\ \A w \in Range(waiting[n]) : w.res = "none"
          /\ \E s \in Slots : Arriving(lease[n][s]) > 0
       \/ waiting[n][1].res = "allowed" /\ entry[n].credits >= 1
Spare(n) == Stock(n) - IF Promised(n) THEN 1 ELSE 0

\* What a window admits to its own requests is covered by what L2 grants in it, and by what the
\* nodes brought along: a batch each, but for the unit promised to the check that leased it.
CarryoverInv ==
    prompt[Window(now)] + Sum([n \in Node |-> Spare(n)], N) <= granted[Window(now)] + N * (MaxBatch - 1)

\* The constants in the case of unit costs.
LEMMA UnitCosts ==
  ASSUME OneUnitOnDemand
  PROVE  HoldMax = MaxBatch /\ MaxBatch \in Nat /\ MaxBatch >= 1 /\ \A c \in Costs : c = 1
<1>1. MaxBatch \in Nat /\ MaxCost = 1 /\ BatchSizes # {} /\ BatchSizes \subseteq 1..MaxBatch /\ Costs \subseteq 1..MaxCost
  BY LeasedAssumption DEF OneUnitOnDemand
<1>2. MaxBatch >= 1
  <2>1. PICK b \in BatchSizes : b \in 1..MaxBatch
    BY <1>1
  <2> QED BY <1>1, <2>1
<1>3. \A c \in Costs : c = 1
  BY <1>1
<1> QED BY <1>1, <1>2, <1>3 DEF HoldMax, Larger

\* A node that leases on demand has one call under way at most.
LEMMA OneCall ==
  ASSUME TypeOK, HoldInv, NEW n \in Node, NEW s \in Slots, lease[n][s].st # "free"
  PROVE  /\ entry[n].live /\ entry[n].pending = s /\ lease[n][s].kind = "demand"
         /\ \A t \in Slots : t # s => lease[n][t].st = "free" /\ Arriving(lease[n][t]) = 0
<1>1. Held(entry[n], lease[n])
  BY DEF HoldInv
<1>2. entry[n].live /\ entry[n].pending = s /\ lease[n][s].kind = "demand"
  BY <1>1 DEF Held
<1>3. \A t \in Slots : t # s => lease[n][t].st = "free"
  BY <1>1, <1>2 DEF Held
<1> QED BY <1>2, <1>3 DEF Arriving

\* The stock of a node one call of which may bring something.
LEMMA StockOfOne ==
  ASSUME IsFiniteSet(Slots), TypeOK, NEW n \in Node, NEW s \in Slots,
         \A t \in Slots : t # s => Arriving(lease[n][t]) = 0
  PROVE  Stock(n) = entry[n].credits + Arriving(lease[n][s])
<1> DEFINE f == [t \in Slots |-> Arriving(lease[n][t])]
           z == [t \in Slots |-> 0]
<1>1. f \in [Slots -> Nat] /\ z \in [Slots -> Nat] /\ f[s] = Arriving(lease[n][s]) /\ z[s] = 0
      /\ (\A t \in Slots : t # s => f[t] = z[t]) /\ DOMAIN z = Slots /\ \A t \in Slots : z[t] = 0
  BY StockNat
<1>2. Stock(n) = entry[n].credits + SumFunction(f)
  BY DEF Stock
<1> HIDE DEF f, z
<1>3. SumFunction(z) = 0
  BY <1>1, SetSumZero, SumIsOverDomain
<1>4. SumFunction(f) \in Nat /\ SumFunction(z) = SumFunction(f) - f[s] + z[s]
  BY <1>1, SlotsMove
<1>5. f[s] \in Nat /\ entry[n].credits \in Nat
  BY <1>1, StockNat
<1>6. SumFunction(f) = f[s]
  <2>1. 0 = SumFunction(f) - f[s] + 0
    BY ONLY <1>1, <1>3, <1>4
  <2> QED BY ONLY <1>4, <1>5, <2>1
<1> QED BY <1>1, <1>2, <1>6

\* A node one of whose calls brings something holds that much at least.
LEMMA StockCovers ==
  ASSUME IsFiniteSet(Slots), TypeOK, NEW n \in Node
  PROVE  Stock(n) >= entry[n].credits /\ \A s \in Slots : Stock(n) >= Arriving(lease[n][s])
<1> DEFINE f == [t \in Slots |-> Arriving(lease[n][t])]
<1>1. DOMAIN f = Slots /\ (\A t \in Slots : f[t] \in Nat /\ f[t] \in Int /\ f[t] = Arriving(lease[n][t]))
      /\ entry[n].credits \in Nat
  BY StockNat
<1>2. Stock(n) = entry[n].credits + SumFunction(f)
  BY DEF Stock
<1> HIDE DEF f
<1>3. SumFunction(f) \in Nat
  BY <1>1, SetSumNat, SumIsOverDomain
<1>4. ASSUME NEW s \in Slots PROVE SumFunction(f) >= f[s]
  <2>1. SumFunction(f) = f[s] + SumFunctionOnSet(f, Slots \ {s})
    BY <1>1, SetSumSplit, SumIsOverDomain
  <2>2. SumFunctionOnSet(f, Slots \ {s}) \in Nat
    BY <1>1, SetSumNat, FS_Subset
  <2> QED BY <1>1, <2>1, <2>2
<1> QED BY <1>1, <1>2, <1>3, <1>4

\* A promised unit is there.
LEMMA SpareNat ==
  ASSUME IsFiniteSet(Slots), TypeOK, NEW n \in Node
  PROVE  Spare(n) \in Nat
<1>1. ASSUME Promised(n) PROVE Stock(n) >= 1
  <2>1. (\E s \in Slots : Arriving(lease[n][s]) > 0) \/ entry[n].credits >= 1
    BY <1>1 DEF Promised
  <2> QED BY <2>1, StockNat, StockCovers
<1> QED BY <1>1, StockNat DEF Spare

\* With leases on demand, serving and awaiting send no refill.
LEMMA UnitServe ==
  ASSUME OneUnitOnDemand, TypeOK, TypeOK', HoldInv, UnitInv, NEW n \in Node, NEW e \in EntryType, NEW c \in Costs,
         NEW w, NEW q, e.credits <= entry[n].credits, Serve(n, e, c, w)
  PROVE  HoldsUnits(entry'[n], lease'[n], q)
<1>1. /\ c = 1 /\ e.credits >= c /\ entry'[n].credits = e.credits - c /\ lease'[n] = lease[n]
  <2>1. LowWater = 0 /\ c = 1
    BY UnitCosts DEF OneUnitOnDemand, OnDemandOnly
  <2> QED BY <2>1, ServeEffect
<1>2. entry[n].credits \in Nat /\ entry[n].credits <= MaxBatch /\ e.credits \in Nat /\ MaxBatch \in Nat
  BY SMTT(30), StockNat, UnitCosts DEF HoldInv, Held, EntryType, TypeOK
<1>3. \A s \in Slots : lease[n][s].st \notin UnderWay
  BY <1>1, <1>2 DEF UnitInv, HoldsUnits
<1> QED BY <1>1, <1>2, <1>3 DEF HoldsUnits

\* A lease is awaited with nothing left.
LEMMA UnitAwait ==
  ASSUME OneUnitOnDemand, TypeOK, NEW n \in Node, NEW e \in EntryType, NEW r, NEW c \in Costs, NEW w, NEW p, NEW q,
         AwaitLease(n, e, r, c, w, p)
  PROVE  HoldsUnits(entry'[n], lease'[n], q)
<1>1. entry'[n].credits = e.credits /\ ~Covers(e, c) /\ c = 1
  BY AwaitEffect, UnitCosts
<1>2. e.credits = 0
  BY <1>1 DEF Covers, EntryType
<1> QED BY <1>1, <1>2, UnitCosts DEF HoldsUnits

\* A grant wakes the check that asked for it.
LEMMA UnitCallback ==
  ASSUME OneUnitOnDemand, TypeOK, TypeOK', HoldInv, WaitersInv, UnitInv, NEW n \in Node, NEW s \in Slots,
         Callback(n, s)
  PROVE  HoldsUnits(entry'[n], lease'[n], waiting'[n])
<1> DEFINE L == lease[n]
           M == lease'[n]
           q == waiting[n]
           r == waiting'[n]
           e == entry[n]
           f == entry'[n]
<1>1. /\ q \in Seq(WaiterType) /\ e \in EntryType /\ L[s] \in LeaseType /\ e.credits \in Nat
      /\ HoldsUnits(e, L, q) /\ WaitsRight(L, q, e, Window(now))
  BY DEF TypeOK, UnitInv, WaitersInv, EntryType
<1>2. L[s].st # "free"
  BY CallbackFields DEF Callback
<1>3. L[s].kind = "demand" /\ e.live /\ \A t \in Slots : t # s => M[t] = L[t] /\ M[t].st = "free"
  BY <1>2, OneCall, CallbackEffect
<1>4. \A w \in Range(q) : w \in WaiterType
  BY <1>1, WaiterFields
<1>5. CASE L2Apply(n, s) \/ L2Fail(n, s)
  <2>1. f = e /\ r = q /\ L[s].st \in UnderWay
    BY <1>5, CallbackFields DEF UnderWay
  <2> HIDE DEF L, M, q, r, e, f
  <2>2. HoldsUnits(f, M, r)
    BY <1>1, <2>1 DEF HoldsUnits
  <2> QED BY <2>2 DEF M, r, f
<1>6. CASE LeaseSettles(n, s)
  <2> DEFINE res == IF L[s].ok THEN "allowed" ELSE "denied"
  <2>1. /\ L[s].st = "replied" /\ M[s].st = "settled" /\ r = Wake(q, s, res)
        /\ f.credits = e.credits + IF L[s].ok THEN L[s].amt ELSE 0
    BY <1>1, <1>3, <1>6, CallbackFields, EntryFields
  <2>2. res # "none" /\ (L[s].ok => res = "allowed")
    OBVIOUS
  <2> HIDE DEF L, M, q, r, e, f, res
  <2>3. \A t \in Slots : M[t].st \notin UnderWay
    BY <1>3, <2>1 DEF UnderWay
  <2>4. CASE L[s].ok
    <3>1. PICK w \in Range(q) : w.slot = s /\ w.res = "none"
      BY <1>1, <1>3, <2>1 DEF WaitsRight, UnderWay
    <3>2. Woken(w, s, res) \in Range(r) /\ Woken(w, s, res).res = "allowed"
      BY <1>1, <1>4, <2>1, <2>2, <2>4, <3>1, WakeRange, WokenFields
    <3>3. HoldsUnits(f, M, r)
      BY <2>3, <3>2 DEF HoldsUnits
    <3> QED BY <3>3 DEF M, r, f
  <2>5. CASE ~L[s].ok
    <3>1. f.credits = 0
      BY <1>1, <2>1, <2>5 DEF HoldsUnits, UnderWay
    <3>2. HoldsUnits(f, M, r)
      BY <2>3, <3>1, UnitCosts DEF HoldsUnits
    <3> QED BY <3>2 DEF M, r, f
  <2> QED BY <2>4, <2>5
<1>7. CASE PendingCleared(n, s) \/ LeaseRejects(n, s)
  <2>1. M[s].st = "free" /\ f.credits = e.credits /\ (r = q \/ r = Wake(q, s, "failed"))
    BY <1>1, <1>7, CallbackFields, EntryFields DEF FreeLease
  <2> HIDE DEF L, M, q, r, e, f
  <2>2. \A t \in Slots : M[t].st \notin UnderWay
    BY <1>3, <2>1 DEF UnderWay
  <2>3. \A w \in Range(q) : w.res = "allowed" => w \in Range(r)
    <3> SUFFICES ASSUME NEW w \in Range(q), w.res = "allowed", r = Wake(q, s, "failed") PROVE w \in Range(r)
      BY <2>1
    <3>1. Woken(w, s, "failed") \in Range(r)
      BY <1>1, WakeRange
    <3> QED BY <3>1 DEF Woken
  <2>4. HoldsUnits(f, M, r)
    BY <1>1, <2>1, <2>2, <2>3 DEF HoldsUnits
  <2> QED BY <2>4 DEF M, r, f
<1>8. CASE RefillSettles(n, s)
  BY <1>3, <1>8, CallbackFields
<1> QED BY <1>5, <1>6, <1>7, <1>8 DEF Callback

\* A step that keeps the promise, or spends the promised unit.
LEMMA SpareFalls ==
  ASSUME IsFiniteSet(Slots), TypeOK, TypeOK', NEW n \in Node, NEW d \in Int, Stock(n)' <= Stock(n) + d,
         Promised(n) => Promised(n)' \/ Stock(n)' <= Stock(n) + d - 1
  PROVE  Spare(n)' <= Spare(n) + d
<1>1. Stock(n) \in Nat /\ Stock(n)' \in Nat
  BY StockNat, StockNatNext
<1>2. /\ Spare(n) = Stock(n) - IF Promised(n) THEN 1 ELSE 0
      /\ Spare(n)' = Stock(n)' - IF Promised(n)' THEN 1 ELSE 0
  BY DEF Spare
<1> QED BY <1>1, <1>2

\* A step of one node that admits a units to requests of the window and is granted g.
LEMMA CarryoverAt ==
  ASSUME IsFiniteSet(Slots), TypeOK, TypeOK', CarryoverInv, NEW n \in Node, OnlyAt(n), now' = now,
         NEW a \in Int, NEW g \in Int, Spare(n)' <= Spare(n) + (g - a),
         prompt'[Window(now)] = prompt[Window(now)] + a, granted'[Window(now)] = granted[Window(now)] + g
  PROVE  CarryoverInv'
<1> DEFINE f == [m \in Node |-> Spare(m)]
           h == [m \in Node |-> Spare(m)']
           B == N * (MaxBatch - 1)
<1>1. \A m \in Node : Spare(m) \in Int /\ Spare(m)' \in Int
  BY StockNat, StockNatNext DEF Spare
<1>2. ASSUME NEW m \in Node, m # n PROVE Spare(m)' = Spare(m)
  BY <1>2 DEF OnlyAt, Spare, Stock, Promised, Window
<1>3. /\ \A m \in Node : f[m] \in Int /\ h[m] \in Int
      /\ \A m \in Node : m # n => f[m] = h[m]
      /\ f[n] = Spare(n) /\ h[n] = Spare(n)'
  BY <1>1, <1>2
<1>4. prompt[Window(now)] + Sum(f, N) <= granted[Window(now)] + B
  BY DEF CarryoverInv
<1>5. prompt[Window(now)] \in Nat /\ granted[Window(now)] \in Nat /\ B \in Int
  BY WindowInRange, LeasedAssumption DEF TypeOK
<1> HIDE DEF f, h, B
<1>6. Sum(f, N) \in Int /\ Sum(h, N) = Sum(f, N) - f[n] + h[n]
  BY <1>3, NodesMove
<1>7. prompt'[Window(now)] + Sum(h, N) <= granted'[Window(now)] + B
  BY <1>1, <1>3, <1>4, <1>5, <1>6
<1> QED BY <1>7 DEF CarryoverInv, h, B, Window

\* The promised unit survives every callback but the failure of the call that brings it.
LEMMA PromiseCallback ==
  ASSUME OneUnitOnDemand, IsFiniteSet(Slots), TypeOK, TypeOK', HoldInv, WaitersInv, NEW n \in Node, NEW s \in Slots,
         Callback(n, s), Promised(n)
  PROVE  Promised(n)' \/ (L2Fail(n, s) /\ Stock(n)' <= Stock(n) - 1)
<1> DEFINE L == lease[n]
           M == lease'[n]
           q == waiting[n]
           r == waiting'[n]
           e == entry[n]
           f == entry'[n]
           v == Window(now)
<1>1. /\ q \in Seq(WaiterType) /\ e \in EntryType /\ L[s] \in LeaseType /\ e.credits \in Nat
      /\ WaitsRight(L, q, e, v) /\ L[s].amt \in Nat
  <2>1. q \in Seq(WaiterType) /\ e \in EntryType /\ L[s] \in LeaseType /\ WaitsRight(L, q, e, v)
    BY DEF TypeOK, WaitersInv
  <2> HIDE DEF L, q, e, v
  <2> QED BY <2>1 DEF EntryType, LeaseType
<1>2. L[s].st # "free" /\ now' = now
  BY CallbackFields, CallbackEffect DEF Callback
<1>3. /\ L[s].kind = "demand" /\ e.live
      /\ \A t \in Slots : t # s => L[t].st = "free" /\ M[t] = L[t] /\ Arriving(L[t]) = 0
  BY <1>2, OneCall, CallbackEffect
<1>4. \A w \in Range(q) : w \in WaiterType /\ w.slot \in Slots
  BY <1>1, WaiterFields
<1>5. /\ q # <<>> /\ q[1].at < v /\ q[1] \in Range(q)
      /\ \/ (\A w \in Range(q) : w.res = "none") /\ \E t \in Slots : Arriving(L[t]) > 0
         \/ q[1].res = "allowed" /\ e.credits >= 1
  <2>1. q # <<>> => 1 \in DOMAIN q
    BY <1>1
  <2> QED BY <2>1 DEF Promised, Range
<1>6. Promised(n)' <=> /\ r # <<>> /\ r[1].at < v
                       /\ \/ (\A w \in Range(r) : w.res = "none") /\ \E t \in Slots : Arriving(M[t]) > 0
                          \/ r[1].res = "allowed" /\ f.credits >= 1
  BY <1>2 DEF Promised, Window
<1>7. CASE q[1].res = "allowed" /\ e.credits >= 1
  <2>1. f.credits >= 1
    <3>1. CASE L2Apply(n, s) \/ L2Fail(n, s)
      BY <1>7, <3>1, CallbackFields
    <3>2. CASE LeaseSettles(n, s)
      BY SMTT(30), <1>1, <1>3, <1>7, <3>2, CallbackFields, EntryFields
    <3>3. CASE PendingCleared(n, s) \/ LeaseRejects(n, s)
      BY <1>1, <1>7, <3>3, CallbackFields, EntryFields
    <3>4. CASE RefillSettles(n, s)
      BY <1>3, <3>4, CallbackFields
    <3> QED BY <3>1, <3>2, <3>3, <3>4 DEF Callback
  <2>2. r = q \/ \E res : r = Wake(q, s, res)
    BY CallbackFields DEF Callback
  <2>3. r # <<>> /\ r[1] = q[1]
    <3>1. \A res : Woken(q[1], s, res) = q[1]
      BY <1>7 DEF Woken
    <3> QED BY <1>1, <1>5, <2>2, <3>1, WakeRange
  <2> HIDE DEF r, q, f, e, v
  <2> QED BY <1>5, <1>6, <1>7, <2>1, <2>3
<1>8. CASE (\A w \in Range(q) : w.res = "none") /\ \E t \in Slots : Arriving(L[t]) > 0
  <2>1. Arriving(L[s]) > 0
    BY <1>3, <1>8
  <2>2. L[s].st = "replied" /\ L[s].ok /\ L[s].amt >= 1
    BY <1>1, <2>1 DEF Arriving
  <2>3. CASE L2Fail(n, s)
    <3>1. Stock(n)' = Stock(n) - Arriving(L[s])
      BY <2>3, CallbackStock DEF Callback
    <3>2. Stock(n) \in Nat /\ Arriving(L[s]) \in Nat
      BY StockNat
    <3> QED BY <2>1, <2>3, <3>1, <3>2
  <2>4. CASE LeaseSettles(n, s)
    <3>1. r = Wake(q, s, "allowed") /\ f.credits = e.credits + L[s].amt
      BY <1>1, <1>3, <2>2, <2>4, CallbackFields, EntryFields
    <3>2. q[1].slot = s
      <4>1. L[q[1].slot].st \in UnderWay /\ q[1].slot \in Slots
        BY <1>1, <1>4, <1>5, <1>8 DEF WaitsRight
      <4> QED BY <1>3, <4>1 DEF UnderWay
    <3>3. Woken(q[1], s, "allowed").at = q[1].at /\ Woken(q[1], s, "allowed").res = "allowed"
      BY <1>4, <1>5, <1>8, <3>2, WokenFields
    <3>4. r # <<>> /\ r[1] = Woken(q[1], s, "allowed")
      BY <1>1, <1>5, <3>1, WakeRange
    <3>5. f.credits >= 1
      BY <1>1, <2>2, <3>1
    <3> HIDE DEF r, q, f, e, v
    <3> QED BY <1>5, <1>6, <3>3, <3>4, <3>5
  <2>5. ~L2Apply(n, s) /\ ~PendingCleared(n, s) /\ ~LeaseRejects(n, s) /\ ~RefillSettles(n, s)
    BY <1>3, <2>2, CallbackFields
  <2> QED BY <2>3, <2>4, <2>5 DEF Callback
<1> QED BY <1>5, <1>7, <1>8

\* The callbacks of a node take the bound no further than L2 does.
LEMMA CarryoverCallback ==
  ASSUME OneUnitOnDemand, IsFiniteSet(Slots), TypeOK, TypeOK', HoldInv, WaitersInv, CarryoverInv,
         NEW n \in Node, NEW s \in Slots, Callback(n, s)
  PROVE  CarryoverInv'
<1> DEFINE c == lease[n][s]
           g == IF L2Apply(n, s) /\ Fits(l2, DecisionTime(c), c.amt) THEN c.amt ELSE 0
<1>1. OnlyAt(n) /\ now' = now /\ prompt' = prompt
  BY CallbackEffect DEF OnlyAt
<1>2. c.amt \in Nat /\ g \in Int /\ Window(now) \in Windows
  <2>1. c \in LeaseType
    BY DEF TypeOK
  <2>2. c.amt \in Nat
    BY <2>1 DEF LeaseType
  <2>3. g = c.amt \/ g = 0
    OBVIOUS
  <2>4. Window(now) \in Windows
    BY WindowInRange DEF TypeOK
  <2> HIDE DEF c, g
  <2> QED BY <2>2, <2>3, <2>4
<1>3. granted'[Window(now)] = granted[Window(now)] + g /\ prompt'[Window(now)] = prompt[Window(now)] + 0
  <2>1. granted \in [Windows -> Nat] /\ prompt \in [Windows -> Nat]
    BY DEF TypeOK
  <2>2. CASE L2Apply(n, s)
    <3>1. DecisionTime(c) = now
      BY DEF DecisionTime, OneUnitOnDemand
    <3>2. granted' = [granted EXCEPT ![Window(DecisionTime(c))] = @ + IF Fits(l2, DecisionTime(c), c.amt) THEN c.amt ELSE 0]
      BY <2>2 DEF L2Apply
    <3> HIDE DEF c
    <3> QED BY <1>1, <1>2, <2>1, <2>2, <3>1, <3>2
  <2>3. CASE ~L2Apply(n, s)
    <3>1. granted' = granted
      BY <2>3 DEF Callback, L2Fail, LeaseSettles, PendingCleared, LeaseRejects, RefillSettles
    <3> QED BY <1>1, <1>2, <2>1, <2>3, <3>1
  <2> QED BY <2>2, <2>3
<1>4. Stock(n)' <= Stock(n) + g
  <2>1. CASE L2Apply(n, s)
    BY <1>2, <2>1, CallbackStock, StockNat, StockNatNext
  <2>2. CASE ~L2Apply(n, s)
    BY <2>2, CallbackStock, StockNat, StockNatNext
  <2> QED BY <2>1, <2>2
<1>5. Promised(n) => Promised(n)' \/ Stock(n)' <= Stock(n) + g - 1
  <2>1. L2Fail(n, s) => ~L2Apply(n, s)
    BY CallbackFields
  <2>2. L2Fail(n, s) => g = 0
    BY <2>1
  <2>3. Promised(n) => Promised(n)' \/ (L2Fail(n, s) /\ Stock(n)' <= Stock(n) - 1)
    BY PromiseCallback
  <2> HIDE DEF g
  <2> QED BY <2>2, <2>3, StockNat
<1> HIDE DEF c, g
<1>6. Spare(n)' <= Spare(n) + g
  BY <1>2, <1>4, <1>5, SpareFalls
<1>7. Spare(n)' <= Spare(n) + (g - 0)
  BY <1>2, <1>6
<1> QED BY <1>1, <1>2, <1>3, <1>7, CarryoverAt

\* A check that is served, or awaits a lease, spends no unit that is promised to another.
LEMMA CarryoverCheck ==
  ASSUME OneUnitOnDemand, IsFiniteSet(Slots), TypeOK, TypeOK', UnitInv, CarryoverInv,
         NEW n \in Node, NEW r \in Reqs, NEW c \in Costs, Check(n, r, c)
  PROVE  CarryoverInv'
<1> DEFINE e == Unexpired(EntryFor(n))
           v == Window(now)
<1>1. e \in EntryType /\ e.credits <= entry[n].credits
  <2>1. /\ e \in EntryType /\ EntryFor(n) \in EntryType /\ entry[n] \in EntryType
        /\ e.credits <= EntryFor(n).credits /\ EntryFor(n).credits <= entry[n].credits
    BY EntryForCredits DEF TypeOK
  <2>2. e.credits \in Nat /\ EntryFor(n).credits \in Nat /\ entry[n].credits \in Nat
    BY <2>1 DEF EntryType
  <2> HIDE DEF e
  <2> QED BY <2>1, <2>2
<1>2. /\ \/ Serve(n, e, c, v) /\ waiting' = waiting
         \/ AwaitLease(n, e, r, c, v, waiting[n])
      /\ Quiet(n) /\ now' = now /\ granted' = granted
  BY DEF Check
<1>3. v \in Windows /\ granted \in [Windows -> Nat] /\ prompt \in [Windows -> Nat] /\ waiting[n] \in Seq(WaiterType)
  BY WindowInRange DEF TypeOK
<1>4. Promised(n) => /\ \A w \in Range(waiting[n]) : w.res = "none"
                     /\ \E s \in Slots : Arriving(lease[n][s]) > 0
                     /\ waiting[n] # <<>> /\ waiting[n][1].at < v
  <2>1. \A w \in Range(waiting[n]) : w.res = "none"
    BY <1>2 DEF Quiet, Range
  <2>2. waiting[n] # <<>> => waiting[n][1] \in Range(waiting[n])
    BY <1>3 DEF Range
  <2>3. Promised(n) => waiting[n][1].res # "allowed"
    BY <2>1, <2>2 DEF Promised
  <2> QED BY <2>1, <2>3 DEF Promised
<1> HIDE DEF e
<1>5. CASE Serve(n, e, c, v) /\ waiting' = waiting
  <2>1. c = 1 /\ e.credits >= c
    BY <1>1, <1>5, ServeEffect, UnitCosts
  <2>2. ~Promised(n)
    <3>1. \A s \in Slots : Arriving(lease[n][s]) > 0 => entry[n].credits = 0
      BY DEF UnitInv, HoldsUnits, Arriving, UnderWay
    <3>2. entry[n].credits >= 1
      BY <1>1, <2>1, StockNat DEF EntryType
    <3> QED BY <1>4, <3>1, <3>2
  <2>3. Stock(n)' <= Stock(n) - 1
    BY <1>1, <1>5, <2>1, ServeStock
  <2>4. Spare(n)' <= Spare(n) + (-1)
    <3>1. Stock(n)' <= Stock(n) + (-1) /\ -1 \in Int
      BY <2>3, StockNat, StockNatNext
    <3> QED BY <2>2, <3>1, SpareFalls
  <2>5. prompt'[v] = prompt[v] + 1 /\ granted'[v] = granted[v] + 0
    <3>1. prompt' = [prompt EXCEPT ![v] = @ + 1]
      BY <1>5, <2>1 DEF Serve
    <3> QED BY <1>2, <1>3, <3>1
  <2>6. OnlyAt(n)
    BY <1>1, <1>5, ServeEffect DEF OnlyAt
  <2>7. Spare(n)' <= Spare(n) + (0 - 1)
    BY <2>4
  <2> QED BY <1>2, <2>5, <2>6, <2>7, CarryoverAt
<1>6. CASE AwaitLease(n, e, r, c, v, waiting[n])
  <2>1. Stock(n)' <= Stock(n) + 0 /\ prompt' = prompt
    BY <1>1, <1>6, AwaitStock, AwaitEffect, StockNat
  <2>2. OnlyAt(n)
    <3>1. \A m \in Node : m # n => waiting'[m] = waiting[m]
      BY <1>6 DEF AwaitLease, TypeOK
    <3> QED BY <1>1, <1>6, <3>1, AwaitEffect DEF OnlyAt
  <2>3. ASSUME Promised(n) PROVE Promised(n)'
    <3>1. PICK x \in WaiterType :
            /\ waiting'[n] = Append(waiting[n], x)
            /\ \/ lease'[n] = lease[n] /\ Joins(e) /\ x.res = ResultOf(lease[n][e.pending])
               \/ /\ lease[n][x.slot].st = "free" /\ x.res = "none"
                  /\ \A t \in Slots : t # x.slot => lease'[n][t] = lease[n][t]
      BY SMTT(60), <1>1, <1>3, <1>6, AwaitQueue
    <3>2. x.res = "none"
      <4>1. Joins(e) => e.pending \in Slots
        BY <1>1 DEF Joins, EntryType
      <4> QED BY <1>2, <3>1, <4>1 DEF Quiet, ResultOf
    <3>3. \E s \in Slots : Arriving(lease'[n][s]) > 0
      <4>1. PICK s \in Slots : Arriving(lease[n][s]) > 0
        BY <1>4, <2>3
      <4>2. lease[n][s].st # "free"
        BY <4>1 DEF Arriving
      <4>3. lease'[n][s] = lease[n][s]
        BY <3>1, <4>2
      <4> QED BY <4>1, <4>3
    <3>4. Range(waiting'[n]) = Range(waiting[n]) \cup {x} /\ waiting'[n][1] = waiting[n][1] /\ waiting'[n] # <<>>
      BY <1>3, <1>4, <2>3, <3>1, AppendRange
    <3> QED BY <1>2, <1>4, <2>3, <3>2, <3>3, <3>4 DEF Promised, Window
  <2>4. Spare(n)' <= Spare(n) + 0
    BY <2>1, <2>3, SpareFalls
  <2>5. prompt'[v] = prompt[v] + 0 /\ granted'[v] = granted[v] + 0
    BY <1>2, <1>3, <2>1
  <2>6. Spare(n)' <= Spare(n) + (0 - 0)
    BY <2>4
  <2> QED BY <1>2, <2>2, <2>5, <2>6, CarryoverAt
<1> QED BY <1>2, <1>5, <1>6

\* A check that continues spends the promised unit, if it is the one it was promised to, and
\* otherwise none is promised.
LEMMA CarryoverResume ==
  ASSUME OneUnitOnDemand, IsFiniteSet(Slots), TypeOK, TypeOK', CarryoverInv,
         NEW n \in Node, NEW i \in DOMAIN waiting[n], Resume(n, i)
  PROVE  CarryoverInv'
<1> DEFINE w == waiting[n][i]
           e == EntryFor(n)
           q == Without(waiting[n], i)
           v == Window(now)
<1>1. /\ e \in EntryType /\ e.credits <= entry[n].credits /\ now' = now /\ granted' = granted
      /\ w.res # "none"
  BY EntryForCredits DEF Resume
<1>2. w \in WaiterType /\ w.cost \in Costs /\ w.at \in Windows /\ w.cost = 1 /\ w.at \in Int /\ v \in Int
  <2>1. w \in WaiterType
    BY DEF TypeOK
  <2>2. v \in Windows
    BY WindowInRange DEF TypeOK
  <2> HIDE DEF w
  <2> QED BY <2>1, <2>2, UnitCosts DEF WaiterType, Windows
<1>3. v \in Windows /\ granted \in [Windows -> Nat] /\ prompt \in [Windows -> Nat]
  BY WindowInRange DEF TypeOK
<1>4. Promised(n) => i = 1 /\ w.res = "allowed" /\ w.at < v /\ entry[n].credits >= 1
  <2> SUFFICES ASSUME Promised(n)
               PROVE  i = 1 /\ w.res = "allowed" /\ w.at < v /\ entry[n].credits >= 1
    OBVIOUS
  <2>1. w \in Range(waiting[n])
    BY DEF Range
  <2>2. waiting[n][1].res = "allowed" /\ entry[n].credits >= 1
    BY <1>1, <2>1 DEF Promised
  <2>3. i = 1
    <3>1. i \in Nat /\ i >= 1 /\ \A j \in 1..(i - 1) : waiting[n][j].res = "none"
      BY DEF Resume, TypeOK
    <3>2. i > 1 => 1 \in 1..(i - 1)
      BY <3>1
    <3> QED BY <2>2, <3>1, <3>2
  <2>4. w.at < v
    BY <2>3 DEF Promised
  <2> QED BY <2>2, <2>3, <2>4
<1>5. OnlyAt(n) /\ prompt'[v] \in Nat /\ UNCHANGED now
      /\ \/ w.res # "allowed" /\ prompt' = prompt /\ Stock(n)' <= Stock(n)
         \/ Stock(n)' <= Stock(n) - 1 /\ prompt'[v] = prompt[v] + IF w.at = v THEN 1 ELSE 0
         \/ prompt' = prompt /\ Stock(n)' <= Stock(n) /\ (entry[n].credits >= 1 => Stock(n)' <= Stock(n) - 1)
  <2>1. \/ /\ w.res # "allowed" /\ waiting' = [waiting EXCEPT ![n] = q] /\ UNCHANGED <<lease, prompt>>
           /\ entry' = entry \/ entry' = [entry EXCEPT ![n] = e]
        \/ Serve(n, e, w.cost, w.at) /\ waiting' = [waiting EXCEPT ![n] = q]
        \/ AwaitLease(n, e, w.req, w.cost, w.at, q)
    BY DEF Resume
  <2>2. prompt'[v] \in Nat
    BY <1>3 DEF TypeOK
  <2>3. Stock(n) \in Nat /\ Stock(n)' \in Nat /\ entry[n].credits \in Nat /\ e.credits \in Nat
    BY <1>1, StockNat, StockNatNext DEF EntryType
  <2> HIDE DEF e, w, q, v
  <2>4. CASE /\ w.res # "allowed" /\ waiting' = [waiting EXCEPT ![n] = q] /\ UNCHANGED <<lease, prompt>>
             /\ entry' = entry \/ entry' = [entry EXCEPT ![n] = e]
    <3>1. OnlyAt(n) /\ lease'[n] = lease[n] /\ (entry'[n] = entry[n] \/ entry'[n] = e)
      BY <2>4 DEF OnlyAt, TypeOK
    <3>2. Stock(n)' = Stock(n) - entry[n].credits + entry'[n].credits
      BY <3>1, StockSpent
    <3>3. Stock(n)' <= Stock(n)
      BY <1>1, <2>3, <3>1, <3>2
    <3> QED BY <1>1, <2>2, <2>4, <3>1, <3>3
  <2>5. CASE Serve(n, e, w.cost, w.at) /\ waiting' = [waiting EXCEPT ![n] = q]
    <3>1. OnlyAt(n)
      <4>1. \A m \in Node : m # n => waiting'[m] = waiting[m]
        BY <2>5 DEF TypeOK
      <4> QED BY <1>1, <1>2, <2>5, <4>1, ServeEffect DEF OnlyAt
    <3>2. Stock(n)' <= Stock(n) - 1
      BY <1>1, <1>2, <2>5, ServeStock
    <3>3. prompt'[v] = prompt[v] + IF w.at = v THEN 1 ELSE 0
      BY <1>2, <1>3, <2>5 DEF Serve, v
    <3> QED BY <1>1, <2>2, <3>1, <3>2, <3>3
  <2>6. CASE AwaitLease(n, e, w.req, w.cost, w.at, q)
    <3>1. OnlyAt(n)
      <4>1. \A m \in Node : m # n => waiting'[m] = waiting[m]
        BY ZenonT(60), <2>6 DEF AwaitLease, TypeOK
      <4> QED BY <1>1, <2>6, <4>1, AwaitEffect DEF OnlyAt
    <3>2. Stock(n)' = Stock(n) - entry[n].credits + e.credits /\ Stock(n)' <= Stock(n)
      BY <1>1, <2>6, AwaitStock
    <3>3. e.credits = 0 /\ prompt' = prompt
      BY <1>2, <2>3, <2>6 DEF AwaitLease, Covers
    <3>4. entry[n].credits >= 1 => Stock(n)' <= Stock(n) - 1
      BY <2>3, <3>2, <3>3
    <3> QED BY <1>1, <2>2, <3>1, <3>2, <3>3, <3>4
  <2> QED BY <2>1, <2>4, <2>5, <2>6
<1> DEFINE a == prompt'[v] - prompt[v]
<1>6. prompt[v] \in Nat /\ a \in Int /\ prompt'[v] = prompt[v] + a
  <2>1. prompt[v] \in Nat /\ prompt'[v] \in Nat
    BY <1>3, <1>5
  <2> HIDE DEF v
  <2> QED BY <2>1
<1>7. Spare(n)' <= Spare(n) + (0 - a)
  <2>1. Stock(n) \in Nat /\ Stock(n)' \in Nat
    BY StockNat, StockNatNext
  <2>2. Stock(n)' <= Stock(n) + (0 - a) /\ (Promised(n) => Stock(n)' <= Stock(n) + (0 - a) - 1)
    <3>1. \/ Stock(n)' <= Stock(n) /\ a = 0 /\ (w.res = "allowed" /\ entry[n].credits >= 1 => Stock(n)' <= Stock(n) - 1)
          \/ Stock(n)' <= Stock(n) - 1 /\ a = IF w.at = v THEN 1 ELSE 0
      <4> HIDE DEF w, e, q, v, a
      <4> QED BY <1>5, <1>6
    <3>2. Promised(n) => w.res = "allowed" /\ entry[n].credits >= 1 /\ w.at # v
      <4> HIDE DEF w, e, q, v, a
      <4> QED BY <1>2, <1>4
    <3> HIDE DEF w, e, q, v, a
    <3> QED BY <1>6, <2>1, <3>1, <3>2
  <2>3. 0 - a \in Int
    BY <1>6
  <2> HIDE DEF a, w, e, q, v
  <2> QED BY <2>2, <2>3, SpareFalls
<1>8. granted'[v] = granted[v] + 0 /\ 0 \in Int
  BY <1>1, <1>3
<1> HIDE DEF a
<1> QED BY <1>1, <1>5, <1>6, <1>7, <1>8, CarryoverAt

\* When a window ends, a node keeps a batch at most, and the last unit of a batch that is
\* still on its way is promised to the check that leased it.
LEMMA CarriedOver ==
  ASSUME OneUnitOnDemand, IsFiniteSet(Slots), TypeOK, TypeOK', HoldInv, WaitersInv, UnitInv, NEW n \in Node,
         Tick, Window(now') # Window(now)
  PROVE  Spare(n)' <= MaxBatch - 1
<1> DEFINE q == waiting[n]
           e == entry[n]
           L == lease[n]
<1>1. UNCHANGED <<entry, lease, waiting>> /\ Quiet(n)
  BY DEF Tick
<1>2. /\ q \in Seq(WaiterType) /\ e.credits \in Nat /\ HoldsUnits(e, L, q) /\ WaitsRight(L, q, e, Window(now))
      /\ Held(e, L) /\ (\A s \in Slots : L[s] \in LeaseType) /\ HoldMax = MaxBatch /\ MaxBatch \in Nat /\ MaxBatch >= 1
  BY SMTT(60), StockNat, UnitCosts DEF TypeOK, UnitInv, WaitersInv, HoldInv
<1>3. (\A w \in Range(q) : w.res = "none") /\ \A s \in Slots : L[s].st # "settled"
  BY <1>1 DEF Quiet, Range
<1>4. Stock(n)' = Stock(n) /\ Stock(n) \in Nat
  BY <1>1, StockNat DEF Stock
<1>5. Spare(n)' = Stock(n) - IF Promised(n)' THEN 1 ELSE 0
  BY <1>4 DEF Spare
<1>6. Window(now) \in Int /\ Window(now') \in Int /\ Window(now) < Window(now')
  <2>1. now \in Nat /\ now' \in Nat /\ now <= now'
    BY LeasedAssumption DEF TypeOK, Tick
  <2> QED BY <2>1, WindowNat, WindowMonotone
<1>7. CASE \E s \in Slots : Arriving(L[s]) > 0
  <2>1. PICK s \in Slots : Arriving(L[s]) > 0
    BY <1>7
  <2>2. L[s].st = "replied" /\ L[s].amt \in Nat /\ Arriving(L[s]) <= L[s].amt
    BY <1>2, <2>1 DEF Arriving, LeaseType
  <2>3. L[s].kind = "demand" /\ \A t \in Slots : t # s => Arriving(L[t]) = 0
    BY <2>2, OneCall
  <2>4. e.credits = 0 /\ L[s].amt <= MaxBatch
    BY <1>2, <2>2 DEF HoldsUnits, Held, UnderWay
  <2>5. Stock(n) = Arriving(L[s])
    BY <2>3, <2>4, StockOfOne, StockNat
  <2>6. q # <<>> /\ q[1].at < Window(now')
    <3>1. PICK w \in Range(q) : w.slot = s /\ w.res = "none"
      BY <1>2, <2>2, <2>3 DEF WaitsRight, UnderWay
    <3>2. q # <<>>
      BY <3>1 DEF Range
    <3>3. q[1] \in Range(q)
      BY <1>2, <3>2 DEF Range
    <3>4. q[1].at <= Window(now) /\ q[1].at \in Int
      BY <1>2, <3>3, WaiterFields DEF WaitsRight
    <3> QED BY <1>6, <3>2, <3>4
  <2>7. Promised(n)'
    BY <1>1, <1>3, <2>1, <2>6 DEF Promised, Window
  <2> QED BY <1>2, <1>4, <1>5, <2>2, <2>4, <2>5, <2>7
<1>8. CASE ~\E s \in Slots : Arriving(L[s]) > 0
  <2>1. e.credits <= MaxBatch - 1
    BY <1>2, <1>3 DEF HoldsUnits
  <2>2. Stock(n) = e.credits
    <3> DEFINE f == [s \in Slots |-> Arriving(lease[n][s])]
    <3>1. DOMAIN f = Slots /\ \A s \in Slots : f[s] = 0
      BY <1>8, StockNat
    <3>2. Stock(n) = e.credits + SumFunction(f)
      BY DEF Stock
    <3> HIDE DEF f
    <3>3. SumFunction(f) = 0
      BY <3>1, SetSumZero, SumIsOverDomain
    <3> QED BY <1>2, <3>2, <3>3
  <2> QED BY <1>2, <1>4, <1>5, <2>1, <2>2
<1> QED BY <1>7, <1>8

\* Time: within a window nothing changes, and a new one begins with what is carried over.
LEMMA CarryoverTick ==
  ASSUME OneUnitOnDemand, IsFiniteSet(Slots), TypeOK, TypeOK', HoldInv, WaitersInv, UnitInv, CarryoverInv,
         PastWithin(Limit + N * (MaxBatch - 1)), Tick
  PROVE  CarryoverInv'
<1>1. UNCHANGED <<entry, lease, waiting, granted, prompt>>
  BY DEF Tick
<1>2. CASE Window(now') = Window(now)
  <2>1. \A n \in Node : Spare(n)' = Spare(n)
    BY <1>1, <1>2 DEF Spare, Stock, Promised, Window
  <2>2. [n \in Node |-> Spare(n)]' = [n \in Node |-> Spare(n)]
    BY <2>1
  <2> QED BY <1>1, <1>2, <2>2 DEF CarryoverInv, Window
<1>3. CASE Window(now') # Window(now)
  <2> DEFINE f == [n \in Node |-> Spare(n)']
             k == [n \in Node |-> MaxBatch - 1]
  <2>1. N \in Nat /\ MaxBatch - 1 \in Int
    BY LeasedAssumption
  <2>2. \A n \in 1..N : f[n] \in Int /\ k[n] \in Int /\ f[n] <= k[n] /\ k[n] = MaxBatch - 1
    <3> TAKE n \in 1..N
    <3>1. n \in Node
      BY DEF Node
    <3>2. Spare(n)' \in Int /\ Spare(n)' <= MaxBatch - 1
      BY <1>3, <3>1, StockNatNext, CarriedOver DEF Spare
    <3> QED BY <2>1, <3>1, <3>2
  <2> HIDE DEF f, k
  <2>3. Sum(f, N) <= Sum(k, N) /\ Sum(k, N) = N * (MaxBatch - 1) /\ Sum(f, N) \in Int
    BY ONLY <2>1, <2>2, SumMonotone, SumConstant, SumInt
  <2>4. prompt'[Window(now')] = 0 /\ granted'[Window(now')] \in Nat
    <3>1. now' \in 0..MaxTime /\ now \in Nat /\ now' \in Nat /\ now <= now'
      BY LeasedAssumption DEF TypeOK, Tick
    <3>2. Window(now') \in Windows /\ Window(now) < Window(now')
      BY <1>3, <3>1, WindowInRange, WindowNat, WindowMonotone
    <3> QED BY <1>1, <3>2 DEF PastWithin, TypeOK
  <2>5. N * (MaxBatch - 1) \in Int
    BY <2>1
  <2>6. prompt'[Window(now')] + Sum(f, N) <= granted'[Window(now')] + N * (MaxBatch - 1)
    BY <2>3, <2>4, <2>5
  <2> QED BY <2>6 DEF CarryoverInv, f, Window
<1> QED BY <1>2, <1>3

\* Every step keeps the units and the sum.
LEMMA CarryoverStep ==
  ASSUME OneUnitOnDemand, IsFiniteSet(Slots)
  PROVE  /\ TypeOK /\ TypeOK' /\ HoldInv /\ WaitersInv /\ UnitInv /\ CarryoverInv
         /\ PastWithin(Limit + N * (MaxBatch - 1)) /\ [Next]_vars
         => UnitInv' /\ CarryoverInv'
<1> SUFFICES ASSUME TypeOK, TypeOK', HoldInv, WaitersInv, UnitInv, CarryoverInv,
                    PastWithin(Limit + N * (MaxBatch - 1)), [Next]_vars
             PROVE  UnitInv' /\ CarryoverInv'
  OBVIOUS
<1>1. ASSUME NEW n \in Node, OnlyAt(n), HoldsUnits(entry'[n], lease'[n], waiting'[n]) PROVE UnitInv'
  BY <1>1 DEF UnitInv, OnlyAt
<1>2. ASSUME NEW n \in Node, NEW r \in Reqs, NEW c \in Costs, Check(n, r, c) PROVE UnitInv' /\ CarryoverInv'
  <2> DEFINE e == Unexpired(EntryFor(n))
             v == Window(now)
  <2>1. e \in EntryType /\ e.credits <= entry[n].credits
    <3>1. /\ e \in EntryType /\ EntryFor(n) \in EntryType /\ entry[n] \in EntryType
          /\ e.credits <= EntryFor(n).credits /\ EntryFor(n).credits <= entry[n].credits
      BY EntryForCredits DEF TypeOK
    <3>2. e.credits \in Nat /\ EntryFor(n).credits \in Nat /\ entry[n].credits \in Nat
      BY <3>1 DEF EntryType
    <3> HIDE DEF e
    <3> QED BY <3>1, <3>2
  <2>2. \/ Serve(n, e, c, v) /\ waiting' = waiting
        \/ AwaitLease(n, e, r, c, v, waiting[n])
    BY <1>2 DEF Check
  <2> HIDE DEF e, v
  <2>3. OnlyAt(n)
    <3>1. \A m \in Node : m # n => waiting'[m] = waiting[m]
      BY <2>2 DEF AwaitLease, TypeOK
    <3> QED BY <2>1, <2>2, <3>1, ServeEffect, AwaitEffect DEF OnlyAt
  <2>4. HoldsUnits(entry'[n], lease'[n], waiting'[n])
    BY <2>1, <2>2, UnitServe, UnitAwait
  <2> QED BY <1>1, <1>2, <2>3, <2>4, CarryoverCheck
<1>3. ASSUME NEW n \in Node, NEW i \in DOMAIN waiting[n], Resume(n, i) PROVE UnitInv' /\ CarryoverInv'
  <2> DEFINE w == waiting[n][i]
             e == EntryFor(n)
             q == Without(waiting[n], i)
  <2>1. e \in EntryType /\ e.credits <= entry[n].credits /\ waiting[n] \in Seq(WaiterType)
    BY EntryForCredits DEF TypeOK
  <2>2. w.cost \in Costs
    <3>1. w \in WaiterType
      BY DEF TypeOK
    <3> HIDE DEF w
    <3> QED BY <3>1 DEF WaiterType
  <2>3. \/ /\ w.res # "allowed" /\ waiting' = [waiting EXCEPT ![n] = q] /\ UNCHANGED lease
           /\ entry' = entry \/ entry' = [entry EXCEPT ![n] = e]
        \/ Serve(n, e, w.cost, w.at) /\ waiting' = [waiting EXCEPT ![n] = q]
        \/ AwaitLease(n, e, w.req, w.cost, w.at, q)
    BY <1>3 DEF Resume
  <2>4. \A x \in Range(waiting[n]) : x # w => x \in Range(q)
    BY <2>1, WithoutRange
  <2> HIDE DEF w, e, q
  <2>5. OnlyAt(n) /\ HoldsUnits(entry'[n], lease'[n], waiting'[n])
    <3>1. CASE /\ w.res # "allowed" /\ waiting' = [waiting EXCEPT ![n] = q] /\ UNCHANGED lease
               /\ entry' = entry \/ entry' = [entry EXCEPT ![n] = e]
      <4>1. /\ OnlyAt(n) /\ lease'[n] = lease[n] /\ waiting'[n] = q
            /\ entry'[n] = entry[n] \/ entry'[n] = e
        BY <3>1 DEF OnlyAt, TypeOK
      <4>2. \A x \in Range(waiting[n]) : x.res = "allowed" => x \in Range(q)
        BY <2>4, <3>1
      <4>3. entry'[n].credits \in Nat /\ entry[n].credits \in Nat /\ entry'[n].credits <= entry[n].credits /\ MaxBatch \in Nat
        BY <2>1, <4>1, StockNat, StockNatNext, LeasedAssumption
      <4>4. HoldsUnits(entry[n], lease[n], waiting[n])
        BY DEF UnitInv
      <4>5. \A s \in Slots : lease'[n][s].st \in UnderWay => entry'[n].credits = 0
        BY <4>1, <4>3, <4>4 DEF HoldsUnits
      <4>6. entry'[n].credits <= MaxBatch - 1 \/ \E x \in Range(q) : x.res = "allowed"
        BY <4>2, <4>3, <4>4 DEF HoldsUnits
      <4> QED BY <4>1, <4>5, <4>6 DEF HoldsUnits
    <3>2. CASE Serve(n, e, w.cost, w.at) /\ waiting' = [waiting EXCEPT ![n] = q]
      <4>1. \A m \in Node : m # n => waiting'[m] = waiting[m]
        BY <3>2 DEF TypeOK
      <4> QED BY <2>1, <2>2, <3>2, <4>1, ServeEffect, UnitServe DEF OnlyAt
    <3>3. CASE AwaitLease(n, e, w.req, w.cost, w.at, q)
      <4>1. \A m \in Node : m # n => waiting'[m] = waiting[m]
        BY <3>3 DEF AwaitLease, TypeOK
      <4> QED BY <2>1, <2>2, <3>3, <4>1, AwaitEffect, UnitAwait DEF OnlyAt
    <3> QED BY <2>3, <3>1, <3>2, <3>3
  <2> QED BY <1>1, <1>3, <2>5, CarryoverResume
<1>4. ASSUME NEW n \in Node, NEW s \in Slots, Callback(n, s) PROVE UnitInv' /\ CarryoverInv'
  <2>1. OnlyAt(n)
    BY <1>4, CallbackEffect DEF OnlyAt
  <2> QED BY <1>1, <1>4, <2>1, UnitCallback, CarryoverCallback
<1>5. ~\E n \in Node : Evict(n) \/ Reset(n)
  BY DEF Evict, Reset, TypeOK, OneUnitOnDemand, OnDemandOnly
<1>6. CASE UNCHANGED <<now, entry, lease, waiting, granted, prompt>>
  BY <1>6 DEF UnitInv, CarryoverInv, Spare, Stock, Promised, Window
<1>7. CASE Tick
  <2>1. UNCHANGED <<entry, lease, waiting>>
    BY <1>7 DEF Tick
  <2> QED BY <1>7, <2>1, CarryoverTick DEF UnitInv
<1>8. L2Reset \/ UNCHANGED vars => UNCHANGED <<now, entry, lease, waiting, granted, prompt>>
  BY DEF L2Reset, vars
<1> QED BY <1>2, <1>3, <1>4, <1>5, <1>6, <1>7, <1>8 DEF Next

\* Nothing is stocked, promised or admitted in the initial state.
LEMMA CarryoverInit ==
  ASSUME OneUnitOnDemand, IsFiniteSet(Slots), Init
  PROVE  UnitInv /\ CarryoverInv /\ PastWithin(Limit + N * (MaxBatch - 1))
<1>1. TypeOK
  BY TypeInit
<1>2. MaxBatch \in Nat /\ MaxBatch >= 1 /\ N \in Nat /\ Limit \in Nat
  BY UnitCosts, LeasedAssumption
<1>3. N * (MaxBatch - 1) \in Nat
  BY <1>2
<1>4. \A n \in Node : /\ entry[n].credits = 0 /\ waiting[n] = <<>>
                      /\ \A s \in Slots : Arriving(lease[n][s]) = 0 /\ lease[n][s].st = "free"
  BY DEF Init, NoEntry, FreshEntry, FreeLease, Arriving
<1>5. UnitInv
  BY <1>2, <1>4 DEF UnitInv, HoldsUnits, UnderWay
<1>6. \A n \in Node : Spare(n) = 0
  <2> TAKE n \in Node
  <2> DEFINE f == [s \in Slots |-> Arriving(lease[n][s])]
  <2>1. DOMAIN f = Slots /\ \A s \in Slots : f[s] = 0
    BY <1>4
  <2>2. SumFunction(f) = 0
    BY <2>1, SetSumZero, SumIsOverDomain
  <2>3. ~Promised(n)
    BY <1>4 DEF Promised
  <2> QED BY <1>4, <2>2, <2>3 DEF Spare, Stock
<1>7. Sum([n \in Node |-> Spare(n)], N) = 0
  <2>1. \A n \in 1..N : [m \in Node |-> Spare(m)][n] = 0
    BY <1>6 DEF Node
  <2> QED BY ONLY <1>2, <2>1, SumZero
<1>8. \A w \in Windows : prompt[w] = 0 /\ granted[w] = 0
  BY DEF Init
<1>9. Window(now) \in Windows
  BY <1>1, WindowInRange DEF TypeOK
<1>10. CarryoverInv
  BY <1>3, <1>7, <1>8, <1>9 DEF CarryoverInv
<1>11. PastWithin(Limit + N * (MaxBatch - 1))
  BY <1>2, <1>3, <1>8 DEF PastWithin
<1> QED BY <1>5, <1>10, <1>11

\* docs/FORMAL-MODEL.md, for a fleet that leases on demand, costs of 1 and a store that decides
\* at its own clock: the requests that arrive in a window and are admitted in it are at most
\* Limit + N * (Batch - 1), and not N * Batch, whatever leases straddle the boundary.
THEOREM CarryoverBounded ==
  ASSUME OneUnitOnDemand, IsFiniteSet(Slots)
  PROVE  Spec => []CarryoverBound
<1> DEFINE b == Limit + N * (MaxBatch - 1)
           Inv == /\ HoldInv /\ BudgetInv /\ WaitersInv /\ resets.issued = 0
                  /\ UnitInv /\ CarryoverInv /\ PastWithin(b)
<1>1. OnDemandOnly /\ ServerTime = TRUE /\ MaxResets = 0
  BY DEF OneUnitOnDemand, OnDemandOnly
<1>2. Init => TypeOK /\ Inv
  BY <1>1, TypeInit, HoldInit, BudgetInit, WaitersInit, NoResets, CarryoverInit
<1>3. ASSUME TypeOK, Inv PROVE prompt[Window(now)] <= b
  <2> DEFINE f == [n \in Node |-> Spare(n)]
  <2>1. N \in Nat /\ \A n \in 1..N : f[n] \in Nat
    BY <1>3, SpareNat, LeasedAssumption DEF Node
  <2> HIDE DEF f
  <2>2. Sum(f, N) \in Nat
    BY ONLY <2>1, SumNat
  <2>3. prompt[Window(now)] + Sum(f, N) <= granted[Window(now)] + N * (MaxBatch - 1)
    BY <1>3 DEF CarryoverInv, f
  <2>4. prompt[Window(now)] \in Nat /\ granted[Window(now)] \in Nat /\ granted[Window(now)] <= Limit
    <3>1. Window(now) \in Windows
      BY <1>3, WindowInRange DEF TypeOK
    <3> QED BY <1>3, <3>1, GrantedWithinLimit DEF TypeOK
  <2>5. N * (MaxBatch - 1) \in Int /\ Limit \in Nat
    BY LeasedAssumption
  <2> QED BY <2>2, <2>3, <2>4, <2>5
<1>4. TypeOK /\ Inv => CarryoverBound
  <2> SUFFICES ASSUME TypeOK, Inv, NEW w \in Windows PROVE prompt[w] <= b
    BY DEF CarryoverBound
  <2>1. Window(now) \in Int /\ w \in Int
    BY WindowInRange DEF TypeOK, Windows
  <2>2. b \in Int /\ b >= 0
    <3>1. N * (MaxBatch - 1) \in Nat
      BY UnitCosts, LeasedAssumption
    <3> QED BY <3>1, LeasedAssumption
  <2> HIDE DEF b
  <2>3. CASE w = Window(now)
    BY <1>3, <2>3
  <2>4. CASE w # Window(now)
    BY <2>1, <2>2, <2>4 DEF PastWithin
  <2> QED BY <2>3, <2>4
<1>5. TypeOK /\ TypeOK' /\ Inv /\ [Next]_vars => Inv'
  <2> SUFFICES ASSUME TypeOK, TypeOK', Inv, [Next]_vars PROVE Inv'
    OBVIOUS
  <2>1. HoldInv' /\ BudgetInv' /\ WaitersInv' /\ resets'.issued = 0
    BY <1>1, HoldStep, BudgetStep, WaitersStep, NoResets
  <2>2. UnitInv' /\ CarryoverInv'
    BY CarryoverStep
  <2>3. PastWithin(b)'
    BY <1>3, PastStep
  <2> QED BY <2>1, <2>2, <2>3
<1> HIDE DEF Inv
<1> QED BY <1>2, <1>4, <1>5, TypeInit, TypeStep, PTL DEF Spec

----------------------------------------------------------------------------
(* The bound of windowCoupled: no call straddles the end of a window *)

CoupledBetweenCalls == WindowCoupled = TRUE /\ ServerTime = TRUE /\ Straddle = {} /\ MaxResets = 0

\* A window that L2 has decided in ends at this time.
Decided(x) == x = 0 \/ \E t \in 0..now : x = ResetAt(t)

\* The entry holds credits of the current window only.
Clean(e) == e.credits = 0 \/ e.resetAt = ResetAt(now)

\* The node checks, or hears from L2, in the current window.
Touched(n) ==
    \/ waiting[n] # <<>>
    \/ \E s \in Slots : \/ lease[n][s].st = "sent"
                        \/ lease[n][s].st = "replied" /\ lease[n][s].resetAt = ResetAt(now)

\* What a node may still spend of the current window.
HeldNow(e) == IF e.resetAt = ResetAt(now) THEN e.credits ELSE 0
ArrivingNow(c) == IF c.resetAt = ResetAt(now) THEN Arriving(c) ELSE 0
StockNow(n) == HeldNow(entry[n]) + SumFunction([s \in Slots |-> ArrivingNow(lease[n][s])])

\* Credits and grants carry the end of their window; an awaited grant is always of the
\* current one, and a node that is active holds no credits of an earlier one.
CleanAt(n) ==
    /\ Decided(entry[n].resetAt) /\ (entry[n].credits > 0 => entry[n].resetAt # 0)
    /\ \A s \in Slots : lease[n][s].st = "replied" =>
          /\ lease[n][s].resetAt # 0 /\ Decided(lease[n][s].resetAt)
          /\ lease[n][s].kind = "demand" => lease[n][s].resetAt = ResetAt(now)
    /\ Touched(n) => Clean(entry[n])
CleanInv == \A n \in Node : CleanAt(n)

\* What a window admits to its own requests, and what the nodes still hold of it, was granted in it.
CoupledInv == prompt[Window(now)] + Sum([n \in Node |-> StockNow(n)], N) <= granted[Window(now)]

\* A window ends after each of its times, and before those of the next.
LEMMA WindowEnds ==
  ASSUME NEW t \in Nat, NEW u \in Nat
  PROVE  /\ ResetAt(t) \in Nat /\ t < ResetAt(t) /\ ResetAt(t) # 0
         /\ Window(t) = Window(u) => ResetAt(t) = ResetAt(u)
         /\ Window(t) < Window(u) => ResetAt(t) <= u /\ ResetAt(t) < ResetAt(u)
<1> DEFINE W == WindowMs
           p == t \div W
           q == u \div W
<1>1. W \in Nat /\ W > 0
  BY LeasedAssumption
<1>2. p \in Nat /\ W * p <= t /\ t < W * p + W
  BY <1>1
<1>3. q \in Nat /\ W * q <= u /\ u < W * q + W
  BY <1>1
<1>4. ResetAt(t) = W * p + W /\ ResetAt(u) = W * q + W
  BY <1>1, <1>2, <1>3 DEF ResetAt, WindowStart, Window
<1>5. W * p \in Nat /\ W * q \in Nat
  BY <1>1, <1>2, <1>3
<1>6. p < q => W * p + W <= W * q
  <2> SUFFICES ASSUME p < q PROVE W * p + W <= W * q
    OBVIOUS
  <2>1. p + 1 <= q
    BY <1>2, <1>3
  <2>2. W * (p + 1) <= W * q
    BY <2>1, <1>1, <1>2, <1>3
  <2>3. W * (p + 1) = W * p + W
    BY <1>1, <1>2
  <2> QED BY <2>2, <2>3
<1>7. Window(t) = p /\ Window(u) = q
  BY DEF Window
<1> HIDE DEF p, q, W
<1>8. ResetAt(t) \in Nat /\ t < ResetAt(t) /\ ResetAt(t) # 0
  BY <1>1, <1>2, <1>4, <1>5
<1>9. Window(t) = Window(u) => ResetAt(t) = ResetAt(u)
  BY <1>4, <1>7
<1>10. Window(t) < Window(u) => ResetAt(t) <= u /\ ResetAt(t) < ResetAt(u)
  BY <1>1, <1>2, <1>3, <1>4, <1>5, <1>6, <1>7
<1> QED BY <1>8, <1>9, <1>10

\* A window that was decided in and is not over is the current one.
LEMMA DecidedCurrent ==
  ASSUME TypeOK, NEW x, Decided(x), x # 0, now < x
  PROVE  x = ResetAt(now)
<1>1. now \in Nat
  BY LeasedAssumption DEF TypeOK
<1>2. PICK t \in 0..now : x = ResetAt(t)
  BY DEF Decided
<1>3. t \in Nat /\ t <= now
  BY <1>1, <1>2
<1>4. Window(t) \in Int /\ Window(now) \in Int /\ Window(t) <= Window(now)
  BY <1>1, <1>3, WindowNat, WindowMonotone
<1>5. ~(Window(t) < Window(now))
  <2> SUFFICES ASSUME Window(t) < Window(now) PROVE FALSE
    OBVIOUS
  <2>1. ResetAt(t) <= now /\ ResetAt(t) \in Nat
    BY <1>1, <1>3, WindowEnds
  <2> QED BY <1>1, <1>2, <2>1
<1>6. Window(t) = Window(now)
  BY <1>4, <1>5
<1> QED BY <1>1, <1>2, <1>3, <1>6, WindowEnds

\* The current window ends after now, and L2 may decide in it.
LEMMA CurrentDecided == TypeOK => ResetAt(now) \in Nat /\ now < ResetAt(now) /\ ResetAt(now) # 0 /\ Decided(ResetAt(now))
<1> SUFFICES ASSUME TypeOK PROVE ResetAt(now) \in Nat /\ now < ResetAt(now) /\ ResetAt(now) # 0 /\ Decided(ResetAt(now))
  OBVIOUS
<1>1. now \in Nat /\ now \in 0..now
  BY LeasedAssumption DEF TypeOK
<1> QED BY <1>1, WindowEnds DEF Decided

\* The stock of the current window is a natural number, in both states of a step.
LEMMA StockNowNat ==
  ASSUME IsFiniteSet(Slots), NEW n \in Node
  PROVE  /\ TypeOK => /\ StockNow(n) \in Nat /\ HeldNow(entry[n]) \in Nat
                      /\ \A s \in Slots : ArrivingNow(lease[n][s]) \in Nat
         /\ TypeOK' => /\ StockNow(n)' \in Nat /\ HeldNow(entry[n])' \in Nat
                       /\ \A s \in Slots : ArrivingNow(lease[n][s])' \in Nat
<1>1. ASSUME TypeOK
      PROVE  StockNow(n) \in Nat /\ HeldNow(entry[n]) \in Nat /\ \A s \in Slots : ArrivingNow(lease[n][s]) \in Nat
  <2> DEFINE f == [s \in Slots |-> ArrivingNow(lease[n][s])]
  <2>1. HeldNow(entry[n]) \in Nat /\ \A s \in Slots : ArrivingNow(lease[n][s]) \in Nat
    BY <1>1, StockNat DEF HeldNow, ArrivingNow
  <2>2. DOMAIN f = Slots /\ \A s \in Slots : f[s] \in Nat
    BY <2>1
  <2>3. SumFunction(f) \in Nat
    BY <2>2, SetSumNat, SumIsOverDomain
  <2> QED BY <2>1, <2>3 DEF StockNow
<1>2. ASSUME TypeOK'
      PROVE  StockNow(n)' \in Nat /\ HeldNow(entry[n])' \in Nat /\ \A s \in Slots : ArrivingNow(lease[n][s])' \in Nat
  <2> DEFINE f == [s \in Slots |-> ArrivingNow(lease[n][s])']
  <2>1. HeldNow(entry[n])' \in Nat /\ \A s \in Slots : ArrivingNow(lease[n][s])' \in Nat
    BY <1>2, StockNatNext DEF HeldNow, ArrivingNow
  <2>2. DOMAIN f = Slots /\ \A s \in Slots : f[s] \in Nat
    BY <2>1
  <2>3. SumFunction(f) \in Nat
    BY <2>2, SetSumNat, SumIsOverDomain
  <2>4. StockNow(n)' = HeldNow(entry[n])' + SumFunction(f)
    BY DEF StockNow
  <2> HIDE DEF f
  <2> QED BY <2>1, <2>3, <2>4
<1> QED BY <1>1, <1>2

\* The stock of the window of a node one of whose calls moves on.
LEMMA StockNowMoves ==
  ASSUME IsFiniteSet(Slots), TypeOK, TypeOK', now' = now, NEW n \in Node, NEW s \in Slots,
         \A t \in Slots : t # s => lease'[n][t] = lease[n][t]
  PROVE  StockNow(n)' = StockNow(n) - HeldNow(entry[n]) + HeldNow(entry'[n])
                          - ArrivingNow(lease[n][s]) + ArrivingNow(lease'[n][s])
<1> DEFINE f == [t \in Slots |-> ArrivingNow(lease[n][t])]
           g == [t \in Slots |-> ArrivingNow(lease'[n][t])]
<1>1. /\ \A t \in Slots : ArrivingNow(lease[n][t]) \in Nat /\ ArrivingNow(lease'[n][t]) \in Nat
      /\ HeldNow(entry[n]) \in Nat /\ HeldNow(entry'[n]) \in Nat
  BY StockNat, StockNatNext DEF HeldNow, ArrivingNow
<1>2. f \in [Slots -> Nat] /\ g \in [Slots -> Nat] /\ \A t \in Slots : t # s => f[t] = g[t]
  BY <1>1
<1>3. f[s] = ArrivingNow(lease[n][s]) /\ g[s] = ArrivingNow(lease'[n][s])
  OBVIOUS
<1>4. StockNow(n) = HeldNow(entry[n]) + SumFunction(f) /\ StockNow(n)' = HeldNow(entry'[n]) + SumFunction(g)
  <2>1. \A t \in Slots : ArrivingNow(lease[n][t])' = ArrivingNow(lease'[n][t])
    BY DEF ArrivingNow, ResetAt, WindowStart, Window
  <2>2. HeldNow(entry[n])' = HeldNow(entry'[n])
    BY DEF HeldNow, ResetAt, WindowStart, Window
  <2>3. StockNow(n)' = HeldNow(entry[n])' + SumFunction([t \in Slots |-> ArrivingNow(lease[n][t])'])
    BY DEF StockNow
  <2>4. [t \in Slots |-> ArrivingNow(lease[n][t])'] = g
    BY <2>1
  <2> QED BY <2>2, <2>3, <2>4 DEF StockNow
<1> HIDE DEF f, g
<1>5. SumFunction(f) \in Nat /\ SumFunction(g) = SumFunction(f) - f[s] + g[s]
  BY <1>2, SlotsMove
<1> QED BY <1>1, <1>3, <1>4, <1>5

\* The stock of the window of a node that may have sent a call: nothing has arrived through it yet.
LEMMA StockNowSpent ==
  ASSUME IsFiniteSet(Slots), TypeOK, TypeOK', now' = now, NEW n \in Node, NEW k,
         lease'[n] = lease[n] \/ Issues(n, k)
  PROVE  StockNow(n)' = StockNow(n) - HeldNow(entry[n]) + HeldNow(entry'[n])
<1>1. StockNow(n) \in Nat /\ HeldNow(entry[n]) \in Nat /\ HeldNow(entry'[n]) \in Nat
  BY StockNat, StockNatNext, StockNowNat DEF HeldNow
<1>2. CASE lease'[n] = lease[n]
  <2> DEFINE f == SumFunction([t \in Slots |-> ArrivingNow(lease[n][t])])
  <2>1. StockNow(n) = HeldNow(entry[n]) + f /\ StockNow(n)' = HeldNow(entry'[n]) + f
    BY <1>2 DEF StockNow, HeldNow, ArrivingNow, ResetAt, WindowStart, Window
  <2>2. f \in Nat
    <3> DEFINE h == [t \in Slots |-> ArrivingNow(lease[n][t])]
    <3>1. DOMAIN h = Slots /\ \A t \in Slots : h[t] \in Nat
      BY StockNowNat
    <3> QED BY <3>1, SetSumNat, SumIsOverDomain
  <2> HIDE DEF f
  <2> QED BY <1>1, <2>1, <2>2
<1>3. CASE Issues(n, k)
  <2>1. PICK s \in Slots : /\ lease[n][s].st = "free" /\ lease'[n][s].st = "sent"
                           /\ \A t \in Slots : t # s => lease'[n][t] = lease[n][t]
    BY <1>3 DEF Issues
  <2>2. ArrivingNow(lease[n][s]) = 0 /\ ArrivingNow(lease'[n][s]) = 0
    BY <2>1 DEF ArrivingNow, Arriving
  <2>3. StockNow(n)' = StockNow(n) - HeldNow(entry[n]) + HeldNow(entry'[n])
                         - ArrivingNow(lease[n][s]) + ArrivingNow(lease'[n][s])
    BY <2>1, StockNowMoves
  <2> QED BY <1>1, <2>2, <2>3
<1> QED BY <1>2, <1>3

\* A step of one node that admits a units to requests of the window, at most, and is granted g.
LEMMA CoupledAt ==
  ASSUME IsFiniteSet(Slots), TypeOK, TypeOK', CleanInv, CoupledInv, NEW n \in Node, OnlyAt(n), now' = now,
         CleanAt(n)', NEW a \in Int, NEW g \in Int, StockNow(n)' <= StockNow(n) + (g - a),
         prompt'[Window(now)] <= prompt[Window(now)] + a, granted'[Window(now)] = granted[Window(now)] + g
  PROVE  CleanInv' /\ CoupledInv'
<1> DEFINE f == [m \in Node |-> StockNow(m)]
           h == [m \in Node |-> StockNow(m)']
<1>1. \A m \in Node : StockNow(m) \in Int /\ StockNow(m)' \in Int
  BY StockNowNat
<1>2. ASSUME NEW m \in Node, m # n PROVE StockNow(m)' = StockNow(m) /\ CleanAt(m)'
  <2>1. CleanAt(m) /\ entry'[m] = entry[m] /\ lease'[m] = lease[m] /\ waiting'[m] = waiting[m]
    BY <1>2 DEF OnlyAt, CleanInv
  <2>2. CleanAt(m)'
    BY <2>1 DEF CleanAt, Clean, Touched, Decided, ResetAt, WindowStart, Window
  <2>3. StockNow(m)' = StockNow(m)
    BY <2>1 DEF StockNow, HeldNow, ArrivingNow, ResetAt, WindowStart, Window
  <2> QED BY <2>2, <2>3
<1>3. /\ \A m \in Node : f[m] \in Int /\ h[m] \in Int
      /\ \A m \in Node : m # n => f[m] = h[m]
      /\ f[n] = StockNow(n) /\ h[n] = StockNow(n)'
  BY <1>1, <1>2
<1>4. prompt[Window(now)] + Sum(f, N) <= granted[Window(now)]
  BY DEF CoupledInv
<1>5. prompt[Window(now)] \in Nat /\ prompt'[Window(now)] \in Nat /\ granted[Window(now)] \in Nat
  BY WindowInRange DEF TypeOK
<1> HIDE DEF f, h
<1>6. Sum(f, N) \in Int /\ Sum(h, N) = Sum(f, N) - f[n] + h[n]
  BY <1>3, NodesMove
<1>7. prompt'[Window(now)] + Sum(h, N) <= granted'[Window(now)]
  BY <1>1, <1>3, <1>4, <1>5, <1>6
<1>8. CoupledInv'
  BY <1>7 DEF CoupledInv, h, Window
<1>9. CleanInv'
  BY <1>2 DEF CleanInv
<1> QED BY <1>8, <1>9

\* A node that checks sends nothing stale and keeps credits of the current window only.
LEMMA CleanWork ==
  ASSUME TypeOK, now' = now, NEW n \in Node, CleanAt(n), NEW k, lease'[n] = lease[n] \/ Issues(n, k),
         Decided(entry'[n].resetAt), entry'[n].credits > 0 => entry'[n].resetAt # 0, Clean(entry'[n])
  PROVE  CleanAt(n)'
<1>1. Decided(entry[n].resetAt)' /\ Clean(entry[n])'
  BY DEF Decided, Clean, ResetAt, WindowStart, Window
<1>2. \A s \in Slots : lease'[n][s].st = "replied" => lease'[n][s] = lease[n][s]
  BY DEF Issues
<1>3. (\A s \in Slots : lease[n][s].st = "replied" =>
         /\ lease[n][s].resetAt # 0 /\ Decided(lease[n][s].resetAt)
         /\ lease[n][s].kind = "demand" => lease[n][s].resetAt = ResetAt(now))'
  BY <1>2 DEF CleanAt, Decided, ResetAt, WindowStart, Window
<1> QED BY <1>1, <1>3 DEF CleanAt

\* The entry a check works on holds credits of the current window only.
LEMMA WorkedOn ==
  ASSUME CoupledBetweenCalls, TypeOK, NEW n \in Node, CleanAt(n), NEW e,
         \/ e = Unexpired(EntryFor(n))
         \/ waiting[n] # <<>> /\ (e = EntryFor(n) \/ e = entry[n])
  PROVE  e \in EntryType /\ Decided(e.resetAt) /\ HeldNow(e) <= HeldNow(entry[n])
         /\ (e.credits > 0 => e.resetAt = ResetAt(now) /\ e.credits <= HeldNow(entry[n]))
<1>1. /\ entry[n] \in EntryType /\ EntryFor(n) \in EntryType /\ Unexpired(EntryFor(n)) \in EntryType
      /\ WindowCoupled = TRUE
  BY EntryForTyped DEF TypeOK, CoupledBetweenCalls
<1>2. /\ e \in EntryType /\ e.credits \in Nat /\ entry[n].credits \in Nat
  BY <1>1 DEF EntryType
<1>3. e.resetAt = 0 \/ e.resetAt = entry[n].resetAt
  <2>1. EntryFor(n).resetAt = 0 \/ EntryFor(n).resetAt = entry[n].resetAt
    BY DEF EntryFor, FreshEntry
  <2>2. Unexpired(EntryFor(n)).resetAt = EntryFor(n).resetAt
    BY <1>1 DEF Unexpired, EntryType
  <2> QED BY <2>1, <2>2
<1>4. Decided(e.resetAt)
  BY <1>3 DEF CleanAt, Decided
<1>5. e.credits > 0 => /\ e.credits = entry[n].credits /\ e.resetAt = entry[n].resetAt
                       /\ e.resetAt = ResetAt(now)
  <2> SUFFICES ASSUME e.credits > 0
               PROVE  /\ e.credits = entry[n].credits /\ e.resetAt = entry[n].resetAt
                      /\ e.resetAt = ResetAt(now)
    OBVIOUS
  <2>1. EntryFor(n).credits > 0 => EntryFor(n) = entry[n]
    BY DEF EntryFor, FreshEntry
  <2>2. CASE e = Unexpired(EntryFor(n))
    <3> DEFINE x == EntryFor(n)
    <3>1. x.credits \in Nat /\ x.resetAt \in Nat /\ [x EXCEPT !.credits = 0].credits = 0
      BY <1>1 DEF EntryType
    <3> HIDE DEF x
    <3>2. ~(x.resetAt # 0 /\ now >= x.resetAt) /\ e = x
      BY <1>1, <2>2, <3>1 DEF Unexpired, x
    <3>3. x = entry[n]
      BY <2>1, <3>2 DEF x
    <3>4. e.resetAt # 0 /\ Decided(e.resetAt)
      BY <1>4, <3>2, <3>3 DEF CleanAt
    <3>5. now \in Nat /\ now < e.resetAt
      BY SMTT(60), <3>1, <3>2, <3>4, LeasedAssumption DEF TypeOK
    <3> QED BY <3>2, <3>3, <3>4, <3>5, DecidedCurrent
  <2>3. CASE waiting[n] # <<>> /\ (e = EntryFor(n) \/ e = entry[n])
    <3>1. e = entry[n] /\ Clean(entry[n])
      BY <2>1, <2>3 DEF CleanAt, Touched
    <3> QED BY <3>1 DEF Clean
  <2> QED BY <2>2, <2>3
<1>6. HeldNow(e) <= HeldNow(entry[n]) /\ (e.credits > 0 => e.credits <= HeldNow(entry[n]))
  BY <1>2, <1>5 DEF HeldNow
<1> QED BY <1>2, <1>4, <1>5, <1>6

\* A check spends credits of the current window, or none.
LEMMA CoupledWork ==
  ASSUME CoupledBetweenCalls, IsFiniteSet(Slots), TypeOK, TypeOK', CleanInv, CoupledInv, NEW n \in Node, NEW e,
         \/ e = Unexpired(EntryFor(n))
         \/ waiting[n] # <<>> /\ (e = EntryFor(n) \/ e = entry[n]),
         NEW c \in Costs, NEW r, NEW w, NEW q,
         \/ entry' = [entry EXCEPT ![n] = e] /\ UNCHANGED <<lease, prompt>>
         \/ Serve(n, e, c, w)
         \/ AwaitLease(n, e, r, c, w, q),
         \A m \in Node : m # n => waiting'[m] = waiting[m],
         UNCHANGED <<now, granted>>
  PROVE  CleanInv' /\ CoupledInv'
<1>1. /\ e \in EntryType /\ Decided(e.resetAt) /\ HeldNow(e) <= HeldNow(entry[n])
      /\ (e.credits > 0 => e.resetAt = ResetAt(now) /\ e.credits <= HeldNow(entry[n])) /\ CleanAt(n)
  BY WorkedOn DEF CleanInv
<1>2. ResetAt(now) \in Nat /\ ResetAt(now) # 0 /\ e.credits \in Nat
  BY <1>1, CurrentDecided DEF EntryType
<1>3. Window(now) \in Windows /\ granted \in [Windows -> Nat] /\ prompt \in [Windows -> Nat]
      /\ prompt' \in [Windows -> Nat]
  BY WindowInRange DEF TypeOK
<1>4. StockNow(n) \in Nat /\ HeldNow(entry[n]) \in Nat /\ HeldNow(e) \in Nat /\ HeldNow(entry'[n]) \in Nat
      /\ StockNow(n)' \in Nat
  BY <1>2, StockNowNat, StockNatNext DEF HeldNow
<1>5. PICK a \in Nat :
        /\ OnlyAt(n) /\ (lease'[n] = lease[n] \/ \E k : Issues(n, k))
        /\ a <= e.credits /\ entry'[n].credits = e.credits - a /\ entry'[n].resetAt = e.resetAt
        /\ prompt'[Window(now)] <= prompt[Window(now)] + a
  <2>1. CASE entry' = [entry EXCEPT ![n] = e] /\ UNCHANGED <<lease, prompt>>
    <3>1. OnlyAt(n) /\ entry'[n] = e /\ lease'[n] = lease[n]
      BY <2>1 DEF OnlyAt, TypeOK
    <3>2. prompt'[Window(now)] <= prompt[Window(now)] + 0
      BY <1>3, <2>1
    <3> QED BY <1>2, <3>1, <3>2
  <2>2. CASE Serve(n, e, c, w)
    <3>1. /\ c \in Nat /\ e.credits >= c /\ entry'[n].credits = e.credits - c /\ entry'[n].resetAt = e.resetAt
          /\ \A m \in Node : m # n => entry'[m] = entry[m] /\ lease'[m] = lease[m]
          /\ lease'[n] = lease[n] \/ Issues(n, "refill")
      BY <1>1, <2>2, ServeEffect
    <3>2. prompt'[Window(now)] <= prompt[Window(now)] + c
      <4>1. prompt'[Window(now)] = prompt[Window(now)] + IF w = Window(now) THEN c ELSE 0
        BY <1>3, <2>2 DEF Serve
      <4> QED BY <1>3, <3>1, <4>1
    <3> QED BY <1>2, <3>1, <3>2 DEF OnlyAt
  <2>3. CASE AwaitLease(n, e, r, c, w, q)
    <3>1. /\ prompt' = prompt /\ entry'[n].credits = e.credits /\ entry'[n].resetAt = e.resetAt
          /\ \A m \in Node : m # n => entry'[m] = entry[m] /\ lease'[m] = lease[m]
          /\ lease'[n] = lease[n] \/ Issues(n, "demand")
      BY <1>1, <2>3, AwaitEffect
    <3>2. prompt'[Window(now)] <= prompt[Window(now)] + 0
      BY <1>3, <3>1
    <3> QED BY <1>2, <3>1, <3>2 DEF OnlyAt
  <2> QED BY <2>1, <2>2, <2>3
<1>6. StockNow(n)' = StockNow(n) - HeldNow(entry[n]) + HeldNow(entry'[n])
  BY <1>5, StockNowSpent
<1>7. HeldNow(entry'[n]) <= HeldNow(entry[n]) - a
  BY SMTT(60), <1>1, <1>2, <1>4, <1>5 DEF HeldNow
<1>8. StockNow(n)' <= StockNow(n) + (0 - a)
  BY <1>4, <1>5, <1>6, <1>7
<1>9. CleanAt(n)'
  <2>1. Decided(entry'[n].resetAt)
    BY <1>1, <1>5
  <2>2. entry'[n].credits > 0 => e.credits > 0
    BY <1>2, <1>5
  <2>3. (entry'[n].credits > 0 => entry'[n].resetAt # 0) /\ Clean(entry'[n])
    <3>1. entry'[n].credits \in Nat
      BY StockNatNext
    <3> QED BY <1>1, <1>2, <1>5, <2>2, <3>1 DEF Clean
  <2> QED BY <1>1, <1>5, <2>1, <2>3, CleanWork
<1>10. granted'[Window(now)] = granted[Window(now)] + 0 /\ 0 \in Int /\ a \in Int
  BY <1>3
<1> QED BY <1>5, <1>8, <1>9, <1>10, CoupledAt

\* What the callbacks bring to an entry: nothing, or the grant of a call of the current window.
LEMMA CoupledCallback ==
  ASSUME CoupledBetweenCalls, TypeOK, NEW n \in Node, NEW s \in Slots, CleanAt(n), Callback(n, s), ~L2Apply(n, s)
  PROVE  /\ lease'[n][s].st \notin {"sent", "replied"}
         /\ waiting'[n] # <<>> => waiting[n] # <<>>
         /\ \/ entry'[n].credits = entry[n].credits /\ entry'[n].resetAt = entry[n].resetAt
            \/ /\ lease[n][s].st = "replied" /\ lease[n][s].resetAt = ResetAt(now)
               /\ entry'[n].credits = entry[n].credits + Arriving(lease[n][s])
               /\ entry'[n].resetAt = ResetAt(now)
<1> DEFINE c == lease[n][s]
           d == lease'[n][s]
           e == entry[n]
           f == entry'[n]
           same == f.credits = e.credits /\ f.resetAt = e.resetAt
<1>1. e \in EntryType /\ c \in LeaseType /\ waiting[n] \in Seq(WaiterType) /\ now \in Nat
      /\ c.resetAt \in Nat /\ WindowCoupled = TRUE
  <2>1. e \in EntryType /\ c \in LeaseType /\ waiting[n] \in Seq(WaiterType) /\ now \in Nat
    BY LeasedAssumption DEF TypeOK
  <2> HIDE DEF e, c
  <2> QED BY <2>1 DEF LeaseType, CoupledBetweenCalls
<1>2. \A res : Wake(waiting[n], s, res) # <<>> => waiting[n] # <<>>
  BY <1>1, WakeRange
<1>3. CASE L2Fail(n, s)
  <2>1. d.st = "lost" /\ f = e /\ waiting'[n] = waiting[n]
    BY <1>3, CallbackFields
  <2> QED BY <2>1
<1>4. CASE PendingCleared(n, s) \/ LeaseRejects(n, s)
  <2>1. /\ d = FreeLease /\ f = ClearedPending(e, s)
        /\ waiting'[n] = waiting[n] \/ waiting'[n] = Wake(waiting[n], s, "failed")
    BY <1>4, CallbackFields
  <2>2. same
    BY <1>1, <2>1, EntryFields
  <2> QED BY <1>2, <2>1, <2>2 DEF FreeLease
<1>5. CASE LeaseSettles(n, s)
  <2>1. /\ c.kind = "demand" /\ c.st = "replied" /\ d.st = "settled" /\ f = Credited(e, c)
        /\ \E res : waiting'[n] = Wake(waiting[n], s, res)
    BY <1>5, CallbackFields
  <2>2. c.resetAt = ResetAt(now)
    BY <2>1 DEF CleanAt
  <2>3. CASE e.live
    <3>1. f.credits = e.credits + Arriving(c) /\ f.resetAt = ResetAt(now)
      BY <1>1, <2>1, <2>2, <2>3, EntryFields DEF Arriving
    <3> QED BY <1>2, <2>1, <2>2, <3>1
  <2>4. CASE ~e.live
    <3>1. f = e
      BY <2>1, <2>4 DEF Credited
    <3> QED BY <1>2, <2>1, <3>1
  <2> QED BY <2>3, <2>4
<1>6. CASE RefillSettles(n, s)
  <2> DEFINE g == IF c.st = "lost" THEN e ELSE RefillCredited(e, c)
  <2>1. /\ c.st \in {"replied", "lost"} /\ d = FreeLease /\ f = RefillDone(g) /\ waiting'[n] = waiting[n]
    BY <1>6, CallbackFields
  <2>2. g \in EntryType
    BY <1>1, CreditedTyped
  <2>3. f.credits = g.credits /\ f.resetAt = g.resetAt
    <3> HIDE DEF g, f
    <3>1. RefillDone(g).credits = g.credits /\ RefillDone(g).resetAt = g.resetAt
      BY <1>1, <2>2, EntryFields
    <3> QED BY <2>1, <3>1
  <2>4. CASE c.st = "replied" /\ now < c.resetAt /\ e.live
    <3>1. c.resetAt = ResetAt(now)
      BY <1>1, <2>4, DecidedCurrent DEF CleanAt
    <3>2. g = Credited(e, c)
      BY <1>1, <2>4 DEF RefillCredited
    <3>3. g.credits = e.credits + Arriving(c) /\ g.resetAt = ResetAt(now)
      BY <1>1, <2>4, <3>1, <3>2, EntryFields DEF Arriving
    <3> HIDE DEF g
    <3> QED BY <2>1, <2>3, <2>4, <3>1, <3>3 DEF FreeLease
  <2>5. CASE ~(c.st = "replied" /\ now < c.resetAt /\ e.live)
    <3>1. g = e
      BY <1>1, <2>1, <2>5 DEF RefillCredited, Credited
    <3> HIDE DEF g
    <3> QED BY <2>1, <2>3, <3>1 DEF FreeLease
  <2> QED BY <2>4, <2>5
<1> QED BY <1>3, <1>4, <1>5, <1>6 DEF Callback

\* The calls and the entry of a node stay clean through a callback.
LEMMA CleanCallback ==
  ASSUME CoupledBetweenCalls, TypeOK, NEW n \in Node, NEW s \in Slots, CleanAt(n), Callback(n, s)
  PROVE  CleanAt(n)'
<1> DEFINE e == entry[n]
           f == entry'[n]
<1>1. now' = now /\ \A t \in Slots : t # s => lease'[n][t] = lease[n][t]
  BY CallbackEffect
<1>2. ResetAt(now) # 0 /\ Decided(ResetAt(now))
  BY CurrentDecided
<1>3. CASE L2Apply(n, s)
  <2>1. /\ lease[n][s].st = "sent" /\ lease'[n][s].resetAt = ResetAt(now)
        /\ entry'[n] = entry[n] /\ waiting'[n] = waiting[n]
    BY <1>3, CallbackFields DEF DecisionTime, CoupledBetweenCalls
  <2>2. Clean(e)
    BY <2>1 DEF CleanAt, Touched
  <2>3. (\A t \in Slots : lease[n][t].st = "replied" =>
           /\ lease[n][t].resetAt # 0 /\ Decided(lease[n][t].resetAt)
           /\ lease[n][t].kind = "demand" => lease[n][t].resetAt = ResetAt(now))'
    BY <1>1, <1>2, <2>1 DEF CleanAt, Decided, ResetAt, WindowStart, Window
  <2>4. (Decided(entry[n].resetAt) /\ (entry[n].credits > 0 => entry[n].resetAt # 0) /\ Clean(entry[n]))'
    BY <1>1, <2>1, <2>2 DEF CleanAt, Clean, Decided, ResetAt, WindowStart, Window
  <2> QED BY <2>3, <2>4 DEF CleanAt
<1>4. CASE ~L2Apply(n, s)
  <2>1. /\ lease'[n][s].st \notin {"sent", "replied"}
        /\ waiting'[n] # <<>> => waiting[n] # <<>>
        /\ \/ f.credits = e.credits /\ f.resetAt = e.resetAt
           \/ lease[n][s].st = "replied" /\ lease[n][s].resetAt = ResetAt(now) /\ f.resetAt = ResetAt(now)
    BY <1>4, CoupledCallback
  <2>2. (\A t \in Slots : lease[n][t].st = "replied" =>
           /\ lease[n][t].resetAt # 0 /\ Decided(lease[n][t].resetAt)
           /\ lease[n][t].kind = "demand" => lease[n][t].resetAt = ResetAt(now))'
    <3>1. \A t \in Slots : lease'[n][t].st = "replied" => lease'[n][t] = lease[n][t]
      BY <1>1, <2>1
    <3> QED BY <1>1, <3>1 DEF CleanAt, Decided, ResetAt, WindowStart, Window
  <2>3. Touched(n)' => Touched(n)
    BY <1>1, <2>1 DEF Touched, ResetAt, WindowStart, Window
  <2>4. Decided(f.resetAt) /\ (f.credits > 0 => f.resetAt # 0) /\ (Touched(n) => Clean(f))
    BY <1>2, <2>1 DEF CleanAt, Clean
  <2>5. (Decided(entry[n].resetAt) /\ (entry[n].credits > 0 => entry[n].resetAt # 0) /\ (Touched(n) => Clean(entry[n])))'
    BY <1>1, <2>3, <2>4 DEF Clean, Decided, ResetAt, WindowStart, Window
  <2> QED BY <2>2, <2>5 DEF CleanAt
<1> QED BY <1>3, <1>4

\* The callbacks of a node bring no more than L2 grants in the current window.
LEMMA CoupledCalled ==
  ASSUME CoupledBetweenCalls, IsFiniteSet(Slots), TypeOK, TypeOK', CleanInv, CoupledInv,
         NEW n \in Node, NEW s \in Slots, Callback(n, s)
  PROVE  CleanInv' /\ CoupledInv'
<1> DEFINE c == lease[n][s]
           d == lease'[n][s]
           e == entry[n]
           f == entry'[n]
           g == IF L2Apply(n, s) /\ Fits(l2, now, c.amt) THEN c.amt ELSE 0
<1>1. OnlyAt(n) /\ now' = now /\ prompt' = prompt /\ CleanAt(n) /\ CleanAt(n)'
      /\ \A t \in Slots : t # s => lease'[n][t] = lease[n][t]
  BY CallbackEffect, CleanCallback DEF OnlyAt, CleanInv
<1>2. /\ c.amt \in Nat /\ g \in Nat /\ Window(now) \in Windows /\ granted \in [Windows -> Nat] /\ prompt \in [Windows -> Nat]
      /\ StockNow(n) \in Nat /\ HeldNow(e) \in Nat /\ HeldNow(f) \in Nat /\ ArrivingNow(c) \in Nat
      /\ ArrivingNow(d) \in Nat /\ e.credits \in Nat /\ Arriving(c) \in Nat /\ StockNow(n)' \in Nat
  <2>1. c.amt \in Nat
    <3>1. c \in LeaseType
      BY DEF TypeOK
    <3> HIDE DEF c
    <3> QED BY <3>1 DEF LeaseType
  <2>2. g = c.amt \/ g = 0
    OBVIOUS
  <2>3. Window(now) \in Windows /\ granted \in [Windows -> Nat] /\ prompt \in [Windows -> Nat]
    BY WindowInRange DEF TypeOK
  <2>4. HeldNow(f) \in Nat /\ ArrivingNow(d) \in Nat
    BY StockNatNext DEF HeldNow, ArrivingNow
  <2> HIDE DEF g
  <2> QED BY <2>1, <2>2, <2>3, <2>4, StockNat, StockNowNat
<1>3. granted'[Window(now)] = granted[Window(now)] + g /\ prompt'[Window(now)] <= prompt[Window(now)] + 0
  <2>1. CASE L2Apply(n, s)
    <3>1. DecisionTime(c) = now
      BY DEF DecisionTime, CoupledBetweenCalls
    <3>2. granted' = [granted EXCEPT ![Window(now)] = @ + IF Fits(l2, now, c.amt) THEN c.amt ELSE 0]
      BY <2>1, <3>1 DEF L2Apply
    <3> HIDE DEF c
    <3> QED BY <1>1, <1>2, <2>1, <3>2
  <2>2. CASE ~L2Apply(n, s)
    <3>1. granted' = granted
      BY <2>2 DEF Callback, L2Fail, LeaseSettles, PendingCleared, LeaseRejects, RefillSettles
    <3> QED BY <1>1, <1>2, <2>2, <3>1
  <2> QED BY <2>1, <2>2
<1>4. StockNow(n)' = StockNow(n) - HeldNow(e) + HeldNow(f) - ArrivingNow(c) + ArrivingNow(d)
  BY <1>1, StockNowMoves
<1>5. HeldNow(f) - ArrivingNow(c) + ArrivingNow(d) <= HeldNow(e) + g
  <2>1. CASE L2Apply(n, s)
    <3>1. /\ c.st = "sent" /\ d.st = "replied" /\ d.amt = c.amt /\ f = e
          /\ d.ok = Fits(l2, DecisionTime(c), c.amt) /\ DecisionTime(c) = now
      BY <2>1, CallbackFields DEF DecisionTime, CoupledBetweenCalls
    <3>2. ArrivingNow(d) <= g /\ ArrivingNow(c) = 0
      <4>1. ArrivingNow(d) = 0 \/ ArrivingNow(d) = Arriving(d)
        BY DEF ArrivingNow
      <4>2. Arriving(d) = g /\ Arriving(c) = 0
        BY <2>1, <3>1 DEF Arriving
      <4>3. ArrivingNow(c) = 0
        BY <4>2 DEF ArrivingNow
      <4> HIDE DEF g, c, d
      <4> QED BY <1>2, <4>1, <4>2, <4>3
    <3>3. HeldNow(f) = HeldNow(e)
      BY <3>1
    <3> HIDE DEF g, c, d, e, f
    <3> QED BY <1>2, <3>2, <3>3
  <2>2. CASE ~L2Apply(n, s)
    <3>1. /\ d.st \notin {"sent", "replied"}
          /\ \/ f.credits = e.credits /\ f.resetAt = e.resetAt
             \/ /\ c.st = "replied" /\ c.resetAt = ResetAt(now)
                /\ f.credits = e.credits + Arriving(c) /\ f.resetAt = ResetAt(now)
      BY <1>1, <2>2, CoupledCallback
    <3>2. ArrivingNow(d) = 0
      BY <3>1 DEF ArrivingNow, Arriving
    <3>3. HeldNow(f) <= HeldNow(e) + ArrivingNow(c)
      <4>1. CASE f.credits = e.credits /\ f.resetAt = e.resetAt
        <5>1. HeldNow(f) = HeldNow(e)
          BY <4>1 DEF HeldNow
        <5> HIDE DEF c, d, e, f
        <5> QED BY <1>2, <5>1
      <4>2. CASE /\ c.st = "replied" /\ c.resetAt = ResetAt(now)
                 /\ f.credits = e.credits + Arriving(c) /\ f.resetAt = ResetAt(now)
        <5>1. Clean(e)
          BY <1>1, <4>2 DEF CleanAt, Touched
        <5>2. HeldNow(e) = e.credits
          BY <5>1 DEF HeldNow, Clean
        <5>3. HeldNow(f) = e.credits + Arriving(c) /\ ArrivingNow(c) = Arriving(c)
          BY <4>2 DEF HeldNow, ArrivingNow
        <5> HIDE DEF c, d, e, f
        <5> QED BY <1>2, <5>2, <5>3
      <4> QED BY <3>1, <4>1, <4>2
    <3> HIDE DEF g, c, d, e, f
    <3> QED BY <1>2, <3>2, <3>3
  <2> QED BY <2>1, <2>2
<1> HIDE DEF g, c, d, e, f
<1>6. StockNow(n)' <= StockNow(n) + (g - 0)
  BY <1>2, <1>4, <1>5
<1>7. g \in Int /\ 0 \in Int
  BY <1>2
<1> QED BY <1>1, <1>3, <1>6, <1>7, CoupledAt

\* A node that forgets its entry spends nothing of it.
LEMMA CoupledForget ==
  ASSUME IsFiniteSet(Slots), TypeOK, TypeOK', CleanInv, CoupledInv, NEW n \in Node, Evict(n) \/ Reset(n)
  PROVE  CleanInv' /\ CoupledInv'
<1>1. /\ UNCHANGED <<now, lease, waiting, granted, prompt>> /\ entry' = [entry EXCEPT ![n] = NoEntry]
  BY DEF Evict, Reset
<1>2. entry'[n] = NoEntry /\ OnlyAt(n) /\ lease'[n] = lease[n]
  BY <1>1 DEF OnlyAt, TypeOK
<1>3. entry'[n].credits = 0 /\ entry'[n].resetAt = 0
  BY <1>2 DEF NoEntry, FreshEntry
<1>4. CleanAt(n)'
  BY <1>1, <1>2, <1>3, CleanWork DEF CleanInv, Clean, Decided
<1>5. StockNow(n)' <= StockNow(n) + (0 - 0)
  <2>1. StockNow(n)' = StockNow(n) - HeldNow(entry[n]) + HeldNow(entry'[n])
    BY <1>1, <1>2, StockNowSpent
  <2>2. HeldNow(entry'[n]) = 0
    BY <1>3 DEF HeldNow
  <2> QED BY <2>1, <2>2, StockNowNat
<1>6. /\ prompt'[Window(now)] <= prompt[Window(now)] + 0
      /\ granted'[Window(now)] = granted[Window(now)] + 0
  BY SMTT(60), <1>1, WindowInRange DEF TypeOK
<1> QED BY <1>1, <1>2, <1>4, <1>5, <1>6, CoupledAt

\* A new window begins between the calls: nothing of it is held, and no node is active in it.
LEMMA WindowOpens ==
  ASSUME CoupledBetweenCalls, IsFiniteSet(Slots), TypeOK, TypeOK', WaitersInv, CleanInv, NEW n \in Node,
         Tick, Window(now') # Window(now)
  PROVE  CleanAt(n)' /\ StockNow(n)' = 0
<1>1. now \in Nat /\ now' = now + 1 /\ now' \in Nat /\ UNCHANGED <<entry, lease, waiting>>
  BY LeasedAssumption DEF TypeOK, Tick
<1>2. Window(now) < Window(now') /\ 0..now \subseteq 0..now' /\ ResetAt(now') \in Nat /\ ResetAt(now') # 0
  <2>1. Window(now) \in Int /\ Window(now') \in Int /\ Window(now) <= Window(now')
    BY <1>1, WindowNat, WindowMonotone
  <2> QED BY <1>1, <2>1, WindowEnds
<1>3. waiting[n] = <<>> /\ \A s \in Slots : ~(lease[n][s].kind = "refill" /\ lease[n][s].st = "sent")
  <2>1. now + 1 = now'
    BY <1>1
  <2>2. Window(now + 1) # Window(now)
    BY <2>1
  <2>3. CleanBoundary
    BY <2>2 DEF Tick
  <2> QED BY <2>3 DEF CleanBoundary, CoupledBetweenCalls
<1>4. \A s \in Slots : lease[n][s].st \in UnderWay => lease[n][s].kind = "refill" /\ lease[n][s].st # "sent"
  <2>1. Range(waiting[n]) = {}
    BY <1>3 DEF Range
  <2>2. \A s \in Slots : ~(lease[n][s].kind = "demand" /\ lease[n][s].st \in UnderWay)
    BY <2>1 DEF WaitersInv, WaitsRight
  <2>3. \A s \in Slots : lease[n][s].kind \in {"demand", "refill"}
    BY DEF TypeOK, LeaseType
  <2> QED BY <1>3, <2>2, <2>3
<1>5. ASSUME NEW x, Decided(x) PROVE x # ResetAt(now') /\ Decided(x)'
  <2>1. CASE x = 0
    BY <1>2, <2>1 DEF Decided
  <2>2. CASE x # 0
    <3>1. PICK t \in 0..now : x = ResetAt(t)
      BY <1>5, <2>2 DEF Decided
    <3>2. t \in Nat /\ t <= now /\ t \in 0..now'
      BY <1>1, <1>2, <3>1
    <3>3. Window(t) < Window(now')
      <4>1. Window(t) <= Window(now) /\ Window(t) \in Int /\ Window(now) \in Int /\ Window(now') \in Int
        BY <1>1, <3>2, WindowNat, WindowMonotone
      <4> QED BY <1>2, <4>1
    <3>4. ResetAt(t) < ResetAt(now') /\ ResetAt(t) \in Nat
      BY <1>1, <3>2, <3>3, WindowEnds
    <3>5. Decided(x)'
      BY <3>1, <3>2 DEF Decided, ResetAt, WindowStart, Window
    <3> QED BY <1>2, <3>1, <3>4, <3>5
  <2> QED BY <2>1, <2>2
<1>6. CleanAt(n)
  BY DEF CleanInv
<1>7. entry[n].resetAt # ResetAt(now') /\ Decided(entry[n].resetAt)' /\ (entry[n].credits > 0 => entry[n].resetAt # 0)
  <2>1. Decided(entry[n].resetAt) /\ (entry[n].credits > 0 => entry[n].resetAt # 0)
    BY <1>6 DEF CleanAt
  <2>2. entry[n].resetAt # ResetAt(now') /\ (Decided(entry[n].resetAt) => Decided(entry[n].resetAt)')
    <3>1. entry'[n].resetAt = entry[n].resetAt
      BY <1>1
    <3> DEFINE x == entry[n].resetAt
    <3>2. \E y : y = x
      OBVIOUS
    <3>3. PICK y : y = x
      BY <3>2
    <3>4. Decided(y) /\ y # ResetAt(now') /\ Decided(y)'
      BY <1>5, <2>1, <3>3
    <3> QED BY <3>1, <3>3, <3>4 DEF Decided
  <2> QED BY <2>1, <2>2
<1>8. ASSUME NEW s \in Slots, lease[n][s].st = "replied"
      PROVE  /\ lease[n][s].kind # "demand" /\ lease[n][s].resetAt # 0 /\ lease[n][s].resetAt # ResetAt(now')
             /\ Decided(lease[n][s].resetAt)'
  <2>1. lease[n][s].resetAt # 0 /\ Decided(lease[n][s].resetAt)
    BY <1>6, <1>8 DEF CleanAt
  <2>2. lease[n][s].kind # "demand"
    BY <1>4, <1>8 DEF UnderWay
  <2> DEFINE x == lease[n][s].resetAt
  <2>3. \E y : y = x
    OBVIOUS
  <2>4. PICK y : y = x
    BY <2>3
  <2>5. y # ResetAt(now') /\ Decided(y)'
    BY <1>5, <2>1, <2>4
  <2>6. lease'[n][s].resetAt = y
    BY <1>1, <2>4
  <2> QED BY <2>1, <2>2, <2>4, <2>5, <2>6 DEF Decided
<1>9. ~Touched(n)'
  <2>1. \A s \in Slots : lease[n][s].st # "sent" /\ (lease[n][s].st = "replied" => lease[n][s].resetAt # ResetAt(now'))
    BY <1>4, <1>8 DEF UnderWay
  <2> QED BY <1>1, <1>3, <2>1 DEF Touched, ResetAt, WindowStart, Window
<1>10. CleanAt(n)'
  BY <1>1, <1>7, <1>8, <1>9 DEF CleanAt
<1>11. StockNow(n)' = 0
  <2> DEFINE f == [s \in Slots |-> ArrivingNow(lease[n][s])']
  <2>1. \A s \in Slots : ArrivingNow(lease[n][s])' = 0
    BY <1>1, <1>8 DEF ArrivingNow, Arriving, ResetAt, WindowStart, Window
  <2>2. HeldNow(entry[n])' = 0
    BY <1>1, <1>7 DEF HeldNow, ResetAt, WindowStart, Window
  <2>3. DOMAIN f = Slots /\ \A s \in Slots : f[s] = 0
    BY <2>1
  <2>4. SumFunction(f) = 0
    BY <2>3, SetSumZero, SumIsOverDomain
  <2>5. StockNow(n)' = HeldNow(entry[n])' + SumFunction(f)
    BY DEF StockNow
  <2> HIDE DEF f
  <2> QED BY <2>2, <2>4, <2>5
<1> QED BY <1>10, <1>11

\* Time: within a window nothing changes, and a new one begins with nothing.
LEMMA CoupledTick ==
  ASSUME CoupledBetweenCalls, IsFiniteSet(Slots), TypeOK, TypeOK', WaitersInv, CleanInv, CoupledInv,
         PastWithin(Limit), Tick
  PROVE  CleanInv' /\ CoupledInv'
<1>1. UNCHANGED <<entry, lease, waiting, granted, prompt>> /\ now \in Nat /\ now' \in Nat /\ now <= now'
  BY LeasedAssumption DEF TypeOK, Tick
<1>2. CASE Window(now') = Window(now)
  <2>1. ResetAt(now') = ResetAt(now) /\ 0..now \subseteq 0..now'
    BY <1>1, <1>2, WindowEnds
  <2>2. ResetAt(now)' = ResetAt(now) /\ Window(now)' = Window(now)
    BY <1>2, <2>1 DEF ResetAt, WindowStart, Window
  <2>3. ASSUME NEW n \in Node PROVE CleanAt(n)' /\ StockNow(n)' = StockNow(n)
    <3>1. CleanAt(n)
      BY DEF CleanInv
    <3>2. StockNow(n)' = StockNow(n)
      BY <1>1, <2>2 DEF StockNow, HeldNow, ArrivingNow
    <3>3. (Touched(n)' <=> Touched(n)) /\ (Clean(entry[n])' <=> Clean(entry[n]))
      BY <1>1, <2>2 DEF Touched, Clean
    <3>4. (Decided(entry[n].resetAt) => Decided(entry[n].resetAt)')
      BY <1>1, <2>1 DEF Decided, ResetAt, WindowStart, Window
    <3>5. \A s \in Slots : Decided(lease[n][s].resetAt) => Decided(lease[n][s].resetAt)'
      BY <1>1, <2>1 DEF Decided, ResetAt, WindowStart, Window
    <3>6. (\A s \in Slots : lease[n][s].st = "replied" =>
             /\ lease[n][s].resetAt # 0 /\ Decided(lease[n][s].resetAt)
             /\ lease[n][s].kind = "demand" => lease[n][s].resetAt = ResetAt(now))'
      BY <1>1, <2>2, <3>1, <3>5 DEF CleanAt
    <3>7. (Decided(entry[n].resetAt) /\ (entry[n].credits > 0 => entry[n].resetAt # 0))'
      BY <1>1, <3>1, <3>4 DEF CleanAt
    <3> QED BY <3>1, <3>2, <3>3, <3>6, <3>7 DEF CleanAt
  <2>4. [n \in Node |-> StockNow(n)]' = [n \in Node |-> StockNow(n)]
    BY <2>3
  <2> QED BY <1>1, <2>2, <2>3, <2>4 DEF CleanInv, CoupledInv
<1>3. CASE Window(now') # Window(now)
  <2> DEFINE f == [n \in Node |-> StockNow(n)']
  <2>1. \A n \in Node : CleanAt(n)' /\ StockNow(n)' = 0
    BY <1>3, WindowOpens
  <2>2. N \in Nat /\ \A n \in 1..N : f[n] = 0
    BY <2>1, LeasedAssumption DEF Node
  <2> HIDE DEF f
  <2>3. Sum(f, N) = 0
    BY ONLY <2>2, SumZero
  <2>4. prompt'[Window(now')] = 0 /\ granted'[Window(now')] \in Nat
    <3>1. now' \in 0..MaxTime
      BY DEF TypeOK
    <3>2. Window(now') \in Windows /\ Window(now) < Window(now')
      BY <1>1, <1>3, <3>1, WindowInRange, WindowNat, WindowMonotone
    <3> QED BY <1>1, <3>2 DEF PastWithin, TypeOK
  <2>5. prompt'[Window(now')] + Sum(f, N) <= granted'[Window(now')]
    BY <2>3, <2>4
  <2>6. CoupledInv'
    BY <2>5 DEF CoupledInv, f, Window
  <2> QED BY <2>1, <2>6 DEF CleanInv
<1> QED BY <1>2, <1>3

\* Every step keeps the nodes clean, and the sum.
LEMMA CoupledStep ==
  ASSUME CoupledBetweenCalls, IsFiniteSet(Slots), TypeOK, TypeOK', WaitersInv, CleanInv, CoupledInv,
         PastWithin(Limit), [Next]_vars
  PROVE  CleanInv' /\ CoupledInv'
<1>1. ASSUME NEW n \in Node, NEW r \in Reqs, NEW c \in Costs, Check(n, r, c) PROVE CleanInv' /\ CoupledInv'
  <2> DEFINE e == Unexpired(EntryFor(n))
  <2>1. /\ \/ Serve(n, e, c, Window(now)) /\ waiting' = waiting
           \/ AwaitLease(n, e, r, c, Window(now), waiting[n])
        /\ UNCHANGED <<now, granted>>
    BY <1>1 DEF Check
  <2>2. \A m \in Node : m # n => waiting'[m] = waiting[m]
    BY <2>1 DEF AwaitLease, TypeOK
  <2> QED BY <2>1, <2>2, CoupledWork
<1>2. ASSUME NEW n \in Node, NEW i \in DOMAIN waiting[n], Resume(n, i) PROVE CleanInv' /\ CoupledInv'
  <2> DEFINE w == waiting[n][i]
             e == EntryFor(n)
             q == Without(waiting[n], i)
  <2>1. w.cost \in Costs
    <3>1. w \in WaiterType
      BY SMTT(30) DEF TypeOK
    <3> HIDE DEF w
    <3> QED BY <3>1 DEF WaiterType
  <2>2. waiting[n] # <<>>
    OBVIOUS
  <2>3. \A m \in Node : m # n => waiting'[m] = waiting[m]
    BY <1>2 DEF Resume, AwaitLease, TypeOK
  <2>4. /\ \/ UNCHANGED <<entry, lease, prompt>>
           \/ entry' = [entry EXCEPT ![n] = e] /\ UNCHANGED <<lease, prompt>>
           \/ Serve(n, e, w.cost, w.at)
           \/ AwaitLease(n, e, w.req, w.cost, w.at, q)
        /\ UNCHANGED <<now, granted>>
    BY <1>2 DEF Resume
  <2>5. UNCHANGED entry => entry' = [entry EXCEPT ![n] = entry[n]]
    BY DEF TypeOK
  <2> HIDE DEF w, q, e
  <2>6. CASE UNCHANGED <<entry, lease, prompt>>
    BY <2>1, <2>2, <2>3, <2>4, <2>5, <2>6, CoupledWork
  <2>7. CASE ~UNCHANGED <<entry, lease, prompt>>
    BY <2>1, <2>2, <2>3, <2>4, <2>7, CoupledWork DEF e
  <2> QED BY <2>6, <2>7
<1>3. ASSUME NEW n \in Node, NEW s \in Slots, Callback(n, s) PROVE CleanInv' /\ CoupledInv'
  BY <1>3, CoupledCalled
<1>4. ASSUME NEW n \in Node, Evict(n) \/ Reset(n) PROVE CleanInv' /\ CoupledInv'
  BY <1>4, CoupledForget
<1>5. CASE L2Reset \/ UNCHANGED vars
  <2>1. UNCHANGED <<now, entry, lease, waiting, granted, prompt>>
    BY <1>5 DEF L2Reset, vars
  <2>2. \A n \in Node : (CleanAt(n) <=> CleanAt(n)') /\ StockNow(n)' = StockNow(n)
    BY <2>1 DEF CleanAt, Clean, Touched, Decided, StockNow, HeldNow, ArrivingNow, ResetAt, WindowStart, Window
  <2>3. [n \in Node |-> StockNow(n)]' = [n \in Node |-> StockNow(n)]
    BY <2>2
  <2> QED BY <2>1, <2>2, <2>3 DEF CleanInv, CoupledInv, Window
<1>6. CASE Tick
  BY <1>6, CoupledTick
<1> QED BY <1>1, <1>2, <1>3, <1>4, <1>5, <1>6 DEF Next

\* Nothing is stocked or admitted in the initial state.
LEMMA CoupledInit ==
  ASSUME IsFiniteSet(Slots), Init
  PROVE  CleanInv /\ CoupledInv /\ PastWithin(Limit)
<1>1. TypeOK
  BY TypeInit
<1>2. \A n \in Node : /\ entry[n].credits = 0 /\ entry[n].resetAt = 0 /\ waiting[n] = <<>>
                      /\ \A s \in Slots : lease[n][s].st = "free"
  BY DEF Init, NoEntry, FreshEntry, FreeLease
<1>3. CleanInv
  BY <1>2 DEF CleanInv, CleanAt, Clean, Decided
<1>4. \A n \in Node : StockNow(n) = 0
  <2> TAKE n \in Node
  <2> DEFINE f == [s \in Slots |-> ArrivingNow(lease[n][s])]
  <2>1. DOMAIN f = Slots /\ \A s \in Slots : f[s] = 0
    BY <1>2 DEF ArrivingNow, Arriving
  <2>2. SumFunction(f) = 0
    BY <2>1, SetSumZero, SumIsOverDomain
  <2>3. HeldNow(entry[n]) = 0
    BY <1>2 DEF HeldNow
  <2> QED BY <2>2, <2>3 DEF StockNow
<1>5. Sum([n \in Node |-> StockNow(n)], N) = 0
  <2>1. \A n \in 1..N : [m \in Node |-> StockNow(m)][n] = 0
    BY <1>4 DEF Node
  <2>2. N \in Nat
    BY LeasedAssumption
  <2> QED BY ONLY <2>1, <2>2, SumZero
<1>6. \A w \in Windows : prompt[w] = 0 /\ granted[w] = 0
  BY DEF Init
<1>7. Window(now) \in Windows
  BY <1>1, WindowInRange DEF TypeOK
<1>8. CoupledInv
  BY <1>5, <1>6, <1>7 DEF CoupledInv
<1>9. PastWithin(Limit)
  BY <1>6, LeasedAssumption DEF PastWithin
<1> QED BY <1>3, <1>8, <1>9

\* lease.windowCoupled "tightens the global per-window bound ... to exactly Limit"
\* (src/src/twotier/index.ts), for a store that decides at its own clock, where the boundary of a
\* window falls between the calls: whatever the batches, the costs and the proactive refills, and
\* across failed calls, late answers and evictions.
THEOREM CoupledBounded ==
  ASSUME CoupledBetweenCalls, IsFiniteSet(Slots)
  PROVE  Spec => []CoupledBound
<1> DEFINE Inv == /\ BudgetInv /\ WaitersInv /\ resets.issued = 0
                  /\ CleanInv /\ CoupledInv /\ PastWithin(Limit)
<1>1. ServerTime = TRUE /\ MaxResets = 0 /\ Limit \in Nat
  BY LeasedAssumption DEF CoupledBetweenCalls
<1>2. Init => TypeOK /\ Inv
  BY <1>1, TypeInit, BudgetInit, WaitersInit, NoResets, CoupledInit
<1>3. ASSUME TypeOK, Inv PROVE prompt[Window(now)] <= Limit
  <2> DEFINE f == [n \in Node |-> StockNow(n)]
  <2>1. N \in Nat /\ \A n \in 1..N : f[n] \in Nat
    BY <1>3, StockNowNat, LeasedAssumption DEF Node
  <2> HIDE DEF f
  <2>2. Sum(f, N) \in Nat
    BY ONLY <2>1, SumNat
  <2>3. prompt[Window(now)] + Sum(f, N) <= granted[Window(now)]
    BY <1>3 DEF CoupledInv, f
  <2>4. prompt[Window(now)] \in Nat /\ granted[Window(now)] \in Nat /\ granted[Window(now)] <= Limit
    <3>1. Window(now) \in Windows
      BY <1>3, WindowInRange DEF TypeOK
    <3> QED BY <1>3, <3>1, GrantedWithinLimit DEF TypeOK
  <2> QED BY <1>1, <2>2, <2>3, <2>4
<1>4. TypeOK /\ Inv => CoupledBound
  <2> SUFFICES ASSUME TypeOK, Inv, NEW w \in Windows PROVE prompt[w] <= Limit
    BY DEF CoupledBound
  <2>1. Window(now) \in Int /\ w \in Int
    BY WindowInRange DEF TypeOK, Windows
  <2>2. CASE w = Window(now)
    BY <1>3, <2>2
  <2>3. CASE w # Window(now)
    BY <1>1, <2>1, <2>3 DEF PastWithin
  <2> QED BY <2>2, <2>3
<1>5. TypeOK /\ TypeOK' /\ Inv /\ [Next]_vars => Inv'
  <2> SUFFICES ASSUME TypeOK, TypeOK', Inv, [Next]_vars PROVE Inv'
    OBVIOUS
  <2>1. BudgetInv' /\ WaitersInv' /\ resets'.issued = 0
    BY <1>1, BudgetStep, WaitersStep, NoResets
  <2>2. CleanInv' /\ CoupledInv'
    BY CoupledStep
  <2>3. PastWithin(Limit)'
    BY <1>3, PastStep
  <2> QED BY <2>1, <2>2, <2>3
<1> HIDE DEF Inv
<1> QED BY <1>2, <1>4, <1>5, TypeInit, TypeStep, PTL DEF Spec

----------------------------------------------------------------------------
(* What a node holds when it also refills ahead of need *)

\* The amounts a node leases, and the credits at which it does.
LEMMA BothNat ==
    /\ ShortOf \in Nat /\ LowWater \in Nat /\ LowWater <= ShortOf /\ MaxBatch \in Nat
    /\ Larger(MaxBatch, MaxCost) \in Nat /\ HoldBoth = ShortOf + MaxBatch + Larger(MaxBatch, MaxCost)
    /\ \A b \in BatchSizes : b \in Nat /\ b <= MaxBatch
    /\ \A c \in Costs : c \in Nat /\ c - 1 <= ShortOf
    /\ \A b \in BatchSizes, c \in Costs : Larger(b, c) \in Nat /\ Larger(b, c) <= Larger(MaxBatch, MaxCost)
<1>1. MaxCost \in Nat /\ MaxBatch \in Nat /\ LowWater \in Nat /\ MaxCost >= 1
  BY HoldMaxNat, LeasedAssumption
<1>2. (\A b \in BatchSizes : b \in Nat /\ b <= MaxBatch) /\ \A c \in Costs : c \in Nat /\ c <= MaxCost
  BY LeasedAssumption
<1>3. ShortOf \in Nat /\ LowWater <= ShortOf /\ MaxCost - 1 <= ShortOf
  BY <1>1 DEF ShortOf, Larger
<1>4. \A c \in Costs : c - 1 <= ShortOf
  BY <1>1, <1>2, <1>3
<1> QED BY <1>1, <1>2, <1>3, <1>4 DEF HoldBoth, Larger

\* An entry that holds no more, with the same flags.
LEMMA BothLess ==
  ASSUME NEW e \in EntryType, NEW f \in EntryType, NEW L, HeldBoth(e, L), f.credits <= e.credits,
         f.live = e.live, f.pending = e.pending, f.refilling = e.refilling
  PROVE  HeldBoth(f, L)
<1>1. e.credits \in Nat /\ f.credits \in Nat
  BY DEF EntryType
<1> QED BY <1>1, BothNat DEF HeldBoth

\* The entry a check works on holds no more than the one kept.
LEMMA BothEntry ==
  ASSUME TypeOK, HeldBothInv, NEW n \in Node
  PROVE  /\ HeldBoth(EntryFor(n), lease[n]) /\ HeldBoth(Unexpired(EntryFor(n)), lease[n])
         /\ EntryFor(n).live /\ Unexpired(EntryFor(n)).live
<1>1. EntryFor(n) \in EntryType /\ Unexpired(EntryFor(n)) \in EntryType
  BY EntryForTyped
<1>2. HeldBoth(entry[n], lease[n])
  BY DEF HeldBothInv
<1>3. HeldBoth(EntryFor(n), lease[n]) /\ EntryFor(n).live
  <2>1. CASE entry[n].live
    BY <1>2, <2>1 DEF EntryFor
  <2>2. CASE ~entry[n].live
    <3>1. \A s \in Slots : lease[n][s].st = "free"
      BY <1>2, <2>2 DEF HeldBoth
    <3>2. EntryFor(n).credits = 0 /\ EntryFor(n).live
      BY <2>2 DEF EntryFor, FreshEntry
    <3> QED BY <3>1, <3>2, BothNat DEF HeldBoth
  <2> QED BY <2>1, <2>2
<1>4. /\ Unexpired(EntryFor(n)).credits <= EntryFor(n).credits
      /\ Unexpired(EntryFor(n)).live = EntryFor(n).live /\ Unexpired(EntryFor(n)).pending = EntryFor(n).pending
      /\ Unexpired(EntryFor(n)).refilling = EntryFor(n).refilling
  BY <1>1 DEF Unexpired, EntryType
<1> QED BY <1>1, <1>3, <1>4, BothLess

\* A call that is sent when the credits are low, and none of its kind is under way.
LEMMA BothIssue ==
  ASSUME NEW e \in EntryType, NEW f \in EntryType, NEW L, NEW M, NEW s \in Slots, HeldBoth(e, L),
         M[s].st = "sent", M[s].amt \in Nat, \A t \in Slots : t # s => M[t] = L[t],
         f.live, f.credits <= ShortOf,
         \/ /\ M[s].kind = "demand" /\ e.pending = NoSlot /\ f.pending = s /\ f.refilling = e.refilling
            /\ M[s].amt <= Larger(MaxBatch, MaxCost)
         \/ /\ M[s].kind = "refill" /\ ~e.refilling /\ f.refilling /\ f.pending = e.pending
            /\ M[s].amt <= MaxBatch,
         L[s].st = "free",
         \A t \in Slots : L[t].kind \in {"demand", "refill"}
  PROVE  HeldBoth(f, M)
<1>1. f.credits \in Nat /\ \A t \in Slots : t # NoSlot
  BY LeasedAssumption DEF EntryType
<1>2. \A t \in Slots : t # s /\ L[t].st # "free" => L[t].kind # M[s].kind
  BY <1>1 DEF HeldBoth
<1>3. \A t \in Slots : M[t].st # "free" => f.live /\ IF M[t].kind = "demand" THEN f.pending = t ELSE f.refilling
  BY <1>2 DEF HeldBoth
<1>4. \A t, u \in Slots : M[t].st # "free" /\ M[u].st # "free" /\ M[t].kind = M[u].kind => t = u
  BY <1>2 DEF HeldBoth
<1>5. \A t \in Slots : M[t].st \in {"sent", "replied"} =>
        IF M[t].kind = "demand"
        THEN M[t].amt <= Larger(MaxBatch, MaxCost) /\ f.credits <= ShortOf + MaxBatch
        ELSE M[t].amt <= MaxBatch /\ f.credits <= ShortOf + Larger(MaxBatch, MaxCost)
  <2> TAKE t \in Slots
  <2>1. f.credits <= ShortOf + MaxBatch /\ f.credits <= ShortOf + Larger(MaxBatch, MaxCost)
    BY <1>1, BothNat
  <2>2. CASE t = s
    BY <2>1, <2>2
  <2>3. CASE t # s
    BY <2>1, <2>3 DEF HeldBoth
  <2> QED BY <2>2, <2>3
<1>6. f.credits <= HoldBoth
  BY <1>1, BothNat
<1> QED BY <1>3, <1>4, <1>5, <1>6 DEF HeldBoth

\* Serving a request lowers the credits, and refills when they are low and no refill is under way.
LEMMA BothServe ==
  ASSUME TypeOK, TypeOK', NEW n \in Node, NEW e \in EntryType, NEW c \in Costs, NEW w, e.live,
         HeldBoth(e, lease[n]), Serve(n, e, c, w)
  PROVE  HeldBoth(entry'[n], lease'[n])
<1> DEFINE f == Spend(e, c)
           h == [f EXCEPT !.refilling = TRUE]
<1>1. c \in Nat /\ e.credits >= c /\ e.credits \in Nat
  BY BothNat DEF Serve, Covers, EntryType
<1>2. f \in EntryType /\ f.credits = e.credits - c /\ f.live = e.live /\ f.pending = e.pending /\ f.refilling = e.refilling
  <2>1. PICK x \in Nat : x = e.credits - c
    BY <1>1
  <2>2. f = [e EXCEPT !.credits = x]
    BY <2>1 DEF Spend
  <2> HIDE DEF f
  <2>3. f \in EntryType /\ f.credits = x
    BY <2>2 DEF EntryType
  <2>4. f.live = e.live /\ f.pending = e.pending /\ f.refilling = e.refilling
    BY <2>2 DEF EntryType
  <2> QED BY <2>1, <2>3, <2>4
<1>3. h \in EntryType /\ h.credits = f.credits /\ h.live = f.live /\ h.pending = f.pending /\ h.refilling = TRUE
  <2> HIDE DEF f
  <2> QED BY <1>2 DEF EntryType
<1>4. CASE ~WantsRefill(f)
  <2>1. entry'[n] = f /\ lease'[n] = lease[n]
    BY <1>4 DEF Serve, TypeOK
  <2> HIDE DEF f
  <2>2. f.credits <= e.credits
    BY <1>1, <1>2
  <2> QED BY <1>2, <2>1, <2>2, BothLess
<1>5. CASE WantsRefill(f)
  <2>1. entry'[n] = h /\ ~e.refilling /\ f.credits <= LowWater
    <3>1. entry' = [entry EXCEPT ![n] = h]
      BY <1>5 DEF Serve
    <3> HIDE DEF h, f
    <3> QED BY <1>2, <1>5, <3>1 DEF WantsRefill, TypeOK
  <2>2. PICK s \in Slots, b \in BatchSizes : lease[n][s].st = "free" /\ lease' = [lease EXCEPT ![n][s] = Sent("refill", b)]
    BY <1>5 DEF Serve
  <2>3. /\ lease'[n][s] = Sent("refill", b) /\ \A t \in Slots : t # s => lease'[n][t] = lease[n][t]
    BY <2>2 DEF TypeOK
  <2>4. Sent("refill", b).st = "sent" /\ Sent("refill", b).kind = "refill" /\ Sent("refill", b).amt = b
    BY DEF Sent, FreeLease
  <2>5. \A t \in Slots : lease[n][t].kind \in {"demand", "refill"}
    BY DEF TypeOK, LeaseType
  <2>6. b \in Nat /\ b <= MaxBatch
    BY BothNat
  <2> HIDE DEF f, h
  <2>7. h.credits <= ShortOf
    <3>1. f.credits \in Nat
      BY <1>2 DEF EntryType
    <3> QED BY <1>3, <2>1, <3>1, BothNat
  <2> DEFINE L == lease[n]
             M == lease'[n]
  <2>8. /\ M[s].st = "sent" /\ M[s].kind = "refill" /\ M[s].amt \in Nat /\ M[s].amt <= MaxBatch
        /\ L[s].st = "free" /\ \A t \in Slots : t # s => M[t] = L[t]
    BY <2>2, <2>3, <2>4, <2>6
  <2>9. h.live /\ h.refilling /\ h.pending = e.pending
    BY <1>2, <1>3
  <2> HIDE DEF L, M
  <2>10. HeldBoth(h, M)
    BY <1>3, <2>1, <2>5, <2>7, <2>8, <2>9, BothIssue DEF L
  <2> QED BY <2>1, <2>10 DEF M
<1> QED BY <1>4, <1>5

\* Awaiting a lease starts one when the credits are short and none is pending.
LEMMA BothAwait ==
  ASSUME TypeOK, TypeOK', NEW n \in Node, NEW e \in EntryType, NEW r, NEW c \in Costs, NEW w, NEW q, e.live,
         HeldBoth(e, lease[n]), AwaitLease(n, e, r, c, w, q)
  PROVE  HeldBoth(entry'[n], lease'[n])
<1>1. CASE Joins(e)
  <2>1. entry'[n] = e /\ lease'[n] = lease[n]
    BY <1>1 DEF AwaitLease, TypeOK
  <2> QED BY <2>1
<1>2. CASE ~Joins(e)
  <2>1. PICK s \in Slots, b \in BatchSizes :
          /\ lease[n][s].st = "free"
          /\ lease' = [lease EXCEPT ![n][s] = Sent("demand", Larger(b, c))]
          /\ entry' = [entry EXCEPT ![n] = [e EXCEPT !.pending = s]]
    BY <1>2 DEF AwaitLease
  <2> DEFINE f == [e EXCEPT !.pending = s]
             x == Larger(b, c)
  <2>2. f \in EntryType /\ f.credits = e.credits /\ f.live = e.live /\ f.pending = s /\ f.refilling = e.refilling
    BY DEF EntryType
  <2>3. entry'[n] = f
    BY <2>1 DEF TypeOK
  <2>4. /\ lease'[n][s] = Sent("demand", x) /\ \A t \in Slots : t # s => lease'[n][t] = lease[n][t]
    BY <2>1 DEF TypeOK
  <2>5. Sent("demand", x).st = "sent" /\ Sent("demand", x).kind = "demand" /\ Sent("demand", x).amt = x
    BY DEF Sent, FreeLease
  <2>6. \A t \in Slots : lease[n][t].kind \in {"demand", "refill"}
    BY DEF TypeOK, LeaseType
  <2>7. x \in Nat /\ x <= Larger(MaxBatch, MaxCost)
    BY BothNat
  <2>8. e.pending = NoSlot /\ e.credits <= ShortOf
    <3>1. e.credits \in Nat /\ c \in Nat /\ c - 1 <= ShortOf /\ ShortOf \in Nat /\ e.credits < c
      BY BothNat DEF EntryType, AwaitLease, Covers
    <3> QED BY <1>2, <3>1 DEF Joins
  <2> HIDE DEF f, x
  <2> DEFINE L == lease[n]
             M == lease'[n]
  <2>9. /\ M[s].st = "sent" /\ M[s].kind = "demand" /\ M[s].amt \in Nat /\ M[s].amt <= Larger(MaxBatch, MaxCost)
        /\ L[s].st = "free" /\ \A t \in Slots : t # s => M[t] = L[t]
    BY <2>1, <2>4, <2>5, <2>7
  <2>10. f.live /\ f.credits <= ShortOf
    BY <2>2, <2>8
  <2> HIDE DEF L, M
  <2>11. HeldBoth(f, M)
    BY <2>2, <2>6, <2>8, <2>9, <2>10, BothIssue DEF L
  <2> QED BY <2>3, <2>11 DEF M
<1> QED BY <1>1, <1>2

\* What the callbacks do to the flags and the credits of an entry.
LEMMA BothFields ==
  ASSUME NEW e \in EntryType, NEW c \in LeaseType, NEW s \in Slots
  PROVE  /\ \A g \in {Credited(e, c), RefillCredited(e, c)} :
              /\ g.live = e.live /\ g.pending = e.pending /\ g.refilling = e.refilling
              /\ g.credits = e.credits \/ g.credits = e.credits + c.amt
         /\ RefillDone(e).live = e.live /\ RefillDone(e).pending = e.pending /\ RefillDone(e).credits = e.credits
         /\ ClearedPending(e, s).live = e.live /\ ClearedPending(e, s).refilling = e.refilling
<1>1. e.credits \in Nat /\ c.amt \in Nat
  BY DEF EntryType, LeaseType
<1>2. /\ Credited(e, c).live = e.live /\ Credited(e, c).pending = e.pending /\ Credited(e, c).refilling = e.refilling
      /\ Credited(e, c).credits = e.credits \/ Credited(e, c).credits = e.credits + c.amt
  <2>1. CASE e.live
    <3>1. PICK x \in Nat : x = e.credits + IF c.ok THEN c.amt ELSE 0
      BY <1>1
    <3> DEFINE g == [e EXCEPT !.resetAt = c.resetAt, !.credits = x]
    <3>2. Credited(e, c) = g
      BY <2>1, <3>1 DEF Credited
    <3>3. g.live = e.live /\ g.pending = e.pending /\ g.refilling = e.refilling /\ g.credits = x
      BY DEF EntryType
    <3> HIDE DEF g
    <3> QED BY <1>1, <3>1, <3>2, <3>3
  <2>2. CASE ~e.live
    BY <2>2 DEF Credited
  <2> QED BY <2>1, <2>2
<1>3. RefillCredited(e, c) = e \/ RefillCredited(e, c) = Credited(e, c)
  BY DEF RefillCredited
<1>4. RefillDone(e).live = e.live /\ RefillDone(e).pending = e.pending /\ RefillDone(e).credits = e.credits
  BY DEF RefillDone, EntryType
<1>5. ClearedPending(e, s).live = e.live /\ ClearedPending(e, s).refilling = e.refilling
  BY DEF ClearedPending, EntryType
<1> QED BY <1>2, <1>3, <1>4, <1>5

\* A grant is credited on top of what the node may hold beside it.
LEMMA BothCallback ==
  ASSUME TypeOK, TypeOK', HeldBothInv, NEW n \in Node, NEW s \in Slots, Callback(n, s)
  PROVE  HeldBoth(entry'[n], lease'[n])
<1> DEFINE L == lease[n]
           M == lease'[n]
           e == entry[n]
           f == entry'[n]
           D == Larger(MaxBatch, MaxCost)
<1>1. /\ e \in EntryType /\ f \in EntryType /\ HeldBoth(e, L) /\ L[s] \in LeaseType
      /\ \A t \in Slots : t # s => M[t] = L[t]
  BY SMTT(60), CallbackEffect DEF TypeOK, HeldBothInv
<1>2. /\ e.credits \in Nat /\ f.credits \in Nat /\ L[s].amt \in Nat /\ L[s].kind \in {"demand", "refill"}
  <2> HIDE DEF e, f, L
  <2> QED BY <1>1 DEF EntryType, LeaseType
<1>3. \A t \in Slots : L[t].kind \in {"demand", "refill"}
  <2>1. \A t \in Slots : L[t] \in LeaseType
    BY DEF TypeOK
  <2> HIDE DEF L
  <2> QED BY <2>1 DEF LeaseType
<1>4. CASE L2Apply(n, s) \/ L2Fail(n, s)
  <2>1. /\ f = e /\ M[s].kind = L[s].kind /\ L[s].st \in {"sent", "replied"}
        /\ M[s].st = "lost" \/ (M[s].st = "replied" /\ M[s].amt = L[s].amt)
    BY <1>4, CallbackFields
  <2> HIDE DEF L, M, e, f
  <2>2. \A t \in Slots : /\ M[t].kind = L[t].kind /\ (M[t].st # "free" => L[t].st # "free")
                         /\ M[t].st \in {"sent", "replied"} => L[t].st \in {"sent", "replied"} /\ M[t].amt = L[t].amt
    BY <1>1, <2>1
  <2>3. HeldBoth(e, M)
    BY <1>1, <2>2 DEF HeldBoth
  <2> QED BY <2>1, <2>3 DEF M, f
<1>5. CASE LeaseSettles(n, s) \/ RefillSettles(n, s)
  <2>1. /\ L[s].st # "free" /\ M[s].st \in {"free", "settled"} /\ f.live = e.live /\ f.pending = e.pending
        /\ L[s].kind = "demand" => f.refilling = e.refilling
        /\ L[s].kind = "refill" => M[s].st = "free"
        /\ M[s].st # "free" => M[s].kind = "demand"
        /\ f.credits = e.credits \/ (L[s].st = "replied" /\ f.credits = e.credits + L[s].amt)
    <3>1. CASE LeaseSettles(n, s)
      <4>1. /\ L[s].kind = "demand" /\ L[s].st = "replied" /\ M[s].kind = "demand" /\ M[s].st = "settled"
            /\ f = Credited(e, L[s])
        BY <3>1, CallbackFields
      <4> HIDE DEF L, M, e, f
      <4> QED BY <1>1, <4>1, BothFields
    <3>2. CASE RefillSettles(n, s)
      <4> DEFINE g == IF L[s].st = "lost" THEN e ELSE RefillCredited(e, L[s])
      <4>1. /\ L[s].kind = "refill" /\ L[s].st \in {"replied", "lost"} /\ M[s] = FreeLease /\ f = RefillDone(g)
        BY <3>2, CallbackFields
      <4>2. g \in EntryType
        BY <1>1, CreditedTyped
      <4> HIDE DEF L, M, e, f
      <4>3. /\ g.live = e.live /\ g.pending = e.pending
            /\ g.credits = e.credits \/ (L[s].st = "replied" /\ g.credits = e.credits + L[s].amt)
        BY <1>1, <4>1, BothFields
      <4> HIDE DEF g
      <4>4. f.live = g.live /\ f.pending = g.pending /\ f.credits = g.credits
        BY <1>1, <4>1, <4>2, BothFields
      <4>5. M[s].st = "free"
        BY <4>1 DEF FreeLease
      <4> QED BY <4>1, <4>3, <4>4, <4>5
    <3> QED BY <1>5, <3>1, <3>2
  <2> HIDE DEF L, M, e, f
  <2>2. \A t \in Slots : M[t].st \in {"sent", "replied"} => t # s /\ M[t] = L[t]
    BY <1>1, <2>1
  <2>3. \A t \in Slots : M[t].st # "free" => f.live /\ IF M[t].kind = "demand" THEN f.pending = t ELSE f.refilling
    <3> SUFFICES ASSUME NEW t \in Slots, M[t].st # "free"
                 PROVE  f.live /\ IF M[t].kind = "demand" THEN f.pending = t ELSE f.refilling
      OBVIOUS
    <3>1. CASE t = s
      <4>1. L[s].kind = "demand" /\ M[s].kind = "demand"
        BY <1>2, <2>1, <3>1
      <4>2. e.live /\ e.pending = s
        BY <1>1, <2>1, <4>1 DEF HeldBoth
      <4> QED BY <2>1, <3>1, <4>1, <4>2
    <3>2. CASE t # s
      <4>1. M[t] = L[t] /\ e.live /\ f.live
        BY <1>1, <2>1, <3>2 DEF HeldBoth
      <4>2. CASE M[t].kind = "demand"
        BY <1>1, <2>1, <3>2, <4>1, <4>2 DEF HeldBoth
      <4>3. CASE M[t].kind # "demand"
        <5>1. L[t].kind = "refill" /\ e.refilling
          BY <1>1, <1>3, <3>2, <4>1, <4>3 DEF HeldBoth
        <5>2. L[s].kind = "demand"
          BY <1>1, <1>2, <2>1, <3>2, <4>1, <5>1 DEF HeldBoth
        <5> QED BY <2>1, <4>1, <4>3, <5>1, <5>2
      <4> QED BY <4>2, <4>3
    <3> QED BY <3>1, <3>2
  <2>4. \A t, u \in Slots : M[t].st # "free" /\ M[u].st # "free" /\ M[t].kind = M[u].kind => t = u
    <3>1. \A t \in Slots : M[t].st # "free" => L[t].st # "free" /\ M[t].kind = L[t].kind
      BY <1>1, <1>2, <2>1
    <3> QED BY <1>1, <3>1 DEF HeldBoth
  <2>5. ASSUME NEW t \in Slots, M[t].st \in {"sent", "replied"}
        PROVE  IF M[t].kind = "demand" THEN M[t].amt <= D /\ f.credits <= ShortOf + MaxBatch
               ELSE M[t].amt <= MaxBatch /\ f.credits <= ShortOf + D
    <3>1. t # s /\ M[t] = L[t] /\ L[t].st \in {"sent", "replied"} /\ L[t].st # "free"
      BY <2>2, <2>5
    <3>2. CASE f.credits = e.credits
      BY <1>1, <3>1, <3>2 DEF HeldBoth
    <3>3. CASE L[s].st = "replied" /\ f.credits = e.credits + L[s].amt
      <4>1. e.credits <= ShortOf /\ L[s].kind # L[t].kind
        BY <1>1, <3>1, <3>3 DEF HeldBoth
      <4>2. /\ L[s].kind = "demand" => L[s].amt <= D
            /\ L[s].kind = "refill" => L[s].amt <= MaxBatch
            /\ IF L[t].kind = "demand" THEN L[t].amt <= D ELSE L[t].amt <= MaxBatch
        BY <1>1, <3>1, <3>3 DEF HeldBoth
      <4>3. (L[t].kind = "demand" => f.credits <= ShortOf + MaxBatch) /\ (L[t].kind = "refill" => f.credits <= ShortOf + D)
        BY <1>2, <1>3, <3>3, <4>1, <4>2, BothNat
      <4> QED BY <1>3, <3>1, <4>2, <4>3
    <3> QED BY <2>1, <3>2, <3>3
  <2>6. \A t, u \in Slots : M[t].st \in {"sent", "replied"} /\ M[u].st \in {"sent", "replied"} /\ t # u => f.credits <= ShortOf
    <3> SUFFICES ASSUME NEW t \in Slots, NEW u \in Slots, M[t].st \in {"sent", "replied"},
                        M[u].st \in {"sent", "replied"}, t # u
                 PROVE  FALSE
      OBVIOUS
    <3>1. t # s /\ u # s /\ L[t].st # "free" /\ L[u].st # "free"
      BY <2>2
    <3>2. L[t].kind # L[u].kind /\ L[t].kind # L[s].kind /\ L[u].kind # L[s].kind
      BY <1>1, <2>1, <3>1 DEF HeldBoth
    <3> QED BY <1>3, <3>2
  <2>7. f.credits <= HoldBoth
    <3>1. CASE f.credits = e.credits
      BY <1>1, <3>1 DEF HeldBoth
    <3>2. CASE L[s].st = "replied" /\ f.credits = e.credits + L[s].amt
      <4>1. IF L[s].kind = "demand" THEN L[s].amt <= D /\ e.credits <= ShortOf + MaxBatch
            ELSE L[s].amt <= MaxBatch /\ e.credits <= ShortOf + D
        BY <1>1, <3>2 DEF HeldBoth
      <4> QED BY <1>2, <3>2, <4>1, BothNat
    <3> QED BY <2>1, <3>1, <3>2
  <2>8. HeldBoth(f, M)
    BY <2>3, <2>4, <2>5, <2>6, <2>7 DEF HeldBoth
  <2> QED BY <2>8 DEF M, f
<1>6. CASE PendingCleared(n, s) \/ LeaseRejects(n, s)
  <2>1. /\ L[s].st # "free" /\ M[s].st = "free" /\ f = ClearedPending(e, s)
    BY <1>6, CallbackFields DEF FreeLease
  <2> HIDE DEF L, M, e, f
  <2>2. /\ f.live = e.live /\ f.refilling = e.refilling /\ f.credits = e.credits
        /\ f.pending = IF e.pending = s THEN NoSlot ELSE e.pending
    BY <1>1, <2>1, BothFields, EntryFields
  <2>3. \A t \in Slots : M[t].st # "free" => t # s /\ M[t] = L[t]
    BY <1>1, <2>1
  <2>4. \A t \in Slots : M[t].st # "free" => f.live /\ IF M[t].kind = "demand" THEN f.pending = t ELSE f.refilling
    BY <1>1, <2>2, <2>3 DEF HeldBoth
  <2>5. HeldBoth(f, M)
    BY <1>1, <2>2, <2>3, <2>4 DEF HeldBoth
  <2> QED BY <2>5 DEF M, f
<1> QED BY <1>4, <1>5, <1>6 DEF Callback

\* Where no entry is forgotten, every step keeps what a node holds within the bound.
LEMMA BothStep ==
  ASSUME CanEvict = FALSE, MaxResets = 0
  PROVE  TypeOK /\ TypeOK' /\ HeldBothInv /\ [Next]_vars => HeldBothInv'
<1> SUFFICES ASSUME TypeOK, TypeOK', HeldBothInv, [Next]_vars PROVE HeldBothInv'
  OBVIOUS
<1>1. ASSUME NEW n \in Node, HeldBoth(entry'[n], lease'[n]),
             \A m \in Node : m # n => entry'[m] = entry[m] /\ lease'[m] = lease[m]
      PROVE  HeldBothInv'
  BY <1>1 DEF HeldBothInv
<1>2. ASSUME NEW n \in Node, NEW r \in Reqs, NEW c \in Costs, Check(n, r, c) PROVE HeldBothInv'
  <2> DEFINE e == Unexpired(EntryFor(n))
  <2>1. e \in EntryType /\ e.live /\ HeldBoth(e, lease[n])
    BY BothEntry, EntryForTyped
  <2>2. Serve(n, e, c, Window(now)) \/ AwaitLease(n, e, r, c, Window(now), waiting[n])
    BY <1>2 DEF Check
  <2> HIDE DEF e
  <2>3. HeldBoth(entry'[n], lease'[n])
    BY <2>1, <2>2, BothServe, BothAwait
  <2>4. \A m \in Node : m # n => entry'[m] = entry[m] /\ lease'[m] = lease[m]
    BY <2>1, <2>2, ServeEffect, AwaitEffect
  <2> QED BY <1>1, <2>3, <2>4
<1>3. ASSUME NEW n \in Node, NEW i \in DOMAIN waiting[n], Resume(n, i) PROVE HeldBothInv'
  <2> DEFINE w == waiting[n][i]
             e == EntryFor(n)
             q == Without(waiting[n], i)
  <2>1. e \in EntryType /\ e.live /\ HeldBoth(e, lease[n]) /\ HeldBoth(entry[n], lease[n])
    BY BothEntry, EntryForTyped DEF HeldBothInv
  <2>2. w.cost \in Costs
    <3>1. w \in WaiterType
      BY DEF TypeOK
    <3> HIDE DEF w
    <3> QED BY <3>1 DEF WaiterType
  <2>3. \/ UNCHANGED <<entry, lease>>
        \/ entry' = [entry EXCEPT ![n] = e] /\ UNCHANGED lease
        \/ Serve(n, e, w.cost, w.at)
        \/ AwaitLease(n, e, w.req, w.cost, w.at, q)
    BY <1>3 DEF Resume
  <2> HIDE DEF w, e, q
  <2>4. CASE UNCHANGED <<entry, lease>>
    BY <1>1, <2>1, <2>4
  <2>5. CASE entry' = [entry EXCEPT ![n] = e] /\ UNCHANGED lease
    <3>1. entry'[n] = e /\ \A m \in Node : m # n => entry'[m] = entry[m]
      BY <2>5 DEF TypeOK
    <3> QED BY <1>1, <2>1, <2>5, <3>1
  <2>6. CASE Serve(n, e, w.cost, w.at)
    <3>1. HeldBoth(entry'[n], lease'[n])
      BY <2>1, <2>2, <2>6, BothServe
    <3>2. \A m \in Node : m # n => entry'[m] = entry[m] /\ lease'[m] = lease[m]
      BY <2>1, <2>2, <2>6, ServeEffect
    <3> QED BY <1>1, <3>1, <3>2
  <2>7. CASE AwaitLease(n, e, w.req, w.cost, w.at, q)
    <3>1. HeldBoth(entry'[n], lease'[n])
      BY <2>1, <2>2, <2>7, BothAwait
    <3>2. \A m \in Node : m # n => entry'[m] = entry[m] /\ lease'[m] = lease[m]
      BY <2>1, <2>7, AwaitEffect
    <3> QED BY <1>1, <3>1, <3>2
  <2> QED BY <2>3, <2>4, <2>5, <2>6, <2>7
<1>4. ASSUME NEW n \in Node, NEW s \in Slots, Callback(n, s) PROVE HeldBothInv'
  BY <1>1, <1>4, BothCallback, CallbackEffect
<1>5. ~\E n \in Node : Evict(n) \/ Reset(n)
  BY DEF Evict, Reset, TypeOK
<1>6. CASE L2Reset \/ Tick \/ UNCHANGED vars
  <2>1. UNCHANGED <<entry, lease>>
    BY <1>6 DEF L2Reset, Tick, vars
  <2> QED BY <2>1 DEF HeldBothInv
<1> QED BY <1>2, <1>3, <1>4, <1>5, <1>6 DEF Next

\* A node whose entry is never forgotten has one awaited lease and one refill under way at most,
\* and holds no more than the credits at which it asks for either, with both grants on top
\* (src/src/twotier/index.ts, maybeRefill and the pending lease), for every fleet and batch,
\* across failed calls and with or without windowCoupled.
THEOREM HoldsTwoLeases ==
  ASSUME CanEvict = FALSE, MaxResets = 0
  PROVE  Spec => []NodeHoldsTwoLeases
<1>1. Init => HeldBothInv
  <2> SUFFICES ASSUME Init, NEW n \in Node PROVE HeldBoth(entry[n], lease[n])
    BY DEF HeldBothInv
  <2>1. entry[n].credits = 0 /\ \A s \in Slots : lease[n][s].st = "free"
    BY DEF Init, NoEntry, FreshEntry, FreeLease
  <2> QED BY <2>1, BothNat DEF HeldBoth
<1>2. TypeOK /\ HeldBothInv => NodeHoldsTwoLeases
  <2> SUFFICES ASSUME TypeOK, NEW n \in Node, HeldBoth(entry[n], lease[n])
               PROVE  /\ entry[n].credits <= HoldBoth
                      /\ \A s \in InFlight(n) : entry[n].credits + lease[n][s].amt <= HoldBoth
                      /\ \A s, t \in InFlight(n) : s # t =>
                            /\ lease[n][s].kind # lease[n][t].kind
                            /\ entry[n].credits + lease[n][s].amt + lease[n][t].amt <= HoldBoth
    BY DEF HeldBothInv, NodeHoldsTwoLeases
  <2> DEFINE e == entry[n]
             L == lease[n]
             D == Larger(MaxBatch, MaxCost)
  <2>1. e \in EntryType /\ \A s \in Slots : L[s] \in LeaseType
    BY DEF TypeOK
  <2>2. \A s \in InFlight(n) : s \in Slots /\ L[s].st \in {"sent", "replied"} /\ L[s].st # "free"
    BY DEF InFlight
  <2>3. HeldBoth(e, L)
    OBVIOUS
  <2> HIDE DEF e, L
  <2>4. e.credits \in Nat /\ \A s \in Slots : L[s].amt \in Nat /\ L[s].kind \in {"demand", "refill"}
    BY <2>1 DEF EntryType, LeaseType
  <2>5. \A s \in InFlight(n) :
          IF L[s].kind = "demand" THEN L[s].amt <= D /\ e.credits <= ShortOf + MaxBatch
          ELSE L[s].amt <= MaxBatch /\ e.credits <= ShortOf + D
    BY <2>2, <2>3 DEF HeldBoth
  <2>6. \A s \in InFlight(n) : e.credits + L[s].amt <= HoldBoth
    BY <2>2, <2>4, <2>5, BothNat
  <2>7. \A s, t \in InFlight(n) : s # t => L[s].kind # L[t].kind /\ e.credits <= ShortOf
    BY <2>2, <2>3 DEF HeldBoth
  <2>8. \A s, t \in InFlight(n) : s # t => e.credits + L[s].amt + L[t].amt <= HoldBoth
    BY <2>2, <2>4, <2>5, <2>7, BothNat
  <2>9. e.credits <= HoldBoth
    BY <2>3 DEF HeldBoth
  <2> QED BY <2>6, <2>7, <2>8, <2>9 DEF e, L
<1> QED BY <1>1, <1>2, TypeInit, TypeStep, BothStep, PTL DEF Spec
==============================================================================
