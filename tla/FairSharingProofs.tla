------------------------- MODULE FairSharingProofs -------------------------
(***************************************************************************)
(* Theorems about what shares or estimates a limit: the fair escrow of a   *)
(* region, the fair escrow of a federation, the sketch as a limiter and as *)
(* a mergeable table, and the cache of denials.                            *)
(***************************************************************************)
EXTENDS MCFairEscrow, SumTheorems, SequenceTheorems, TLAPS

----------------------------------------------------------------------------
(* The order of the entries of a Map *)

Once(order) == \A i, j \in DOMAIN order : order[i] = order[j] => i = j
Holds(order, key) == \E i \in DOMAIN order : order[i] = key

\* Deleting a key from the insertion order takes out that key and nothing else.
LEMMA WithoutKeyKeeps ==
    ASSUME NEW S, NEW s \in Seq(S), Once(s), NEW k
    PROVE  /\ WithoutKey(s, k) \in Seq(S) /\ Once(WithoutKey(s, k))
           /\ \A x : Holds(WithoutKey(s, k), x) <=> Holds(s, x) /\ x # k
<1> DEFINE places == {i \in DOMAIN s : s[i] = k}
           place == CHOOSE i \in places : TRUE
           r == [i \in 1..(Len(s) - 1) |-> IF i < place THEN s[i] ELSE s[i + 1]]
<1>1. CASE places = {}
  <2>1. WithoutKey(s, k) = s /\ ~Holds(s, k)
    BY <1>1 DEF WithoutKey, Holds
  <2> QED BY <2>1
<1>2. CASE places # {}
  <2>1. WithoutKey(s, k) = r
    BY <1>2 DEF WithoutKey
  <2>0. DOMAIN s = 1..Len(s) /\ Len(s) \in Nat
    OBVIOUS
  <2>2. place \in 1..Len(s) /\ s[place] = k /\ Len(s) \in Nat /\ Len(s) >= 1
    <3>1. place \in places
      BY <1>2
    <3> QED BY <2>0, <3>1
  <2> HIDE DEF place
  <2>3. DOMAIN r = 1..(Len(s) - 1) /\ Len(s) - 1 \in Nat
    BY <2>2
  <2>4. \A i \in 1..(Len(s) - 1) : IF i < place THEN i \in 1..Len(s) /\ r[i] = s[i]
                                                ELSE i + 1 \in 1..Len(s) /\ r[i] = s[i + 1]
    BY <2>2
  <2>5. r \in Seq(S)
    <3>1. \A i \in 1..(Len(s) - 1) : r[i] \in S
      BY <2>4
    <3>2. r \in [1..(Len(s) - 1) -> S]
      BY <3>1
    <3> QED BY <2>3, <3>2, SeqDef
  <2> HIDE DEF r
  <2>6. Once(r)
    <3> SUFFICES ASSUME NEW i \in 1..(Len(s) - 1), NEW j \in 1..(Len(s) - 1), r[i] = r[j] PROVE i = j
      BY <2>3 DEF Once
    <3>1. \A a, b \in 1..Len(s) : s[a] = s[b] => a = b
      BY DEF Once
    <3> QED BY <2>2, <2>4, <3>1
  <2>7. ASSUME NEW x PROVE Holds(r, x) <=> Holds(s, x) /\ x # k
    <3>1. ASSUME Holds(r, x) PROVE Holds(s, x) /\ x # k
      <4>1. PICK i \in 1..(Len(s) - 1) : r[i] = x
        BY <2>3, <3>1 DEF Holds
      <4>2. PICK j \in 1..Len(s) : s[j] = x /\ j # place
        BY <2>2, <2>4, <4>1
      <4> QED BY <2>0, <2>2, <4>2 DEF Holds, Once
    <3>2. ASSUME Holds(s, x), x # k PROVE Holds(r, x)
      <4>1. PICK j \in 1..Len(s) : s[j] = x /\ j # place
        BY <2>0, <2>2, <3>2 DEF Holds
      <4>2. CASE j < place
        <5>1. j \in 1..(Len(s) - 1)
          BY <2>2, <4>2
        <5> QED BY <2>3, <2>4, <4>1, <4>2, <5>1 DEF Holds
      <4>3. CASE j > place
        <5>1. j - 1 \in 1..(Len(s) - 1) /\ ~(j - 1 < place) /\ (j - 1) + 1 = j
          BY <2>2, <4>3
        <5>2. r[j - 1] = x
          BY <2>4, <4>1, <5>1
        <5> QED BY <2>3, <5>1, <5>2 DEF Holds
      <4> QED BY <2>2, <4>1, <4>2, <4>3
    <3> QED BY <3>1, <3>2
  <2> QED BY <2>1, <2>5, <2>6, <2>7
<1> QED BY <1>1, <1>2

\* A key that is new is appended, once.
LEMMA AppendKeeps ==
    ASSUME NEW S, NEW s \in Seq(S), Once(s), NEW k \in S, ~Holds(s, k)
    PROVE  /\ Append(s, k) \in Seq(S) /\ Once(Append(s, k))
           /\ \A x : Holds(Append(s, k), x) <=> Holds(s, x) \/ x = k
<1>1. /\ Append(s, k) \in Seq(S) /\ Len(s) \in Nat /\ DOMAIN s = 1..Len(s)
      /\ DOMAIN Append(s, k) = 1..(Len(s) + 1) /\ Append(s, k)[Len(s) + 1] = k
      /\ \A i \in 1..Len(s) : Append(s, k)[i] = s[i]
  OBVIOUS
<1> DEFINE r == Append(s, k)
           n == Len(s)
<1>0. /\ n \in Nat /\ DOMAIN s = 1..n /\ DOMAIN r = 1..(n + 1) /\ r[n + 1] = k
      /\ \A i \in 1..n : r[i] = s[i]
  BY <1>1
<1> HIDE DEF r, n
<1>2. \A i \in 1..(n + 1) : i = n + 1 \/ i \in 1..n
  BY <1>0
<1>3. \A i \in 1..n : s[i] # k /\ i \in 1..(n + 1)
  BY <1>0 DEF Holds
<1>4. Once(r)
  BY <1>0, <1>2, <1>3 DEF Once
<1>5. ASSUME NEW x PROVE Holds(r, x) <=> Holds(s, x) \/ x = k
  <2>1. n + 1 \in 1..(n + 1)
    BY <1>0
  <2> QED BY <1>0, <1>2, <1>3, <2>1 DEF Holds
<1> QED BY <1>1, <1>4, <1>5 DEF r
----------------------------------------------------------------------------
(* FairEscrow: the tenants map and its running counters *)

\* What makes the counters right: a key is in the map once, and what is not in the map has no
\* weight and no use; the counters are the sums, but for the uses of entries that left the map
\* while their check was under way.
MapOK(m) ==
    /\ m \in MapType /\ Once(m.order)
    /\ \A t \in Tenant : ~Has(m, t) => m.weight[t] = 0 /\ m.used[t] = 0
    /\ m.aggWeight = Sum(m.weight, NT)
    /\ m.aggUsed >= Sum(m.used, NT)
Exact(m) == m.aggUsed = Sum(m.used, NT)

LEMMA TenantsCounted == NT \in Nat /\ Tenant = 1..NT
BY EscrowAssumption DEF Tenant

LEMMA HasHolds == \A m, t : Has(m, t) <=> Holds(m.order, t)
BY DEF Has, Holds

LEMMA MapFields ==
    ASSUME NEW m \in MapType
    PROVE  /\ m.order \in Seq(Tenant) /\ m.weight \in [Tenant -> Nat] /\ m.used \in [Tenant -> Nat]
           /\ m.aggWeight \in Nat /\ m.aggUsed \in Nat
BY DEF MapType

\* The sum of the uses, or of the weights, when those of one tenant change.
LEMMA TenantSum ==
    ASSUME NEW f, NEW g, NEW t \in Tenant, \A i \in Tenant : f[i] \in Nat /\ g[i] \in Nat,
           \A i \in Tenant : i # t => g[i] = f[i]
    PROVE  /\ Sum(g, NT) = Sum(f, NT) - f[t] + g[t]
           /\ Sum(f, NT) \in Nat /\ f[t] <= Sum(f, NT) /\ Sum(g, NT) \in Nat
<1>1. NT \in Nat /\ t \in 1..NT
  BY TenantsCounted
<1>2. /\ \A i \in 1..NT : f[i] \in Int /\ g[i] \in Int
      /\ \A i \in 1..NT : i # t => f[i] = g[i]
      /\ \A i \in 1..NT : f[i] \in Nat
      /\ \A i \in 1..NT : g[i] \in Nat
  BY <1>1, TenantsCounted
<1>3. Sum(g, NT) = Sum(f, NT) - f[t] + g[t]
  BY ONLY <1>1, <1>2, SumUpdate
<1>4. ASSUME NEW z, \A i \in 1..NT : z[i] = IF i = t THEN 0 ELSE f[i] PROVE f[t] <= Sum(f, NT)
  <2>1. /\ \A i \in 1..NT : f[i] \in Int /\ z[i] \in Int
        /\ \A i \in 1..NT : i # t => f[i] = z[i]
        /\ \A i \in 1..NT : z[i] \in Nat
    BY <1>1, <1>2, <1>4
  <2>2. Sum(z, NT) = Sum(f, NT) - f[t] + z[t]
    BY ONLY <1>1, <2>1, SumUpdate
  <2>3. Sum(f, NT) \in Nat /\ Sum(z, NT) \in Nat
    BY ONLY <1>1, <1>2, <2>1, SumNat
  <2>4. f[t] \in Nat /\ z[t] = 0
    BY <1>1, <1>2, <1>4
  <2> QED BY <2>1, <2>2, <2>3, <2>4
<1>5. f[t] <= Sum(f, NT)
  <2>1. \A i \in 1..NT : [j \in 1..NT |-> IF j = t THEN 0 ELSE f[j]][i] = IF i = t THEN 0 ELSE f[i]
    OBVIOUS
  <2> QED BY Zenon, <1>4, <2>1
<1>6. Sum(f, NT) \in Nat /\ Sum(g, NT) \in Nat
  BY ONLY <1>1, <1>2, SumNat
<1> QED BY <1>3, <1>5, <1>6

\* Two maps whose entries differ at one tenant at most, and the sums over them.
Elsewhere(d, m, t) ==
    /\ d.weight \in [Tenant -> Nat] /\ d.used \in [Tenant -> Nat]
    /\ \A i \in Tenant : i # t => d.weight[i] = m.weight[i] /\ d.used[i] = m.used[i]

LEMMA FieldSums ==
    ASSUME NEW m, NEW d, NEW t \in Tenant, Elsewhere(d, m, t),
           m.weight \in [Tenant -> Nat], m.used \in [Tenant -> Nat]
    PROVE  /\ Sum(m.weight, NT) \in Nat /\ m.weight[t] <= Sum(m.weight, NT) /\ m.weight[t] \in Nat
           /\ Sum(m.used, NT) \in Nat /\ m.used[t] <= Sum(m.used, NT) /\ m.used[t] \in Nat
           /\ Sum(d.weight, NT) = Sum(m.weight, NT) - m.weight[t] + d.weight[t]
           /\ Sum(d.used, NT) = Sum(m.used, NT) - m.used[t] + d.used[t]
           /\ Sum(d.weight, NT) \in Nat /\ Sum(d.used, NT) \in Nat
<1> DEFINE f == m.weight
           g == d.weight
           u == m.used
           v == d.used
<1>1. /\ \A i \in Tenant : f[i] \in Nat /\ g[i] \in Nat
      /\ \A i \in Tenant : i # t => g[i] = f[i]
      /\ \A i \in Tenant : u[i] \in Nat /\ v[i] \in Nat
      /\ \A i \in Tenant : i # t => v[i] = u[i]
      /\ f[t] \in Nat /\ u[t] \in Nat
  BY DEF Elsewhere
<1> HIDE DEF f, g, u, v
<1>2. /\ Sum(g, NT) = Sum(f, NT) - f[t] + g[t]
      /\ Sum(f, NT) \in Nat /\ f[t] <= Sum(f, NT) /\ Sum(g, NT) \in Nat
  BY ONLY <1>1, t \in Tenant, TenantSum
<1>3. /\ Sum(v, NT) = Sum(u, NT) - u[t] + v[t]
      /\ Sum(u, NT) \in Nat /\ u[t] <= Sum(u, NT) /\ Sum(v, NT) \in Nat
  BY ONLY <1>1, t \in Tenant, TenantSum
<1> QED BY ONLY <1>1, <1>2, <1>3 DEF f, g, u, v

\* What Map.delete() and its counters leave in each field.
LEMMA DroppedFields ==
    ASSUME NEW m \in MapType, NEW t \in Tenant, NEW d, d = Dropped(m, t)
    PROVE  /\ d.order = WithoutKey(m.order, t)
           /\ Elsewhere(d, m, t) /\ d.weight[t] = 0 /\ d.used[t] = 0
           /\ d.aggWeight = m.aggWeight - m.weight[t] /\ d.aggUsed = m.aggUsed - m.used[t]
           /\ (d.order \in Seq(Tenant) /\ d.aggWeight \in Nat /\ d.aggUsed \in Nat) => d \in MapType
<1>1. /\ d.order = WithoutKey(m.order, t)
      /\ d.weight = [m.weight EXCEPT ![t] = 0] /\ d.used = [m.used EXCEPT ![t] = 0]
      /\ d.aggWeight = m.aggWeight - m.weight[t] /\ d.aggUsed = m.aggUsed - m.used[t]
  BY DEF Dropped, MapType
<1>2. m.weight \in [Tenant -> Nat] /\ m.used \in [Tenant -> Nat]
  BY MapFields
<1>3. Elsewhere(d, m, t) /\ d.weight[t] = 0 /\ d.used[t] = 0
  BY <1>1, <1>2 DEF Elsewhere
<1>4. ASSUME d.order \in Seq(Tenant), d.aggWeight \in Nat, d.aggUsed \in Nat
      PROVE  d \in MapType
  <2>1. d.weight \in [Tenant -> Nat] /\ d.used \in [Tenant -> Nat]
    BY <1>3 DEF Elsewhere
  <2> QED BY <1>4, <2>1 DEF Dropped, MapType
<1> QED BY <1>1, <1>3, <1>4

Appended(m, t, w) ==
    [m EXCEPT !.order = Append(@, t), !.weight[t] = w, !.used[t] = 0, !.aggWeight = @ + w]
Reweighted(m, t, w) == [m EXCEPT !.aggWeight = @ + w - m.weight[t], !.weight[t] = w]

LEMMA AppendedFields ==
    ASSUME NEW m \in MapType, NEW t \in Tenant, NEW w \in Nat, NEW d, d = Appended(m, t, w)
    PROVE  /\ d.order = Append(m.order, t)
           /\ Elsewhere(d, m, t) /\ d.weight[t] = w /\ d.used[t] = 0
           /\ d.aggWeight = m.aggWeight + w /\ d.aggUsed = m.aggUsed
           /\ (d.order \in Seq(Tenant) /\ d.aggWeight \in Nat /\ d.aggUsed \in Nat) => d \in MapType
<1>1. /\ d.order = Append(m.order, t)
      /\ d.weight = [m.weight EXCEPT ![t] = w] /\ d.used = [m.used EXCEPT ![t] = 0]
      /\ d.aggWeight = m.aggWeight + w /\ d.aggUsed = m.aggUsed
  BY DEF Appended, MapType
<1>2. m.weight \in [Tenant -> Nat] /\ m.used \in [Tenant -> Nat]
  BY MapFields
<1>3. Elsewhere(d, m, t) /\ d.weight[t] = w /\ d.used[t] = 0
  BY <1>1, <1>2 DEF Elsewhere
<1>4. ASSUME d.order \in Seq(Tenant), d.aggWeight \in Nat, d.aggUsed \in Nat
      PROVE  d \in MapType
  <2>1. d.weight \in [Tenant -> Nat] /\ d.used \in [Tenant -> Nat]
    BY <1>3 DEF Elsewhere
  <2> QED BY <1>4, <2>1 DEF Appended, MapType
<1> QED BY <1>1, <1>3, <1>4

LEMMA ReweightedFields ==
    ASSUME NEW m \in MapType, NEW t \in Tenant, NEW w \in Nat, NEW d, d = Reweighted(m, t, w)
    PROVE  /\ d.order = m.order /\ d.used = m.used
           /\ Elsewhere(d, m, t) /\ d.weight[t] = w
           /\ d.aggWeight = m.aggWeight + w - m.weight[t] /\ d.aggUsed = m.aggUsed
           /\ d.aggWeight \in Nat => d \in MapType
<1>1. /\ d.order = m.order /\ d.weight = [m.weight EXCEPT ![t] = w] /\ d.used = m.used
      /\ d.aggWeight = m.aggWeight + w - m.weight[t] /\ d.aggUsed = m.aggUsed
  BY DEF Reweighted, MapType
<1>2. m.weight \in [Tenant -> Nat] /\ m.used \in [Tenant -> Nat]
  BY MapFields
<1>3. Elsewhere(d, m, t) /\ d.weight[t] = w
  BY <1>1, <1>2 DEF Elsewhere
<1>4. ASSUME d.aggWeight \in Nat PROVE d \in MapType
  <2>1. d.weight \in [Tenant -> Nat]
    BY <1>3 DEF Elsewhere
  <2> QED BY <1>4, <2>1 DEF Reweighted, MapType
<1> QED BY <1>1, <1>3, <1>4

\* An entry that leaves takes its weight and its use out of the counters.
LEMMA DroppedKeeps ==
    ASSUME NEW m, MapOK(m), NEW t \in Tenant, NEW d, d = Dropped(m, t)
    PROVE  /\ MapOK(d) /\ (Exact(m) => Exact(d))
           /\ d.aggUsed = m.aggUsed - m.used[t] /\ m.used[t] <= m.aggUsed /\ m.used[t] \in Nat
           /\ \A x : Has(d, x) <=> Has(m, x) /\ x # t
<1>0. m \in MapType
  BY DEF MapOK
<1>1. /\ m.order \in Seq(Tenant) /\ m.weight \in [Tenant -> Nat] /\ m.used \in [Tenant -> Nat]
      /\ m.aggWeight \in Nat /\ m.aggUsed \in Nat
  BY <1>0, MapFields
<1>2. /\ d.order = WithoutKey(m.order, t)
      /\ Elsewhere(d, m, t) /\ d.weight[t] = 0 /\ d.used[t] = 0
      /\ d.aggWeight = m.aggWeight - m.weight[t] /\ d.aggUsed = m.aggUsed - m.used[t]
      /\ (d.order \in Seq(Tenant) /\ d.aggWeight \in Nat /\ d.aggUsed \in Nat) => d \in MapType
  BY <1>0, DroppedFields
<1>3. d.order \in Seq(Tenant) /\ Once(d.order) /\ \A x : Has(d, x) <=> Has(m, x) /\ x # t
  BY <1>1, <1>2, WithoutKeyKeeps, HasHolds DEF MapOK
<1>4. /\ Sum(d.weight, NT) = Sum(m.weight, NT) - m.weight[t] + d.weight[t]
      /\ Sum(d.used, NT) = Sum(m.used, NT) - m.used[t] + d.used[t]
      /\ Sum(m.weight, NT) \in Nat /\ m.weight[t] <= Sum(m.weight, NT) /\ m.weight[t] \in Nat
      /\ Sum(m.used, NT) \in Nat /\ m.used[t] <= Sum(m.used, NT) /\ m.used[t] \in Nat
  BY ONLY <1>1, <1>2, FieldSums, t \in Tenant
<1>5. m.aggWeight = Sum(m.weight, NT) /\ m.aggUsed >= Sum(m.used, NT)
  BY DEF MapOK
<1>6. d.aggWeight = Sum(d.weight, NT) /\ d.aggWeight \in Nat /\ d.aggUsed >= Sum(d.used, NT) /\ d.aggUsed \in Nat
      /\ (Exact(m) => Exact(d)) /\ m.used[t] <= m.aggUsed
  BY <1>1, <1>2, <1>4, <1>5 DEF Exact
<1>7. ASSUME NEW x \in Tenant, ~Has(d, x) PROVE d.weight[x] = 0 /\ d.used[x] = 0
  BY <1>1, <1>2, <1>3, <1>7 DEF MapOK, Elsewhere
<1> QED BY <1>2, <1>3, <1>4, <1>6, <1>7 DEF MapOK

\* The oldest entry is the victim, and it is not the asker's.
LEMMA VictimIs ==
    ASSUME NEW m \in MapType, NEW t \in Tenant, plan \in Plans, Victim(m, t) # {}
    PROVE  /\ m.order # <<>> /\ Head(m.order) \in Tenant /\ Victim(m, t) = {Head(m.order)}
           /\ ~Has(m, t) /\ Head(m.order) # t
<1>1. plan.maxKeys \in Nat \ {0} /\ m.order \in Seq(Tenant)
  BY EscrowAssumption, MapFields
<1>2. ~Has(m, t) /\ Len(m.order) >= plan.maxKeys /\ Victim(m, t) = {Head(m.order)}
  BY DEF Victim
<1>3. m.order # <<>> /\ Len(m.order) >= 1
  BY <1>1, <1>2
<1>4. Head(m.order) = m.order[1] /\ 1 \in DOMAIN m.order /\ m.order[1] \in Tenant
  BY <1>1, <1>3
<1> QED BY <1>2, <1>3, <1>4 DEF Has

\* The entry of the asker is in the map, with its new weight.
LEMMA BootstrappedKeeps ==
    ASSUME NEW m, MapOK(m), NEW t \in Tenant, NEW w \in Nat, plan \in Plans, NEW b, b = Bootstrapped(m, t, w)
    PROVE  /\ MapOK(b) /\ (Exact(m) => Exact(b)) /\ Has(b, t)
           /\ \A x : Has(m, x) /\ x \notin Victim(m, t) => Has(b, x)
           /\ b.aggUsed = m.aggUsed - IF Victim(m, t) = {} THEN 0 ELSE m.used[Head(m.order)]
           /\ ~Has(m, t) => b.order # m.order
           /\ Has(m, t) => b.used = m.used
<1>0. m \in MapType
  BY DEF MapOK
<1>1. /\ m.order \in Seq(Tenant) /\ m.weight \in [Tenant -> Nat] /\ m.used \in [Tenant -> Nat]
      /\ m.aggWeight \in Nat /\ m.aggUsed \in Nat
  BY <1>0, MapFields
<1>3. CASE Has(m, t)
  <2>1. Victim(m, t) = {}
    BY <1>0, <1>3, VictimIs
  <2>2. b = Reweighted(m, t, w)
    BY <1>3 DEF Bootstrapped, Reweighted
  <2>3. /\ b.order = m.order /\ b.used = m.used /\ Elsewhere(b, m, t) /\ b.weight[t] = w
        /\ b.aggWeight = m.aggWeight + w - m.weight[t] /\ b.aggUsed = m.aggUsed
        /\ b.aggWeight \in Nat => b \in MapType
    BY <1>0, <2>2, ReweightedFields
  <2>4. /\ Sum(b.weight, NT) = Sum(m.weight, NT) - m.weight[t] + b.weight[t]
        /\ Sum(m.weight, NT) \in Nat /\ m.weight[t] <= Sum(m.weight, NT) /\ m.weight[t] \in Nat
    BY ONLY <1>1, <2>3, FieldSums, t \in Tenant
  <2>5. m.aggWeight = Sum(m.weight, NT) /\ m.aggUsed >= Sum(m.used, NT)
    BY DEF MapOK
  <2>6. b.aggWeight = Sum(b.weight, NT) /\ b.aggWeight \in Nat /\ b.aggUsed >= Sum(b.used, NT)
        /\ (Exact(m) => Exact(b))
    BY <1>1, <2>3, <2>4, <2>5 DEF Exact
  <2>7. \A x : Has(b, x) <=> Has(m, x)
    BY <2>3 DEF Has
  <2>8. ASSUME NEW x \in Tenant, ~Has(b, x) PROVE b.weight[x] = 0 /\ b.used[x] = 0
    BY <1>1, <1>3, <2>3, <2>7, <2>8 DEF MapOK, Elsewhere
  <2>9. Once(b.order)
    BY <2>3 DEF MapOK
  <2>10. MapOK(b)
    BY <2>3, <2>4, <2>6, <2>8, <2>9 DEF MapOK
  <2>11. b.aggUsed = m.aggUsed - IF Victim(m, t) = {} THEN 0 ELSE m.used[Head(m.order)]
    BY <1>1, <2>1, <2>3
  <2> QED BY <1>3, <2>3, <2>6, <2>7, <2>10, <2>11
<1>4. CASE ~Has(m, t)
  <2> DEFINE room == IF Victim(m, t) = {} THEN m ELSE Dropped(m, Head(m.order))
  <2>1. /\ MapOK(room) /\ (Exact(m) => Exact(room)) /\ ~Has(room, t)
        /\ room.aggUsed = m.aggUsed - IF Victim(m, t) = {} THEN 0 ELSE m.used[Head(m.order)]
        /\ \A x : Has(m, x) /\ x \notin Victim(m, t) => Has(room, x)
    <3>1. CASE Victim(m, t) = {}
      BY <1>1, <1>4, <3>1
    <3>2. CASE Victim(m, t) # {}
      <4>1. Head(m.order) \in Tenant /\ Victim(m, t) = {Head(m.order)}
        BY <1>0, <3>2, VictimIs
      <4>2. room = Dropped(m, Head(m.order))
        BY <3>2
      <4> DEFINE h == Head(m.order)
      <4> HIDE DEF room, h
      <4>3. /\ MapOK(room) /\ (Exact(m) => Exact(room)) /\ room.aggUsed = m.aggUsed - m.used[h]
            /\ \A x : Has(room, x) <=> Has(m, x) /\ x # h
        BY <4>1, <4>2, DroppedKeeps DEF h
      <4> QED BY <1>4, <3>2, <4>1, <4>3 DEF h
    <3> QED BY <3>1, <3>2
  <2>2. b = Appended(room, t, w)
    BY <1>4 DEF Bootstrapped, Appended
  <2> HIDE DEF room
  <2>0. room \in MapType /\ 0 \in Nat
    BY <2>1 DEF MapOK
  <2>3. /\ room.order \in Seq(Tenant) /\ room.weight \in [Tenant -> Nat] /\ room.used \in [Tenant -> Nat]
        /\ room.aggWeight \in Nat /\ room.aggUsed \in Nat /\ room.weight[t] = 0 /\ room.used[t] = 0
        /\ room.aggWeight = Sum(room.weight, NT) /\ room.aggUsed >= Sum(room.used, NT)
    BY <2>0, <2>1, MapFields DEF MapOK
  <2>4. /\ b.order = Append(room.order, t)
        /\ Elsewhere(b, room, t) /\ b.weight[t] = w /\ b.used[t] = 0
        /\ b.aggWeight = room.aggWeight + w /\ b.aggUsed = room.aggUsed
        /\ (b.order \in Seq(Tenant) /\ b.aggWeight \in Nat /\ b.aggUsed \in Nat) => b \in MapType
    BY <2>0, <2>2, AppendedFields
  <2>6. b.order \in Seq(Tenant) /\ Once(b.order) /\ \A x : Has(b, x) <=> Has(room, x) \/ x = t
    <3> DEFINE o == room.order
               q == b.order
    <3>1. o \in Seq(Tenant) /\ Once(o) /\ ~Holds(o, t) /\ q = Append(o, t)
      BY <2>1, <2>3, <2>4, HasHolds DEF MapOK
    <3>2. \A x : (Has(b, x) <=> Holds(q, x)) /\ (Has(room, x) <=> Holds(o, x))
      BY HasHolds
    <3>3. q \in Seq(Tenant) /\ Once(q) /\ \A x : Has(b, x) <=> Has(room, x) \/ x = t
      <4> HIDE DEF o, q
      <4> QED BY <3>1, <3>2, AppendKeeps
    <3> QED BY <3>3
  <2>7. /\ Sum(b.weight, NT) = Sum(room.weight, NT) - room.weight[t] + b.weight[t]
        /\ Sum(b.used, NT) = Sum(room.used, NT) - room.used[t] + b.used[t]
        /\ Sum(room.weight, NT) \in Nat /\ Sum(room.used, NT) \in Nat
    BY ONLY <2>3, <2>4, FieldSums, t \in Tenant
  <2>8. /\ b.aggWeight = Sum(b.weight, NT) /\ b.aggWeight \in Nat /\ b.aggUsed >= Sum(b.used, NT)
        /\ (Exact(room) => Exact(b)) /\ b.aggUsed \in Nat
    BY <2>3, <2>4, <2>7 DEF Exact
  <2>10. ASSUME NEW x \in Tenant, ~Has(b, x) PROVE b.weight[x] = 0 /\ b.used[x] = 0
    BY <2>1, <2>3, <2>4, <2>6, <2>10 DEF MapOK, Elsewhere
  <2>11. MapOK(b)
    BY <2>4, <2>6, <2>7, <2>8, <2>10 DEF MapOK
  <2>12. b.order # m.order
    BY <1>4, <2>6 DEF Has
  <2> QED BY <1>4, <2>1, <2>4, <2>6, <2>8, <2>11, <2>12
<1> QED BY <1>3, <1>4
----------------------------------------------------------------------------
(* FairEscrow: a process and the checks under way in it *)

LEMMA EscrowOptions ==
    /\ NP \in Nat \ {0} /\ NT \in Nat \ {0} /\ Quota \in Nat \ {0} /\ Quantum \in Nat \ {0}
    /\ EscrowWindow \in Nat \ {0} /\ MaxForgets \in Nat /\ EscrowTime \in Nat
    /\ Weights \subseteq Nat \ {0} /\ EscrowCosts \subseteq Nat \ {0}
BY EscrowAssumption

LEMMA DivMonotone ==
    ASSUME NEW x \in Nat, NEW y \in Nat, x <= y, NEW d \in Nat \ {0}
    PROVE  x \div d \in Nat /\ y \div d \in Nat /\ x \div d <= y \div d
<1> DEFINE p == x \div d
           q == y \div d
<1>1. p \in Nat /\ d * p <= x /\ x < d * p + d
  OBVIOUS
<1>2. q \in Nat /\ d * q <= y /\ y < d * q + d
  OBVIOUS
<1>3. ASSUME q < p PROVE FALSE
  <2>1. q + 1 <= p
    BY <1>1, <1>2, <1>3
  <2>2. d * (q + 1) <= d * p
    BY <2>1, <1>1, <1>2
  <2>3. d * (q + 1) = d * q + d
    BY <1>2
  <2> QED BY <2>2, <2>3, <1>1, <1>2
<1> QED BY <1>1, <1>2, <1>3

\* The window of the clock is one of the model's.
LEMMA EscrowWindowOf ==
    ASSUME NEW c \in 0..EscrowTime
    PROVE  EWindowOf(c) \in EWindows /\ EWindowOf(c) \in Nat /\ EWindowOf(EscrowTime) \in Nat
<1>1. c \in Nat /\ EscrowTime \in Nat /\ c <= EscrowTime /\ EscrowWindow \in Nat \ {0}
  BY EscrowOptions
<1>2. c \div EscrowWindow \in Nat /\ EscrowTime \div EscrowWindow \in Nat /\ c \div EscrowWindow <= EscrowTime \div EscrowWindow
  BY ONLY <1>1, DivMonotone
<1> QED BY <1>2 DEF EWindowOf, EWindows

LEMMA EscrowWindowLater ==
    ASSUME NEW c \in 0..EscrowTime, NEW d \in 0..EscrowTime, c <= d
    PROVE  EWindowOf(c) <= EWindowOf(d)
<1>1. c \in Nat /\ d \in Nat /\ EscrowWindow \in Nat \ {0}
  BY EscrowOptions
<1> QED BY ONLY <1>1, c <= d, DivMonotone DEF EWindowOf

\* A process admits at most its budget, and without an L2 its counters are exact.
ProcessType == [win : Int, budget : Nat, map : MapType]
Sound(s, c, l2) ==
    /\ s \in ProcessType /\ MapOK(s.map) /\ s.map.aggUsed <= s.budget
    /\ s.win + 1 \in Nat /\ s.win <= EWindowOf(c)
    /\ \A t : Has(s.map, t) => s.win \in Nat
    /\ ~l2 => s.budget = Quota /\ Exact(s.map)

\* A check waits for a lease only where there is an L2, and what is its own is in the map.
AskOK(a, m, t, l2) ==
    /\ a \in AskType
    /\ a.st # "idle" => l2 /\ (a.own => Has(m, t))

LEMMA ProcessFields ==
    ASSUME NEW s \in ProcessType
    PROVE  s.win \in Int /\ s.budget \in Nat /\ s.map \in MapType
BY DEF ProcessType

\* An empty map is in order.
LEMMA NoTenantsOK ==
    /\ MapOK(NoTenants) /\ Exact(NoTenants) /\ NoTenants.aggUsed = 0
    /\ \A t : ~Has(NoTenants, t)
    /\ plan \in Plans => \A t : Victim(NoTenants, t) = {}
<1> DEFINE z == [t \in Tenant |-> 0]
           n == NoTenants
<1>1. /\ n.order = <<>> /\ n.weight = z /\ n.used = z /\ n.aggWeight = 0 /\ n.aggUsed = 0
      /\ n = [order |-> <<>>, weight |-> z, used |-> z, aggWeight |-> 0, aggUsed |-> 0]
  BY DEF NoTenants
<1>2. z \in [Tenant -> Nat] /\ \A t \in Tenant : z[t] = 0
  OBVIOUS
<1>3. NT \in Nat /\ Tenant = 1..NT
  BY TenantsCounted
<1>4. Sum(z, NT) = 0
  <2>1. \A i \in 1..NT : z[i] = 0
    BY <1>2, <1>3
  <2> HIDE DEF z
  <2> QED BY ONLY <1>3, <2>1, SumZero
<1>5. <<>> \in Seq(Tenant) /\ Once(<<>>)
  BY DEF Once
<1> HIDE DEF z, n
<1>6. n \in MapType
  BY <1>1, <1>2, <1>5 DEF MapType
<1>7. \A t : ~Has(n, t)
  BY <1>1 DEF Has
<1>8. MapOK(n) /\ Exact(n)
  BY <1>1, <1>2, <1>4, <1>5, <1>6 DEF MapOK, Exact
<1>9. plan \in Plans => \A t : Victim(n, t) = {}
  <2> SUFFICES ASSUME plan \in Plans, NEW t PROVE Victim(n, t) = {}
    OBVIOUS
  <2>1. plan.maxKeys \in Nat \ {0} /\ Len(n.order) = 0
    BY <1>1, EscrowAssumption
  <2> QED BY <2>1 DEF Victim
<1> QED BY <1>1, <1>7, <1>8, <1>9 DEF n

\* A window that has just begun, or never did.
LEMMA FreshSound ==
    ASSUME NEW w \in Int, NEW b \in Nat, NEW c, NEW l2, w + 1 \in Nat, w <= EWindowOf(c), l2 \/ b = Quota
    PROVE  /\ Sound(FreshPool(w, b), c, l2) /\ FreshPool(w, b).map = NoTenants
           /\ FreshPool(w, b).win = w /\ FreshPool(w, b).budget = b
<1> DEFINE s == FreshPool(w, b)
<1>1. s.map = NoTenants /\ s.win = w /\ s.budget = b /\ s = [win |-> w, budget |-> b, map |-> NoTenants]
  BY DEF FreshPool
<1>2. s \in ProcessType
  BY <1>1, NoTenantsOK DEF ProcessType, MapOK
<1> HIDE DEF s
<1> QED BY <1>1, <1>2, NoTenantsOK DEF Sound, s

\* The map of a process gives way to another that holds no more.
LEMMA SoundWithMap ==
    ASSUME NEW s, NEW c, NEW l2, Sound(s, c, l2), NEW m, MapOK(m), m.aggUsed <= s.map.aggUsed,
           Exact(s.map) => Exact(m), (\E t : Has(m, t)) => s.win \in Nat,
           NEW q, q = [s EXCEPT !.map = m]
    PROVE  Sound(q, c, l2) /\ q.map = m /\ q.win = s.win /\ q.budget = s.budget
<1>1. q.map = m /\ q.win = s.win /\ q.budget = s.budget /\ s \in ProcessType /\ m \in MapType
  BY DEF Sound, ProcessType, MapOK
<1>2. q \in ProcessType
  BY <1>1 DEF ProcessType
<1>3. s.budget \in Nat /\ s.map.aggUsed \in Nat /\ m.aggUsed \in Nat
  BY <1>1, ProcessFields, MapFields
<1> QED BY <1>1, <1>2, <1>3 DEF Sound

\* An admission within what is free.
Booking(s, t, own, cost) ==
    [s EXCEPT !.map.aggUsed = @ + cost, !.map.used[t] = IF own THEN @ + cost ELSE @]
LEMMA BookingSound ==
    ASSUME NEW s, NEW c, NEW l2, Sound(s, c, l2), NEW t \in Tenant, NEW own \in BOOLEAN, NEW cost \in Nat,
           own => Has(s.map, t), ~l2 => own, cost <= s.budget - s.map.aggUsed,
           NEW q, q = Booking(s, t, own, cost)
    PROVE  /\ Sound(q, c, l2) /\ q.win = s.win /\ q.budget = s.budget
           /\ q.map.aggUsed = s.map.aggUsed + cost /\ q.map.order = s.map.order /\ q.map.weight = s.map.weight
           /\ \A i \in Tenant : q.map.used[i] = s.map.used[i] + (IF i = t /\ own THEN cost ELSE 0)
<1> DEFINE m == s.map
           n == q.map
<1>1. /\ s \in ProcessType /\ m \in MapType /\ s.budget \in Nat
      /\ m.order \in Seq(Tenant) /\ m.weight \in [Tenant -> Nat] /\ m.used \in [Tenant -> Nat]
      /\ m.aggWeight \in Nat /\ m.aggUsed \in Nat
  BY ProcessFields, MapFields DEF Sound
<1>2. /\ q.win = s.win /\ q.budget = s.budget
      /\ n.aggUsed = m.aggUsed + cost /\ n.order = m.order /\ n.weight = m.weight /\ n.aggWeight = m.aggWeight
      /\ n.used = [m.used EXCEPT ![t] = IF own THEN m.used[t] + cost ELSE m.used[t]]
      /\ q \in [win : {s.win}, budget : {s.budget}, map : {n}]
      /\ n \in [order : {m.order}, weight : {m.weight}, used : {n.used}, aggWeight : {m.aggWeight}, aggUsed : {n.aggUsed}]
  BY <1>1 DEF Booking, ProcessType, MapType
<1> HIDE DEF m, n
<1>3. /\ Elsewhere(n, m, t) /\ \A i \in Tenant : n.used[i] = m.used[i] + (IF i = t /\ own THEN cost ELSE 0)
  BY <1>1, <1>2, SMTT(30) DEF Elsewhere
<1>4. /\ Sum(n.used, NT) = Sum(m.used, NT) - m.used[t] + n.used[t]
      /\ Sum(m.used, NT) \in Nat /\ m.used[t] \in Nat
  BY ONLY <1>1, <1>3, FieldSums, t \in Tenant
<1>5. n.used[t] = m.used[t] + IF own THEN cost ELSE 0
  BY <1>3
<1>6. n \in MapType
  <2>1. n.used \in [Tenant -> Nat] /\ n.aggUsed \in Nat
    BY <1>1, <1>2, <1>3 DEF Elsewhere
  <2> QED BY <1>1, <1>2, <2>1 DEF MapType
<1>7. q \in ProcessType
  BY <1>1, <1>2, <1>6 DEF ProcessType
<1>8. MapOK(m) /\ m.aggUsed <= s.budget
  BY DEF Sound, m
<1>9. /\ n.aggUsed >= Sum(n.used, NT) /\ n.aggUsed <= s.budget
      /\ own /\ Exact(m) => Exact(n)
  <2>1. m.aggUsed >= Sum(m.used, NT) /\ cost <= s.budget - m.aggUsed /\ (Exact(m) => m.aggUsed = Sum(m.used, NT))
    BY <1>8 DEF MapOK, Exact, m
  <2>2. Sum(n.used, NT) = Sum(m.used, NT) + IF own THEN cost ELSE 0
    BY <1>4, <1>5
  <2> QED BY <1>1, <1>2, <1>4, <2>1, <2>2 DEF Exact
<1>10. \A i : Has(n, i) <=> Has(m, i)
  BY <1>2 DEF Has
<1>11. ASSUME NEW i \in Tenant, ~Has(n, i) PROVE n.weight[i] = 0 /\ n.used[i] = 0
  BY <1>1, <1>2, <1>3, <1>8, <1>10, <1>11 DEF MapOK, m
<1>12. MapOK(n)
  BY <1>2, <1>6, <1>8, <1>9, <1>11 DEF MapOK
<1>13. Sound(q, c, l2)
  BY <1>2, <1>7, <1>9, <1>10, <1>12 DEF Sound, m, n
<1> QED BY <1>2, <1>3, <1>13 DEF m, n

\* A lease that arrives adds to the budget.
Credited(s, n) == [s EXCEPT !.budget = @ + n]
LEMMA CreditSound ==
    ASSUME NEW s, NEW c, NEW l2, Sound(s, c, l2), NEW n \in Nat, ~l2 => n = 0, NEW q, q = Credited(s, n)
    PROVE  Sound(q, c, l2) /\ q.map = s.map /\ q.win = s.win /\ q.budget = s.budget + n
<1>1. q.map = s.map /\ q.win = s.win /\ q.budget = s.budget + n /\ s \in ProcessType
  BY DEF Credited, Sound, ProcessType
<1>2. s.budget \in Nat /\ s.map \in MapType
  BY <1>1, ProcessFields
<1>3. q \in ProcessType
  BY <1>1 DEF Credited, ProcessType
<1>4. s.map.aggUsed \in Nat
  BY <1>2, MapFields
<1> QED BY <1>1, <1>2, <1>3, <1>4 DEF Sound

\* The clock only moves a process away from the current window.
LEMMA SoundLater ==
    ASSUME NEW s, NEW c \in 0..EscrowTime, NEW d \in 0..EscrowTime, c <= d, NEW l2, Sound(s, c, l2)
    PROVE  Sound(s, d, l2)
<1>1. s.win \in Int /\ EWindowOf(c) \in Nat /\ EWindowOf(d) \in Nat /\ EWindowOf(c) <= EWindowOf(d)
  BY EscrowWindowOf, EscrowWindowLater, ProcessFields DEF Sound
<1> QED BY <1>1 DEF Sound
----------------------------------------------------------------------------
(* FairEscrow: what a step writes *)

\* A check that decides or asks for a lease: `cost` units are booked (0: none), on its own entry
\* or not, and `x` is left of the check.
Booked(s, q, t, a, cost) ==
    /\ Sound(q, clk, plan.l2) /\ q.win = s.win /\ q.budget = s.budget
    /\ q.map.aggUsed = s.map.aggUsed + cost /\ q.map.order = s.map.order /\ q.map.weight = s.map.weight
    /\ \A i \in Tenant : q.map.used[i] = s.map.used[i] + (IF i = t /\ a.own THEN cost ELSE 0)
    /\ cost # 0 => cost = a.cost /\ Decides(s.map, s.budget, t, Entry(s.map, t, a), cost)
Remains(x, a) == x \in AskType /\ x.st \in {"idle", "asked"} /\ (x.st # "idle" => plan.l2 /\ x.own = a.own)
SpentIn(s) == IF s.win >= 0 THEN s.win ELSE EWindowOf(clk)
Outcome(p, t, s, a, others, cost, q, x) ==
    /\ cost \in Nat /\ Booked(s, q, t, a, cost) /\ Remains(x, a)
    /\ pool' = [pool EXCEPT ![p] = q]
    /\ spent' = [spent EXCEPT ![SpentIn(s)] = @ + cost]
    /\ ask' = [others EXCEPT ![p][t] = x]

LEMMA IdleTyped == IdleAsk \in AskType /\ IdleAsk.st = "idle"
BY DEF IdleAsk, AskType

\* What a check may take is free.
LEMMA DecidesFree ==
    ASSUME NEW m, NEW b, NEW t, NEW e, NEW cost, Decides(m, b, t, e, cost) PROVE cost <= b - m.aggUsed
BY DEF Decides, Admits

LEMMA SoundSpent ==
    ASSUME NEW s, clk \in 0..EscrowTime, Sound(s, clk, plan.l2)
    PROVE  SpentIn(s) \in EWindows /\ (s.win >= 0 => SpentIn(s) = s.win)
<1>1. EWindowOf(clk) \in EWindows /\ EWindowOf(clk) \in Nat /\ EWindowOf(EscrowTime) \in Nat
  BY EscrowWindowOf
<1>2. s.win \in Int /\ s.win <= EWindowOf(clk)
  BY ProcessFields DEF Sound
<1> QED BY <1>1, <1>2 DEF SpentIn, EWindows

LEMMA DecideOutcome ==
    ASSUME clk \in 0..EscrowTime, spent \in [EWindows -> Nat], NEW p \in EProc, NEW t \in Tenant, NEW s, NEW a, NEW others,
           Sound(s, clk, plan.l2), a \in AskType, a.own => Has(s.map, t), ~plan.l2 => a.own,
           Decide(p, t, s, a, others)
    PROVE  \E cost, q, x : Outcome(p, t, s, a, others, cost, q, x)
<1> DEFINE ok == Decides(s.map, s.budget, t, Entry(s.map, t, a), a.cost)
           r == Booking(s, t, a.own, a.cost)
<1>1. /\ pool' = [pool EXCEPT ![p] = IF ok THEN r ELSE s]
      /\ spent' = IF ok THEN [spent EXCEPT ![SpentIn(s)] = @ + a.cost] ELSE spent
      /\ ask' = [others EXCEPT ![p][t] = IdleAsk]
  BY DEF Decide, Booking, SpentIn
<1>2. a.cost \in Nat /\ a.own \in BOOLEAN
  BY DEF AskType
<1>3. Remains(IdleAsk, a)
  BY IdleTyped DEF Remains
<1>4. CASE ok
  <2>1. a.cost <= s.budget - s.map.aggUsed
    BY <1>4, DecidesFree
  <2> HIDE DEF ok
  <2>2. /\ Sound(r, clk, plan.l2) /\ r.win = s.win /\ r.budget = s.budget
        /\ r.map.aggUsed = s.map.aggUsed + a.cost /\ r.map.order = s.map.order /\ r.map.weight = s.map.weight
        /\ \A i \in Tenant : r.map.used[i] = s.map.used[i] + (IF i = t /\ a.own THEN a.cost ELSE 0)
    BY <1>2, <2>1, BookingSound
  <2>3. Booked(s, r, t, a, a.cost)
    BY <1>4, <2>2 DEF Booked, ok
  <2> QED BY <1>1, <1>2, <1>3, <1>4, <2>3 DEF Outcome
<1>5. CASE ~ok
  <2>1. Booked(s, s, t, a, 0)
    <3>1. s.map \in MapType /\ s.map.aggUsed \in Nat /\ s.map.used \in [Tenant -> Nat]
      BY ProcessFields, MapFields DEF Sound
    <3> QED BY <3>1 DEF Booked
  <2>2. spent' = [spent EXCEPT ![SpentIn(s)] = @ + 0]
    <3>1. SpentIn(s) \in EWindows
      BY SoundSpent
    <3> QED BY <1>1, <1>5, <3>1
  <2> QED BY <1>1, <1>3, <1>5, <2>1, <2>2 DEF Outcome
<1> QED BY <1>4, <1>5

LEMMA LeaseOrDecideOutcome ==
    ASSUME clk \in 0..EscrowTime, spent \in [EWindows -> Nat], NEW p \in EProc, NEW t \in Tenant, NEW s, NEW a, NEW others,
           Sound(s, clk, plan.l2), a \in AskType, a.own => Has(s.map, t), ~plan.l2 => a.own,
           LeaseOrDecide(p, t, s, a, others)
    PROVE  \E cost, q, x : Outcome(p, t, s, a, others, cost, q, x)
<1>1. CASE Decide(p, t, s, a, others)
  BY <1>1, DecideOutcome
<1>2. CASE ~Decide(p, t, s, a, others)
  <2> DEFINE x == [a EXCEPT !.st = "asked", !.amount = LeaseAmount(s, a.cost)]
  <2>1. /\ plan.l2 /\ pool' = [pool EXCEPT ![p] = s] /\ ask' = [others EXCEPT ![p][t] = x] /\ spent' = spent
    BY <1>2 DEF LeaseOrDecide, NeedsLease
  <2>2. s.budget \in Nat /\ s.map \in MapType /\ s.map.aggUsed \in Nat /\ s.map.used \in [Tenant -> Nat] /\ a.cost \in Nat
    BY ProcessFields, MapFields DEF Sound, AskType
  <2>3. LeaseAmount(s, a.cost) \in Nat
    BY <2>2, EscrowOptions DEF LeaseAmount, Most
  <2>4. x \in AskType /\ x.st = "asked" /\ x.own = a.own
    BY <2>3 DEF AskType
  <2>5. Remains(x, a)
    BY <2>1, <2>4 DEF Remains
  <2>6. Booked(s, s, t, a, 0)
    BY <2>2 DEF Booked
  <2>7. spent' = [spent EXCEPT ![SpentIn(s)] = @ + 0]
    <3>1. SpentIn(s) \in EWindows
      BY SoundSpent
    <3> QED BY <2>1, <3>1
  <2> HIDE DEF x
  <2> QED BY <2>1, <2>5, <2>6, <2>7 DEF Outcome
<1> QED BY <1>1, <1>2
----------------------------------------------------------------------------
(* FairEscrow: the ledgers of the hard cap *)

\* What is free in each process, and the leases granted and not yet credited.
Spare(f) == [p \in EProc |-> f[p].budget - f[p].map.aggUsed]
Promised(a) == IF a.st = "granted" THEN a.amount ELSE 0
PromisedBy(row) == [t \in Tenant |-> Promised(row[t])]
Promises(f) == [p \in EProc |-> Sum(PromisedBy(f[p]), NT)]
\* What each process admitted in window w, if it is still in it.
InUse(f, w) == [p \in EProc |-> IF f[p].win = w THEN f[p].map.aggUsed ELSE 0]

\* Without an L2: what was admitted in the current window is on the books of a process in it, or
\* was forgiven; a window that is over took at most the budget of every process.
PlainLedger ==
    LET cur == EWindowOf(clk) IN
    /\ \A p \in EProc : p > plan.procs => pool[p].map.aggUsed = 0
    /\ \A w \in EWindows : w > cur => spent[w] = 0
    /\ \A w \in EWindows : w < cur => spent[w] <= plan.procs * Quota + forgiven[w]
    /\ spent[cur] <= forgiven[cur] + Sum(InUse(pool, cur), NP)

\* With one: no unit is admitted, free, or on its way that was not leased or forgiven.
LeaseLedger ==
    OverWindows(spent) + Sum(Spare(pool), NP) + Sum(Promises(ask), NP) <= leased + OverWindows(forgiven)

AllSound == \A p \in EProc : Sound(pool[p], clk, plan.l2)
AsksOK == \A p \in EProc, t \in Tenant : AskOK(ask[p][t], pool[p].map, t, plan.l2)
Ledgers == (~plan.l2 => PlainLedger) /\ (plan.l2 => LeaseLedger)
EscrowInv == EscrowTypeOK /\ AllSound /\ AsksOK /\ Ledgers

\* A sum over the processes when one of them changes.
LEMMA ProcessSum ==
    ASSUME NEW f, NEW g, NEW p \in EProc, \A i \in EProc : f[i] \in Int /\ g[i] \in Int,
           \A i \in EProc : i # p => g[i] = f[i]
    PROVE  Sum(g, NP) = Sum(f, NP) - f[p] + g[p] /\ Sum(f, NP) \in Int /\ Sum(g, NP) \in Int
<1>1. NP \in Nat /\ p \in 1..NP
  BY EscrowOptions DEF EProc
<1>2. /\ \A i \in 1..NP : f[i] \in Int /\ g[i] \in Int
      /\ \A i \in 1..NP : i # p => f[i] = g[i]
      /\ \A i \in 1..NP : f[i] \in Int
      /\ \A i \in 1..NP : g[i] \in Int
  BY DEF EProc
<1>3. Sum(g, NP) = Sum(f, NP) - f[p] + g[p]
  BY ONLY <1>1, <1>2, SumUpdate
<1>4. Sum(f, NP) \in Int /\ Sum(g, NP) \in Int
  BY ONLY <1>1, <1>2, SumInt
<1> QED BY <1>3, <1>4

\* A sum over the processes of which only the first `k` count, none of them for more than `b`.
LEMMA BoundedSum ==
    ASSUME NEW x, NEW k \in EProc, NEW b \in Nat,
           \A i \in EProc : x[i] \in Nat /\ x[i] <= b /\ (i > k => x[i] = 0)
    PROVE  Sum(x, NP) \in Nat /\ Sum(x, NP) <= k * b
<1> DEFINE y == [i \in EProc |-> b]
<1>1. NP \in Nat /\ EProc = 1..NP /\ k \in Nat /\ k <= NP
  BY EscrowOptions DEF EProc
<1>2. \A i \in 1..NP : x[i] \in Nat
  BY <1>1
<1>3. Sum(x, NP) \in Nat
  BY ONLY <1>1, <1>2, SumNat
<1>4. \A j \in Nat : j <= NP /\ j >= k => Sum(x, j) = Sum(x, k)
  <2> DEFINE S == {j \in Nat : k + j <= NP => Sum(x, k + j) = Sum(x, k)}
  <2>1. 0 \in S
    BY <1>1
  <2>2. ASSUME NEW j \in Nat, j \in S PROVE j + 1 \in S
    <3> SUFFICES ASSUME k + (j + 1) <= NP PROVE Sum(x, k + (j + 1)) = Sum(x, k)
      OBVIOUS
    <3>1. k + j <= NP /\ k + (j + 1) = (k + j) + 1 /\ (k + j) + 1 \in EProc /\ (k + j) + 1 > k /\ k + j \in Nat
      BY <1>1
    <3>2. Sum(x, k + j) = Sum(x, k)
      BY <2>2, <3>1
    <3>3. x[(k + j) + 1] = 0
      BY <3>1
    <3>4. Sum(x, (k + j) + 1) = Sum(x, k + j) + x[(k + j) + 1]
      BY <3>1, SumNext
    <3>5. Sum(x, k) \in Nat
      <4>1. \A i \in 1..k : x[i] \in Nat
        BY <1>1
      <4> QED BY ONLY <1>1, <4>1, SumNat
    <3> QED BY <3>1, <3>2, <3>3, <3>4, <3>5
  <2> HIDE DEF S
  <2>3. \A j \in Nat : j \in S
    BY <2>1, <2>2, SetInduction
  <2> SUFFICES ASSUME NEW j \in Nat, j <= NP, j >= k PROVE Sum(x, j) = Sum(x, k)
    OBVIOUS
  <2>4. j - k \in Nat /\ k + (j - k) = j
    BY <1>1
  <2> QED BY <2>3, <2>4 DEF S
<1>5. /\ \A i \in 1..k : x[i] \in Int /\ y[i] \in Int /\ x[i] <= y[i]
      /\ \A i \in 1..k : y[i] = b
      /\ b \in Int
  BY <1>1
<1> HIDE DEF y
<1>6. Sum(x, k) <= Sum(y, k)
  BY ONLY <1>1, <1>5, SumMonotone
<1>7. Sum(y, k) = k * b
  BY ONLY <1>1, <1>5, SumConstant
<1> QED BY <1>1, <1>3, <1>4, <1>6, <1>7

LEMMA SpareChanges ==
    ASSUME NEW f, NEW g, NEW p \in EProc, \A i \in EProc : f[i] \in ProcessType /\ g[i] \in ProcessType,
           \A i \in EProc : i # p => g[i] = f[i]
    PROVE  /\ Sum(Spare(g), NP) = Sum(Spare(f), NP) - (f[p].budget - f[p].map.aggUsed) + (g[p].budget - g[p].map.aggUsed)
           /\ Sum(Spare(f), NP) \in Int /\ Sum(Spare(g), NP) \in Int
<1> DEFINE x == Spare(f)
           y == Spare(g)
<1>1. \A i \in EProc : /\ f[i].budget \in Nat /\ f[i].map.aggUsed \in Nat
                       /\ g[i].budget \in Nat /\ g[i].map.aggUsed \in Nat
  BY ProcessFields, MapFields
<1>2. \A i \in EProc : x[i] = f[i].budget - f[i].map.aggUsed /\ y[i] = g[i].budget - g[i].map.aggUsed
  BY DEF Spare
<1> HIDE DEF x, y
<1>3. /\ \A i \in EProc : x[i] \in Int /\ y[i] \in Int
      /\ \A i \in EProc : i # p => y[i] = x[i]
  BY <1>1, <1>2
<1>4. Sum(y, NP) = Sum(x, NP) - x[p] + y[p] /\ Sum(x, NP) \in Int /\ Sum(y, NP) \in Int
  BY ONLY <1>3, ProcessSum, p \in EProc
<1> QED BY <1>2, <1>4 DEF x, y

LEMMA InUseChanges ==
    ASSUME NEW f, NEW g, NEW p \in EProc, NEW w, \A i \in EProc : f[i] \in ProcessType /\ g[i] \in ProcessType,
           \A i \in EProc : i # p => g[i] = f[i]
    PROVE  /\ Sum(InUse(g, w), NP) = Sum(InUse(f, w), NP) - InUse(f, w)[p] + InUse(g, w)[p]
           /\ Sum(InUse(f, w), NP) \in Int /\ Sum(InUse(g, w), NP) \in Int
<1> DEFINE x == InUse(f, w)
           y == InUse(g, w)
<1>1. \A i \in EProc : f[i].map.aggUsed \in Nat /\ g[i].map.aggUsed \in Nat
  BY ProcessFields, MapFields
<1>2. \A i \in EProc : /\ x[i] = IF f[i].win = w THEN f[i].map.aggUsed ELSE 0
                       /\ y[i] = IF g[i].win = w THEN g[i].map.aggUsed ELSE 0
  BY DEF InUse
<1> HIDE DEF x, y
<1>3. /\ \A i \in EProc : x[i] \in Int /\ y[i] \in Int
      /\ \A i \in EProc : i # p => y[i] = x[i]
  BY <1>1, <1>2
<1>4. Sum(y, NP) = Sum(x, NP) - x[p] + y[p] /\ Sum(x, NP) \in Int /\ Sum(y, NP) \in Int
  BY ONLY <1>3, ProcessSum, p \in EProc
<1> QED BY <1>2, <1>4 DEF x, y

LEMMA PromisedNat == \A a \in AskType : Promised(a) \in Nat
BY DEF Promised, AskType

LEMMA PromisesChange ==
    ASSUME NEW f, NEW g, NEW p \in EProc, NEW t \in Tenant,
           \A i \in EProc, u \in Tenant : Promised(f[i][u]) \in Nat /\ Promised(g[i][u]) \in Nat,
           \A i \in EProc, u \in Tenant : i # p \/ u # t => Promised(g[i][u]) = Promised(f[i][u])
    PROVE  /\ Sum(Promises(g), NP) = Sum(Promises(f), NP) - Promised(f[p][t]) + Promised(g[p][t])
           /\ Sum(Promises(f), NP) \in Int /\ Sum(Promises(g), NP) \in Int
<1> DEFINE x == Promises(f)
           y == Promises(g)
<1>1. \A i \in EProc : x[i] = Sum(PromisedBy(f[i]), NT) /\ y[i] = Sum(PromisedBy(g[i]), NT)
  BY DEF Promises
<1>2. ASSUME NEW i \in EProc PROVE x[i] \in Nat /\ y[i] \in Nat /\ (i # p => y[i] = x[i])
  <2> DEFINE a == PromisedBy(f[i])
             b == PromisedBy(g[i])
  <2>1. NT \in Nat /\ Tenant = 1..NT
    BY TenantsCounted
  <2>2. \A u \in 1..NT : a[u] = Promised(f[i][u]) /\ b[u] = Promised(g[i][u])
    BY <2>1 DEF PromisedBy
  <2> HIDE DEF a, b, x, y
  <2>3. /\ \A u \in 1..NT : a[u] \in Nat
        /\ \A u \in 1..NT : b[u] \in Nat
    BY <2>1, <2>2
  <2>4. Sum(a, NT) \in Nat /\ Sum(b, NT) \in Nat
    BY ONLY <2>1, <2>3, SumNat
  <2>5. ASSUME i # p PROVE Sum(a, NT) = Sum(b, NT)
    <3>1. \A u \in 1..NT : a[u] \in Int /\ a[u] = b[u]
      BY <2>1, <2>2, <2>3, <2>5
    <3> QED BY ONLY <2>1, <3>1, SumEqual
  <2> QED BY <1>1, <2>4, <2>5 DEF a, b
<1>3. y[p] = x[p] - Promised(f[p][t]) + Promised(g[p][t])
  <2> DEFINE a == PromisedBy(f[p])
             b == PromisedBy(g[p])
  <2>2. \A u \in Tenant : a[u] = Promised(f[p][u]) /\ b[u] = Promised(g[p][u])
    BY DEF PromisedBy
  <2> HIDE DEF a, b, x, y
  <2>3. /\ \A u \in Tenant : a[u] \in Nat /\ b[u] \in Nat
        /\ \A u \in Tenant : u # t => b[u] = a[u]
    BY <2>2
  <2>4. Sum(b, NT) = Sum(a, NT) - a[t] + b[t]
    BY ONLY <2>3, TenantSum, t \in Tenant
  <2> QED BY <1>1, <2>2, <2>4 DEF a, b
<1> HIDE DEF x, y
<1>4. /\ \A i \in EProc : x[i] \in Int /\ y[i] \in Int
      /\ \A i \in EProc : i # p => y[i] = x[i]
  BY <1>2
<1>5. Sum(y, NP) = Sum(x, NP) - x[p] + y[p] /\ Sum(x, NP) \in Int /\ Sum(y, NP) \in Int
  BY ONLY <1>4, ProcessSum, p \in EProc
<1>6. x[p] \in Nat /\ y[p] \in Nat /\ Promised(f[p][t]) \in Nat /\ Promised(g[p][t]) \in Nat
  BY <1>2
<1> QED BY <1>3, <1>5, <1>6 DEF x, y

Plus(f, w, n) == [f EXCEPT ![w] = @ + n]
LEMMA WindowsChange ==
    ASSUME NEW f \in [EWindows -> Nat], NEW w \in EWindows, NEW n \in Nat, NEW g, g = Plus(f, w, n)
    PROVE  /\ OverWindows(g) = OverWindows(f) + n /\ OverWindows(f) \in Nat /\ OverWindows(g) \in Nat
           /\ g \in [EWindows -> Nat] /\ g[w] = f[w] + n /\ \A i \in EWindows : i # w => g[i] = f[i]
<1> DEFINE k == EWindowOf(EscrowTime) + 1
           x == [i \in 1..k |-> f[i - 1]]
           y == [i \in 1..k |-> g[i - 1]]
<1>1. EWindowOf(EscrowTime) \in Nat /\ k \in Nat
  <2>1. EscrowTime \in 0..EscrowTime
    BY EscrowOptions
  <2> QED BY <2>1, EscrowWindowOf
<1>2. g \in [EWindows -> Nat] /\ g[w] = f[w] + n /\ \A i \in EWindows : i # w => g[i] = f[i]
  BY DEF Plus
<1>3. w + 1 \in 1..k /\ x[w + 1] = f[w] /\ y[w + 1] = g[w]
  BY <1>1 DEF EWindows
<1>4. \A i \in 1..k : i - 1 \in EWindows /\ x[i] = f[i - 1] /\ y[i] = g[i - 1]
  BY <1>1 DEF EWindows
<1> HIDE DEF x, y
<1>5. /\ \A i \in 1..k : x[i] \in Nat
      /\ \A i \in 1..k : y[i] \in Nat
      /\ \A i \in 1..k : x[i] \in Int /\ y[i] \in Int
      /\ \A i \in 1..k : i # w + 1 => x[i] = y[i]
  <2>1. \A i \in 1..k : i # w + 1 => i - 1 # w
    BY <1>1 DEF EWindows
  <2> QED BY <1>2, <1>4, <2>1
<1> DEFINE j == w + 1
<1> HIDE DEF k, j
<1>6. Sum(x, k) \in Nat /\ Sum(y, k) \in Nat
  BY ONLY <1>1, <1>5, SumNat
<1>7. j \in 1..k /\ \A i \in 1..k : i # j => x[i] = y[i]
  BY <1>3, <1>5 DEF j
<1>8. Sum(y, k) = Sum(x, k) - x[j] + y[j]
  BY ONLY <1>1, <1>5, <1>7, SumUpdate
<1>9. x[j] = f[w] /\ y[j] = f[w] + n /\ f[w] \in Nat
  BY <1>2, <1>3 DEF j
<1>10. OverWindows(f) = Sum(x, k) /\ OverWindows(g) = Sum(y, k)
  BY DEF OverWindows, x, y, k
<1> QED BY <1>2, <1>6, <1>8, <1>9, <1>10
----------------------------------------------------------------------------
(* FairEscrow: every action keeps the invariant *)

LEMMA PlanOptions ==
    ASSUME plan \in Plans
    PROVE  plan.l2 \in BOOLEAN /\ plan.maxKeys \in Nat \ {0} /\ plan.procs \in EProc /\ plan.procs \in Nat
BY EscrowAssumption DEF EProc

LEMMA EscrowTypes ==
    ASSUME EscrowTypeOK
    PROVE  /\ clk \in 0..EscrowTime /\ plan \in Plans /\ pool \in [EProc -> ProcessType]
           /\ ask \in [EProc -> [Tenant -> AskType]] /\ spent \in [EWindows -> Nat] /\ forgiven \in [EWindows -> Nat]
           /\ leased \in Nat /\ asks \in Nat /\ forgets \in Nat
           /\ EWindowOf(clk) \in EWindows /\ EWindowOf(clk) \in Nat
BY EscrowWindowOf DEF EscrowTypeOK, ProcessType

LEMMA EscrowInitKeeps == ASSUME EscrowInit PROVE EscrowInv
<1>1. /\ clk = 0 /\ plan \in Plans /\ plan.l2 \in BOOLEAN /\ plan.procs \in Nat /\ 0 \in 0..EscrowTime
      /\ EWindowOf(0) \in EWindows /\ EWindowOf(0) \in Nat
  BY PlanOptions, EscrowWindowOf, EscrowOptions DEF EscrowInit
<1> DEFINE b == IF plan.l2 THEN 0 ELSE Quota
           v == 0 - 1
           s == FreshPool(v, b)
<1>2. b \in Nat /\ (plan.l2 \/ b = Quota) /\ v \in Int /\ v + 1 \in Nat /\ v < 0
  BY EscrowOptions
<1>3. pool = [p \in EProc |-> s]
  BY DEF EscrowInit
<1>4. v <= EWindowOf(clk)
  BY <1>1, <1>2
<1> HIDE DEF v, b
<1>5. Sound(s, clk, plan.l2) /\ s.map = NoTenants /\ s.win = v /\ s.budget = b
  BY <1>2, <1>4, FreshSound
<1> HIDE DEF s
<1>6. \A p \in EProc : pool[p] = s
  BY <1>3
<1>7. AllSound /\ pool \in [EProc -> ProcessType]
  <2>1. s \in ProcessType
    BY <1>5 DEF Sound
  <2> QED BY <1>3, <1>5, <1>6, <2>1 DEF AllSound
<1>8. ask \in [EProc -> [Tenant -> AskType]] /\ \A p \in EProc, t \in Tenant : ask[p][t] = IdleAsk
  BY IdleTyped DEF EscrowInit
<1>9. AsksOK
  BY <1>8, IdleTyped DEF AsksOK, AskOK
<1>10. EscrowTypeOK
  <2>1. shared \in [win : Int, count : 0..Quota]
    <3>1. shared = [win |-> 0 - 1, count |-> 0] /\ 0 \in 0..Quota
      BY EscrowOptions DEF EscrowInit
    <3> QED BY <3>1
  <2>2. clk \in 0..EscrowTime /\ asks \in Nat /\ forgets \in Nat /\ leased \in Nat
        /\ spent \in [EWindows -> Nat] /\ forgiven \in [EWindows -> Nat]
    BY <1>1 DEF EscrowInit
  <2> QED BY <1>1, <1>7, <1>8, <2>1, <2>2 DEF EscrowTypeOK, ProcessType
<1>11. \A p \in EProc : pool[p].map.aggUsed = 0
  BY <1>5, <1>6, NoTenantsOK
<1>12. NP \in Nat /\ EProc = 1..NP
  BY EscrowOptions DEF EProc
<1>13. /\ \A w \in EWindows : spent[w] = 0 /\ forgiven[w] = 0
       /\ leased = 0
  BY DEF EscrowInit
<1>14. PlainLedger
  <2> DEFINE cur == EWindowOf(clk)
             x == InUse(pool, cur)
  <2>1. \A i \in 1..NP : x[i] = 0
    BY <1>11, <1>12 DEF InUse
  <2> HIDE DEF x
  <2>2. Sum(x, NP) = 0
    BY ONLY <1>12, <2>1, SumZero
  <2>3. plan.procs * Quota \in Nat
    BY <1>1, EscrowOptions
  <2>4. cur \in EWindows
    BY <1>1
  <2> HIDE DEF cur
  <2>5. spent[cur] <= forgiven[cur] + Sum(InUse(pool, cur), NP)
    BY <1>13, <2>2, <2>4 DEF x
  <2>6. \A w \in EWindows : spent[w] <= plan.procs * Quota + forgiven[w]
    BY <1>13, <2>3
  <2> QED BY <1>11, <1>13, <2>5, <2>6 DEF PlainLedger, cur
<1>15. plan.l2 => LeaseLedger
  <2> SUFFICES ASSUME plan.l2 PROVE LeaseLedger
    OBVIOUS
  <2> DEFINE x == Spare(pool)
             y == Promises(ask)
             k == EWindowOf(EscrowTime) + 1
             z == [i \in 1..k |-> spent[i - 1]]
             u == [i \in 1..k |-> forgiven[i - 1]]
  <2>1. b = 0
    BY DEF b
  <2>2. \A i \in 1..NP : x[i] = 0
    BY <1>5, <1>6, <1>11, <1>12, <2>1 DEF Spare
  <2>3. \A i \in 1..NP : y[i] = 0
    <3> SUFFICES ASSUME NEW i \in EProc PROVE y[i] = 0
      BY <1>12
    <3> DEFINE a == PromisedBy(ask[i])
    <3>1. NT \in Nat /\ Tenant = 1..NT
      BY TenantsCounted
    <3>2. \A t \in 1..NT : a[t] = 0
      BY <1>8, <3>1, IdleTyped DEF PromisedBy, Promised
    <3> HIDE DEF a
    <3>3. Sum(a, NT) = 0
      BY ONLY <3>1, <3>2, SumZero
    <3> QED BY <3>3 DEF a, Promises
  <2>4. EWindowOf(EscrowTime) \in Nat /\ k \in Nat /\ \A i \in 1..k : i - 1 \in EWindows
    <3>1. EscrowTime \in 0..EscrowTime
      BY EscrowOptions
    <3>2. EWindowOf(EscrowTime) \in Nat
      BY <3>1, EscrowWindowOf
    <3> QED BY <3>2 DEF EWindows
  <2>5. \A i \in 1..k : z[i] = 0 /\ u[i] = 0
    BY <1>13, <2>4
  <2> HIDE DEF x, y, z, u
  <2>6. Sum(x, NP) = 0 /\ Sum(y, NP) = 0
    BY ONLY <1>12, <2>2, <2>3, SumZero
  <2>7. (\A i \in 1..k : z[i] = 0) /\ (\A i \in 1..k : u[i] = 0)
    BY <2>5
  <2> HIDE DEF k
  <2>8. Sum(z, k) = 0 /\ Sum(u, k) = 0
    BY ONLY <2>4, <2>7, SumZero
  <2>9. OverWindows(spent) = Sum(z, k) /\ OverWindows(forgiven) = Sum(u, k)
    BY DEF OverWindows, z, u, k
  <2> QED BY <1>13, <2>6, <2>8, <2>9 DEF LeaseLedger, x, y
<1> QED BY <1>7, <1>9, <1>10, <1>14, <1>15 DEF EscrowInv, Ledgers

\* Nothing else of a process or of a check changes when a check decides or asks.
LEMMA OutcomeKeeps ==
    ASSUME EscrowTypeOK, AllSound, AsksOK, NEW p \in EProc, NEW t \in Tenant, NEW s, NEW a, NEW others,
           NEW n, NEW q, NEW x, Outcome(p, t, s, a, others, n, q, x), Sound(s, clk, plan.l2),
           a.own => Has(s.map, t), others \in [EProc -> [Tenant -> AskType]],
           \A i \in EProc : i # p => others[i] = ask[i],
           \A u \in Tenant : u # t => AskOK(others[p][u], s.map, u, plan.l2),
           clk' = clk, plan' = plan
    PROVE  /\ pool' \in [EProc -> ProcessType] /\ AllSound' /\ ask' \in [EProc -> [Tenant -> AskType]] /\ AsksOK'
           /\ spent' \in [EWindows -> Nat]
           /\ pool'[p] = q /\ \A i \in EProc : i # p => pool'[i] = pool[i]
           /\ Promised(ask'[p][t]) = 0
           /\ \A i \in EProc, u \in Tenant : i # p \/ u # t => ask'[i][u] = others[i][u]
<1>1. /\ pool \in [EProc -> ProcessType] /\ spent \in [EWindows -> Nat] /\ SpentIn(s) \in EWindows /\ n \in Nat
  BY EscrowTypes, SoundSpent DEF Outcome
<1>2. /\ Sound(q, clk, plan.l2) /\ q.map.order = s.map.order /\ q \in ProcessType
      /\ pool' = [pool EXCEPT ![p] = q] /\ spent' = [spent EXCEPT ![SpentIn(s)] = @ + n]
      /\ ask' = [others EXCEPT ![p][t] = x]
      /\ x \in AskType /\ x.st \in {"idle", "asked"} /\ (x.st # "idle" => plan.l2 /\ x.own = a.own)
  BY DEF Outcome, Booked, Remains, Sound
<1>3. pool' \in [EProc -> ProcessType] /\ pool'[p] = q /\ \A i \in EProc : i # p => pool'[i] = pool[i]
  BY <1>1, <1>2
<1>4. AllSound'
  BY <1>2, <1>3 DEF AllSound
<1>5. /\ ask' \in [EProc -> [Tenant -> AskType]] /\ ask'[p][t] = x
      /\ \A i \in EProc, u \in Tenant : i # p \/ u # t => ask'[i][u] = others[i][u]
  BY <1>2
<1>6. AsksOK'
  <2> SUFFICES ASSUME NEW i \in EProc, NEW u \in Tenant PROVE AskOK(ask'[i][u], pool'[i].map, u, plan.l2)
    BY DEF AsksOK
  <2>1. \A k : Has(q.map, k) <=> Has(s.map, k)
    BY <1>2 DEF Has
  <2>2. CASE i # p
    BY <1>3, <1>5, <2>2 DEF AsksOK
  <2>3. CASE i = p /\ u # t
    BY <1>3, <1>5, <2>1, <2>3 DEF AskOK
  <2>4. CASE i = p /\ u = t
    BY <1>2, <1>3, <1>5, <2>1, <2>4 DEF AskOK
  <2> QED BY <2>2, <2>3, <2>4
<1>7. Promised(x) = 0
  BY <1>2 DEF Promised
<1> QED BY <1>1, <1>2, <1>3, <1>4, <1>5, <1>6, <1>7

\* A check whose entry left the map holds it apart; nothing else of a check changes.
LEMMA OrphanedIs ==
    ASSUME EscrowTypeOK, AllSound, NEW p \in EProc, NEW gone
    PROVE  /\ Orphaned(p, gone) \in [EProc -> [Tenant -> AskType]]
           /\ \A i \in EProc : i # p => Orphaned(p, gone)[i] = ask[i]
           /\ \A u \in Tenant :
                /\ Orphaned(p, gone)[p][u].st = ask[p][u].st /\ Orphaned(p, gone)[p][u].amount = ask[p][u].amount
                /\ Orphaned(p, gone)[p][u].own => ask[p][u].own
                /\ u \in gone /\ ask[p][u].st # "idle" => ~Orphaned(p, gone)[p][u].own
<1> DEFINE o == Orphaned(p, gone)
           wt == pool[p].map.weight
           us == pool[p].map.used
<1>1. ask \in [EProc -> [Tenant -> AskType]] /\ pool[p] \in ProcessType
  BY EscrowTypes
<1>2. wt \in [Tenant -> Nat] /\ us \in [Tenant -> Nat]
  BY <1>1, ProcessFields, MapFields
<1>3. o = [ask EXCEPT ![p] = [t \in Tenant |->
              IF t \in gone /\ ask[p][t].st # "idle" /\ ask[p][t].own
              THEN [ask[p][t] EXCEPT !.own = FALSE, !.weight = wt[t], !.used = us[t]] ELSE ask[p][t]]]
  BY DEF Orphaned
<1> HIDE DEF o, wt, us
<1>4. \A i \in EProc : i # p => o[i] = ask[i]
  BY <1>1, <1>3
<1>5. \A u \in Tenant : o[p][u] = IF u \in gone /\ ask[p][u].st # "idle" /\ ask[p][u].own
                                  THEN [ask[p][u] EXCEPT !.own = FALSE, !.weight = wt[u], !.used = us[u]] ELSE ask[p][u]
  BY <1>1, <1>3
<1>6. ASSUME NEW u \in Tenant
      PROVE  /\ o[p][u] \in AskType /\ o[p][u].st = ask[p][u].st /\ o[p][u].amount = ask[p][u].amount
             /\ o[p][u].own => ask[p][u].own
             /\ u \in gone /\ ask[p][u].st # "idle" => ~o[p][u].own
  <2>1. ask[p][u] \in AskType /\ wt[u] \in Nat /\ us[u] \in Nat
    BY <1>1, <1>2
  <2> QED BY <1>5, <2>1 DEF AskType
<1>7. o \in [EProc -> [Tenant -> AskType]]
  <2>1. DOMAIN o = EProc /\ DOMAIN o[p] = Tenant
    BY <1>1, <1>3
  <2>2. o[p] \in [Tenant -> AskType]
    BY <1>1, <1>3, <1>6
  <2> QED BY <1>1, <1>3, <1>4, <2>2
<1> QED BY <1>4, <1>6, <1>7 DEF o
\* The state a check decides on: the window rolled, the tenant looked up.
RollsAt(p) == EWindowOf(clk) > pool[p].win
Begun(p) == IF RollsAt(p) THEN FreshPool(EWindowOf(clk), StartBudget) ELSE pool[p]
GoneAt(p, t) == IF RollsAt(p) THEN Tenant ELSE Victim(Begun(p).map, t)
LostAt(p, t) == IF RollsAt(p) \/ GoneAt(p, t) = {} THEN 0 ELSE Begun(p).map.used[Head(Begun(p).map.order)]
ReadyAt(p, t, w) == [Begun(p) EXCEPT !.map = Bootstrapped(@, t, w)]
Asked(cost) == [IdleAsk EXCEPT !.cost = cost, !.own = TRUE]

LEMMA BegunSound ==
    ASSUME EscrowTypeOK, AllSound, NEW p \in EProc
    PROVE  /\ Sound(Begun(p), clk, plan.l2) /\ Begun(p).win = EWindowOf(clk)
           /\ RollsAt(p) => /\ pool[p].win # EWindowOf(clk) /\ Begun(p).budget = StartBudget /\ Begun(p).map = NoTenants
           /\ ~RollsAt(p) => /\ pool[p].win = EWindowOf(clk) /\ Begun(p) = pool[p]
<1>1. EWindowOf(clk) \in Nat /\ plan \in Plans /\ Sound(pool[p], clk, plan.l2) /\ pool[p].win \in Int
  BY EscrowTypes, ProcessFields DEF AllSound
<1>2. StartBudget \in Nat /\ (plan.l2 \/ StartBudget = Quota)
  BY EscrowOptions DEF StartBudget
<1>3. CASE RollsAt(p)
  <2> DEFINE w == EWindowOf(clk)
  <2>1. w \in Int /\ w + 1 \in Nat /\ w <= EWindowOf(clk)
    BY <1>1
  <2> HIDE DEF w
  <2>2. /\ Sound(FreshPool(w, StartBudget), clk, plan.l2) /\ FreshPool(w, StartBudget).map = NoTenants
        /\ FreshPool(w, StartBudget).win = w /\ FreshPool(w, StartBudget).budget = StartBudget
    BY <1>2, <2>1, FreshSound
  <2>3. Begun(p) = FreshPool(w, StartBudget)
    BY <1>3 DEF Begun, w
  <2> QED BY <1>1, <1>3, <2>2, <2>3 DEF RollsAt, w
<1>4. CASE ~RollsAt(p)
  <2>1. pool[p].win <= EWindowOf(clk)
    BY <1>1 DEF Sound
  <2> QED BY <1>1, <1>4, <2>1 DEF RollsAt, Begun
<1> QED BY <1>3, <1>4

LEMMA ReadySound ==
    ASSUME EscrowTypeOK, AllSound, NEW p \in EProc, NEW t \in Tenant, NEW w \in Nat, NEW s, s = ReadyAt(p, t, w)
    PROVE  /\ Sound(s, clk, plan.l2) /\ Has(s.map, t) /\ s.win = EWindowOf(clk) /\ LostAt(p, t) \in Nat
           /\ s.budget = Begun(p).budget /\ s.map.aggUsed = Begun(p).map.aggUsed - LostAt(p, t)
           /\ \A u : ~RollsAt(p) /\ Has(pool[p].map, u) /\ u \notin GoneAt(p, t) => Has(s.map, u)
           /\ ~RollsAt(p) /\ ~Has(pool[p].map, t) => s.map.order # pool[p].map.order
           /\ ~RollsAt(p) /\ Has(pool[p].map, t) => s.map.used = pool[p].map.used /\ LostAt(p, t) = 0
<1> DEFINE b == Begun(p)
           m == Bootstrapped(b.map, t, w)
<1>1. /\ Sound(b, clk, plan.l2) /\ b.win = EWindowOf(clk) /\ EWindowOf(clk) \in Nat
      /\ RollsAt(p) => b.map = NoTenants
      /\ ~RollsAt(p) => b = pool[p]
      /\ plan \in Plans
  BY BegunSound, EscrowTypes
<1>2. MapOK(b.map) /\ b.map \in MapType /\ b.map.aggUsed \in Nat
  BY <1>1, MapFields DEF Sound, MapOK
<1>3. s = [b EXCEPT !.map = m]
  BY DEF ReadyAt
<1>4. /\ MapOK(m) /\ (Exact(b.map) => Exact(m)) /\ Has(m, t)
      /\ \A x : Has(b.map, x) /\ x \notin Victim(b.map, t) => Has(m, x)
      /\ m.aggUsed = b.map.aggUsed - IF Victim(b.map, t) = {} THEN 0 ELSE b.map.used[Head(b.map.order)]
      /\ ~Has(b.map, t) => m.order # b.map.order
      /\ Has(b.map, t) => m.used = b.map.used
  <2> DEFINE k == b.map
  <2>1. MapOK(k) /\ plan \in Plans /\ m = Bootstrapped(k, t, w)
    BY <1>1, <1>2
  <2> HIDE DEF b, m, k
  <2>2. /\ MapOK(m) /\ (Exact(k) => Exact(m)) /\ Has(m, t)
        /\ \A x : Has(k, x) /\ x \notin Victim(k, t) => Has(m, x)
        /\ m.aggUsed = k.aggUsed - IF Victim(k, t) = {} THEN 0 ELSE k.used[Head(k.order)]
        /\ ~Has(k, t) => m.order # k.order
        /\ Has(k, t) => m.used = k.used
    BY <2>1, BootstrappedKeeps
  <2> QED BY <2>2 DEF k
<1>5. LostAt(p, t) = IF Victim(b.map, t) = {} THEN 0 ELSE b.map.used[Head(b.map.order)]
  <2>1. RollsAt(p) => Victim(b.map, t) = {}
    BY <1>1, NoTenantsOK
  <2> QED BY <2>1 DEF LostAt, GoneAt
<1>6. LostAt(p, t) \in Nat /\ m.aggUsed = b.map.aggUsed - LostAt(p, t) /\ m.aggUsed <= b.map.aggUsed
  <2>1. CASE Victim(b.map, t) = {}
    BY <1>2, <1>4, <1>5, <2>1
  <2>2. CASE Victim(b.map, t) # {}
    <3>1. Head(b.map.order) \in Tenant
      BY <1>1, <1>2, <2>2, VictimIs
    <3>2. b.map.used \in [Tenant -> Nat]
      BY <1>2, MapFields
    <3>3. b.map.used[Head(b.map.order)] \in Nat
      BY <3>1, <3>2
    <3> QED BY <1>2, <1>4, <1>5, <2>2, <3>3
  <2> QED BY <2>1, <2>2
<1>7. Sound(s, clk, plan.l2) /\ s.map = m /\ s.win = b.win /\ s.budget = b.budget
  <2>1. (\E x : Has(m, x)) => b.win \in Nat
    BY <1>1
  <2> HIDE DEF b, m
  <2> QED BY <1>1, <1>3, <1>4, <1>6, <2>1, SoundWithMap
<1>8. ~RollsAt(p) => GoneAt(p, t) = Victim(b.map, t)
  BY DEF GoneAt
<1>9. Has(b.map, t) => LostAt(p, t) = 0
  BY <1>1, <1>2, <1>5, VictimIs
<1> HIDE DEF m
<1> QED BY <1>1, <1>4, <1>6, <1>7, <1>8, <1>9

LEMMA CheckOutcome ==
    ASSUME EscrowTypeOK, AllSound, AsksOK, NEW p \in EProc, NEW t \in Tenant, NEW cost \in Nat, NEW w \in Nat,
           EscrowCheck(p, t, cost, w)
    PROVE  \E n, q, x : Outcome(p, t, ReadyAt(p, t, w), Asked(cost), Orphaned(p, GoneAt(p, t)), n, q, x)
<1> DEFINE s == ReadyAt(p, t, w)
           a == Asked(cost)
           o == Orphaned(p, GoneAt(p, t))
<1>1. LeaseOrDecide(p, t, s, a, o)
  BY DEF EscrowCheck, RollsAt, Begun, GoneAt, ReadyAt, Asked
<1>2. a \in AskType /\ a.own = TRUE
  BY DEF Asked, IdleAsk, AskType
<1>3. Sound(s, clk, plan.l2) /\ Has(s.map, t)
  BY ReadySound
<1>4. clk \in 0..EscrowTime /\ spent \in [EWindows -> Nat]
  BY EscrowTypes
<1> HIDE DEF s, a, o
<1>5. \E n, q, x : Outcome(p, t, s, a, o, n, q, x)
  BY <1>1, <1>2, <1>3, <1>4, LeaseOrDecideOutcome
<1> QED BY <1>5 DEF s, a, o

LEMMA CheckKeeps ==
    ASSUME EscrowInv, NEW p \in EProc, NEW t \in Tenant, NEW cost \in Nat, NEW w \in Nat, EscrowCheck(p, t, cost, w)
    PROVE  EscrowInv'
<1> USE DEF EscrowInv
<1> DEFINE s == ReadyAt(p, t, w)
           a == Asked(cost)
           o == Orphaned(p, GoneAt(p, t))
           cur == EWindowOf(clk)
           lost == LostAt(p, t)
<1>0. /\ clk \in 0..EscrowTime /\ plan \in Plans /\ pool \in [EProc -> ProcessType]
      /\ ask \in [EProc -> [Tenant -> AskType]] /\ spent \in [EWindows -> Nat] /\ forgiven \in [EWindows -> Nat]
      /\ leased \in Nat /\ asks \in Nat /\ forgets \in Nat /\ cur \in EWindows /\ cur \in Nat
      /\ plan.l2 \in BOOLEAN /\ plan.procs \in Nat
  BY EscrowTypes, PlanOptions
<1>1. PICK n, q, x : Outcome(p, t, s, a, o, n, q, x)
  BY CheckOutcome, SMTT(30)
<1>2. /\ ask[p][t].st = "idle" /\ p <= plan.procs /\ asks' = asks + 1
      /\ forgiven' = IF lost > 0 THEN [forgiven EXCEPT ![Begun(p).win] = @ + lost] ELSE forgiven
      /\ clk' = clk /\ plan' = plan /\ shared' = shared /\ forgets' = forgets /\ leased' = leased
  BY DEF EscrowCheck, RollsAt, Begun, GoneAt, LostAt
<1>3. /\ Sound(s, clk, plan.l2) /\ Has(s.map, t) /\ s.win = cur /\ lost \in Nat
      /\ s.budget = Begun(p).budget /\ s.map.aggUsed = Begun(p).map.aggUsed - lost
      /\ \A u : ~RollsAt(p) /\ Has(pool[p].map, u) /\ u \notin GoneAt(p, t) => Has(s.map, u)
  BY ReadySound
<1>4. /\ Sound(Begun(p), clk, plan.l2) /\ Begun(p).win = cur
      /\ RollsAt(p) => /\ pool[p].win # cur /\ Begun(p).budget = StartBudget /\ Begun(p).map = NoTenants
      /\ ~RollsAt(p) => /\ pool[p].win = cur /\ Begun(p) = pool[p]
  BY BegunSound
<1>5. forgiven' = Plus(forgiven, cur, lost)
  <2>1. CASE lost > 0
    BY <1>2, <1>4, <2>1 DEF Plus
  <2>2. CASE ~(lost > 0)
    <3>1. lost = 0 /\ forgiven' = forgiven
      BY <1>2, <1>3, <2>2
    <3>2. forgiven = [forgiven EXCEPT ![cur] = @ + 0]
      BY <1>0
    <3> QED BY <3>1, <3>2 DEF Plus
  <2> QED BY <2>1, <2>2
<1>6. /\ o \in [EProc -> [Tenant -> AskType]] /\ \A i \in EProc : i # p => o[i] = ask[i]
      /\ \A u \in Tenant : /\ o[p][u].st = ask[p][u].st /\ o[p][u].amount = ask[p][u].amount
                           /\ o[p][u].own => ask[p][u].own
                           /\ u \in GoneAt(p, t) /\ ask[p][u].st # "idle" => ~o[p][u].own
  BY OrphanedIs
<1>61. RollsAt(p) => GoneAt(p, t) = Tenant
  BY DEF GoneAt
<1>62. a \in AskType /\ (a.own => Has(s.map, t))
  BY <1>3 DEF Asked, IdleAsk, AskType
<1>63. SpentIn(s) = cur
  BY <1>0, <1>3 DEF SpentIn
<1> HIDE DEF s, a, o, lost
<1>7. ASSUME NEW u \in Tenant, u # t PROVE AskOK(o[p][u], s.map, u, plan.l2)
  <2>1. AskOK(ask[p][u], pool[p].map, u, plan.l2) /\ o[p][u] \in AskType
    BY <1>6 DEF AsksOK
  <2> QED BY <1>3, <1>6, <1>61, <2>1 DEF AskOK
<1>8. /\ pool' \in [EProc -> ProcessType] /\ AllSound' /\ ask' \in [EProc -> [Tenant -> AskType]] /\ AsksOK'
      /\ spent' \in [EWindows -> Nat]
      /\ pool'[p] = q /\ \A i \in EProc : i # p => pool'[i] = pool[i]
      /\ Promised(ask'[p][t]) = 0
      /\ \A i \in EProc, u \in Tenant : i # p \/ u # t => ask'[i][u] = o[i][u]
  BY <1>1, <1>2, <1>3, <1>6, <1>62, <1>7, OutcomeKeeps
<1>9. /\ n \in Nat /\ q.win = cur /\ q.budget = s.budget /\ q.map.aggUsed = s.map.aggUsed + n
      /\ spent' = Plus(spent, cur, n) /\ q \in ProcessType
  BY <1>1, <1>3, <1>63 DEF Outcome, Booked, Sound, Plus
<1>10. EscrowTypeOK'
  <2>1. forgiven' \in [EWindows -> Nat]
    BY <1>0, <1>3, <1>5 DEF Plus
  <2>2. asks' \in Nat /\ shared \in [win : Int, count : 0..Quota]
    BY <1>0, <1>2 DEF EscrowTypeOK
  <2> QED BY <1>0, <1>2, <1>8, <2>1, <2>2 DEF EscrowTypeOK, ProcessType
<1>11. /\ OverWindows(spent') = OverWindows(spent) + n /\ OverWindows(spent) \in Nat
       /\ spent'[cur] = spent[cur] + n /\ \A i \in EWindows : i # cur => spent'[i] = spent[i]
  <2>1. spent \in [EWindows -> Nat] /\ cur \in EWindows /\ n \in Nat /\ spent' = Plus(spent, cur, n)
    BY <1>0, <1>9
  <2> QED BY ONLY <2>1, WindowsChange
<1>12. /\ OverWindows(forgiven') = OverWindows(forgiven) + lost /\ OverWindows(forgiven) \in Nat
       /\ forgiven'[cur] = forgiven[cur] + lost /\ \A i \in EWindows : i # cur => forgiven'[i] = forgiven[i]
  <2>1. forgiven \in [EWindows -> Nat] /\ cur \in EWindows /\ lost \in Nat /\ forgiven' = Plus(forgiven, cur, lost)
    BY <1>0, <1>3, <1>5
  <2> QED BY ONLY <2>1, WindowsChange
<1>13. /\ pool[p].budget \in Nat /\ pool[p].map.aggUsed \in Nat /\ pool[p].map.aggUsed <= pool[p].budget
       /\ Begun(p).map.aggUsed \in Nat /\ Begun(p).budget \in Nat
       /\ RollsAt(p) => Begun(p).map.aggUsed = 0
       /\ RollsAt(p) /\ plan.l2 => Begun(p).budget = 0
  <2>1. Sound(pool[p], clk, plan.l2)
    BY DEF AllSound
  <2> QED BY <1>0, <1>4, <2>1, ProcessFields, MapFields, NoTenantsOK DEF Sound, StartBudget
<1>14. /\ \A i \in EProc : pool[i] \in ProcessType /\ pool'[i] \in ProcessType
       /\ \A i \in EProc : i # p => pool'[i] = pool[i]
  BY <1>0, <1>8
<1>15. ASSUME ~plan.l2 PROVE PlainLedger'
  <2>0. PlainLedger
    BY <1>15 DEF Ledgers
  <2>1. /\ Sum(InUse(pool', cur), NP) = Sum(InUse(pool, cur), NP) - InUse(pool, cur)[p] + InUse(pool', cur)[p]
        /\ Sum(InUse(pool, cur), NP) \in Int /\ Sum(InUse(pool', cur), NP) \in Int
    BY ONLY <1>14, InUseChanges, p \in EProc
  <2>11. /\ InUse(pool, cur)[p] = IF pool[p].win = cur THEN pool[p].map.aggUsed ELSE 0
         /\ InUse(pool', cur)[p] = IF pool'[p].win = cur THEN pool'[p].map.aggUsed ELSE 0
    BY DEF InUse
  <2>2. Sum(InUse(pool', cur), NP) = Sum(InUse(pool, cur), NP) + n - lost
    <3>1. CASE RollsAt(p)
      <4>1. s.map.aggUsed = 0 - lost /\ lost = 0
        BY <1>3, <1>13, <3>1 DEF LostAt, lost
      <4> QED BY <1>3, <1>4, <1>8, <1>9, <1>13, <2>1, <2>11, <3>1, <4>1
    <3>2. CASE ~RollsAt(p)
      BY <1>3, <1>4, <1>8, <1>9, <1>13, <2>1, <2>11, <3>2
    <3> QED BY <3>1, <3>2
  <2>3. spent[cur] \in Nat /\ forgiven[cur] \in Nat
    BY <1>0
  <2>4. spent[cur] <= forgiven[cur] + Sum(InUse(pool, cur), NP)
    BY <2>0 DEF PlainLedger
  <2>5. spent'[cur] <= forgiven'[cur] + Sum(InUse(pool', cur), NP)
    BY <1>3, <1>9, <1>11, <1>12, <2>1, <2>2, <2>3, <2>4
  <2>6. ASSUME NEW i \in EProc, i > plan.procs PROVE pool'[i].map.aggUsed = 0
    <3>1. i # p
      BY <1>0, <1>2, <2>6 DEF EProc
    <3> QED BY <1>8, <2>0, <2>6, <3>1 DEF PlainLedger
  <2>7. ASSUME NEW v \in EWindows
        PROVE  /\ v > cur => spent'[v] = 0
               /\ v < cur => spent'[v] <= plan.procs * Quota + forgiven'[v]
    <3>1. v # cur => spent'[v] = spent[v] /\ forgiven'[v] = forgiven[v]
      BY <1>11, <1>12
    <3>2. (v > cur => spent[v] = 0) /\ (v < cur => spent[v] <= plan.procs * Quota + forgiven[v])
      BY <2>0 DEF PlainLedger
    <3>3. v \in Int /\ (v > cur => v # cur) /\ (v < cur => v # cur)
      BY <1>0 DEF EWindows
    <3> QED BY <3>1, <3>2, <3>3
  <2> QED BY <1>2, <2>5, <2>6, <2>7 DEF PlainLedger
<1>16. ASSUME plan.l2 PROVE LeaseLedger'
  <2>0. LeaseLedger
    BY <1>16 DEF Ledgers
  <2>1. /\ Sum(Spare(pool'), NP) = Sum(Spare(pool), NP) - (pool[p].budget - pool[p].map.aggUsed) + (pool'[p].budget - pool'[p].map.aggUsed)
        /\ Sum(Spare(pool), NP) \in Int /\ Sum(Spare(pool'), NP) \in Int
    BY ONLY <1>14, SpareChanges, p \in EProc
  <2>2. /\ \A i \in EProc, u \in Tenant : Promised(ask[i][u]) \in Nat /\ Promised(ask'[i][u]) \in Nat
        /\ \A i \in EProc, u \in Tenant : i # p \/ u # t => Promised(ask'[i][u]) = Promised(ask[i][u])
    <3>1. \A i \in EProc, u \in Tenant : Promised(ask[i][u]) \in Nat /\ Promised(ask'[i][u]) \in Nat
      BY <1>0, <1>8, PromisedNat
    <3>2. \A i \in EProc, u \in Tenant : Promised(o[i][u]) = Promised(ask[i][u])
      BY <1>6 DEF Promised
    <3> QED BY <1>8, <3>1, <3>2
  <2>3. /\ Sum(Promises(ask'), NP) = Sum(Promises(ask), NP) - Promised(ask[p][t]) + Promised(ask'[p][t])
        /\ Sum(Promises(ask), NP) \in Int /\ Sum(Promises(ask'), NP) \in Int
    BY <2>2, PromisesChange
  <2>4. Promised(ask[p][t]) = 0
    BY <1>2 DEF Promised
  <2>5. pool'[p].budget - pool'[p].map.aggUsed <= pool[p].budget - pool[p].map.aggUsed + lost - n
    <3>1. CASE RollsAt(p)
      BY <1>3, <1>8, <1>9, <1>13, <1>16, <3>1
    <3>2. CASE ~RollsAt(p)
      BY <1>3, <1>4, <1>8, <1>9, <1>13, <3>2
    <3> QED BY <3>1, <3>2
  <2>6. pool'[p].budget \in Nat /\ pool'[p].map.aggUsed \in Nat
    BY <1>8, <1>9, ProcessFields, MapFields
  <2>7. OverWindows(spent) + Sum(Spare(pool), NP) + Sum(Promises(ask), NP) <= leased + OverWindows(forgiven)
    BY <2>0 DEF LeaseLedger
  <2>8. OverWindows(spent') + Sum(Spare(pool'), NP) + Sum(Promises(ask'), NP) <= leased + OverWindows(forgiven')
    BY <1>0, <1>3, <1>8, <1>9, <1>11, <1>12, <1>13, <2>1, <2>3, <2>4, <2>5, <2>6, <2>7
  <2>9. leased' = leased
    BY <1>2
  <2> QED BY <2>8, <2>9 DEF LeaseLedger, OverWindows
<1> QED BY <1>2, <1>8, <1>10, <1>15, <1>16 DEF Ledgers
\* A lease that arrives: the credit, then the check goes on.
LEMMA GrantedKeeps ==
    ASSUME EscrowInv, NEW p \in EProc, NEW t \in Tenant, LeaseGranted(p, t)
    PROVE  EscrowInv'
<1> USE DEF EscrowInv
<1> DEFINE a == ask[p][t]
           s == Credited(pool[p], a.amount)
<1>0. /\ clk \in 0..EscrowTime /\ plan \in Plans /\ pool \in [EProc -> ProcessType]
      /\ ask \in [EProc -> [Tenant -> AskType]] /\ spent \in [EWindows -> Nat] /\ forgiven \in [EWindows -> Nat]
      /\ leased \in Nat /\ plan.l2 \in BOOLEAN
  BY EscrowTypes, PlanOptions
<1>1. /\ a.st = "granted" /\ clk' = clk /\ plan' = plan /\ shared' = shared /\ asks' = asks
      /\ forgets' = forgets /\ leased' = leased /\ forgiven' = forgiven
      /\ Decide(p, t, s, a, ask) \/ LeaseOrDecide(p, t, s, a, ask)
  BY DEF LeaseGranted, Credited
<1>2. /\ a \in AskType /\ a.amount \in Nat /\ plan.l2 /\ (a.own => Has(pool[p].map, t))
      /\ Sound(pool[p], clk, plan.l2)
  BY <1>0, <1>1 DEF AllSound, AsksOK, AskOK, AskType
<1>3. Sound(s, clk, plan.l2) /\ s.map = pool[p].map /\ s.win = pool[p].win /\ s.budget = pool[p].budget + a.amount
  <2> DEFINE n == a.amount
             r == pool[p]
  <2>1. Sound(r, clk, plan.l2) /\ n \in Nat /\ s = Credited(r, n) /\ (~plan.l2 => n = 0)
    BY <1>2
  <2> HIDE DEF n, r, s
  <2>2. Sound(s, clk, plan.l2) /\ s.map = r.map /\ s.win = r.win /\ s.budget = r.budget + n
    BY ONLY <2>1, CreditSound
  <2> QED BY <2>2 DEF n, r, s
<1> HIDE DEF s, a
<1>4. PICK n, q, x : Outcome(p, t, s, a, ask, n, q, x)
  BY <1>0, <1>1, <1>2, <1>3, DecideOutcome, LeaseOrDecideOutcome
<1>40. /\ EscrowTypeOK /\ AllSound /\ AsksOK /\ (a.own => Has(s.map, t))
       /\ \A i \in EProc : i # p => ask[i] = ask[i]
  BY <1>2, <1>3
<1>5. \A u \in Tenant : u # t => AskOK(ask[p][u], s.map, u, plan.l2)
  BY <1>3 DEF AsksOK
<1>6. /\ pool' \in [EProc -> ProcessType] /\ AllSound' /\ ask' \in [EProc -> [Tenant -> AskType]] /\ AsksOK'
      /\ spent' \in [EWindows -> Nat]
      /\ pool'[p] = q /\ \A i \in EProc : i # p => pool'[i] = pool[i]
      /\ Promised(ask'[p][t]) = 0
      /\ \A i \in EProc, u \in Tenant : i # p \/ u # t => ask'[i][u] = ask[i][u]
  <2>1. ask \in [EProc -> [Tenant -> AskType]] /\ clk' = clk /\ plan' = plan /\ Sound(s, clk, plan.l2)
    BY <1>0, <1>1, <1>3
  <2> QED BY ONLY <1>4, <1>40, <1>5, <2>1, OutcomeKeeps, p \in EProc, t \in Tenant
<1>7. EscrowTypeOK'
  BY <1>1, <1>6 DEF EscrowTypeOK, ProcessType
<1>8. SpentIn(s) \in EWindows
  BY <1>0, <1>3, SoundSpent
<1> DEFINE w == SpentIn(s)
<1>9. /\ n \in Nat /\ q.budget = s.budget /\ q.map.aggUsed = s.map.aggUsed + n
      /\ spent' = Plus(spent, w, n) /\ q \in ProcessType
  BY <1>4 DEF Outcome, Booked, Sound, Plus
<1> HIDE DEF w
<1>10. OverWindows(spent') = OverWindows(spent) + n /\ OverWindows(spent) \in Nat
  <2>1. spent \in [EWindows -> Nat] /\ w \in EWindows /\ n \in Nat /\ spent' = Plus(spent, w, n)
    BY <1>0, <1>8, <1>9 DEF w
  <2> QED BY ONLY <2>1, WindowsChange
<1>11. OverWindows(forgiven) \in Nat
  <2>1. forgiven \in [EWindows -> Nat] /\ w \in EWindows /\ 0 \in Nat /\ Plus(forgiven, w, 0) = Plus(forgiven, w, 0)
    BY <1>0, <1>8 DEF w
  <2> QED BY ONLY <2>1, WindowsChange
<1>12. /\ \A i \in EProc : pool[i] \in ProcessType /\ pool'[i] \in ProcessType
       /\ \A i \in EProc : i # p => pool'[i] = pool[i]
  BY <1>0, <1>6
<1>13. /\ Sum(Spare(pool'), NP) = Sum(Spare(pool), NP) - (pool[p].budget - pool[p].map.aggUsed) + (pool'[p].budget - pool'[p].map.aggUsed)
       /\ Sum(Spare(pool), NP) \in Int /\ Sum(Spare(pool'), NP) \in Int
  BY ONLY <1>12, SpareChanges, p \in EProc
<1>14. /\ \A i \in EProc, u \in Tenant : Promised(ask[i][u]) \in Nat /\ Promised(ask'[i][u]) \in Nat
       /\ \A i \in EProc, u \in Tenant : i # p \/ u # t => Promised(ask'[i][u]) = Promised(ask[i][u])
  BY <1>0, <1>6, PromisedNat
<1>15. /\ Sum(Promises(ask'), NP) = Sum(Promises(ask), NP) - Promised(ask[p][t]) + Promised(ask'[p][t])
       /\ Sum(Promises(ask), NP) \in Int /\ Sum(Promises(ask'), NP) \in Int
  BY ONLY <1>14, PromisesChange, p \in EProc, t \in Tenant
<1>16. Promised(ask[p][t]) = a.amount
  BY <1>1 DEF Promised, a
<1>17. pool[p].budget \in Nat /\ pool[p].map.aggUsed \in Nat
  BY <1>12, ProcessFields, MapFields
<1>18. LeaseLedger
  BY <1>2 DEF Ledgers
<1>19. OverWindows(spent') + Sum(Spare(pool'), NP) + Sum(Promises(ask'), NP) <= leased + OverWindows(forgiven)
  <2>1. OverWindows(spent) + Sum(Spare(pool), NP) + Sum(Promises(ask), NP) <= leased + OverWindows(forgiven)
    BY <1>18 DEF LeaseLedger
  <2>2. pool'[p].budget - pool'[p].map.aggUsed = pool[p].budget - pool[p].map.aggUsed + a.amount - n
    BY <1>2, <1>3, <1>6, <1>9, <1>17
  <2> QED BY <1>0, <1>2, <1>6, <1>9, <1>10, <1>11, <1>13, <1>15, <1>16, <1>17, <2>1, <2>2
<1> QED BY <1>1, <1>2, <1>6, <1>7, <1>19 DEF Ledgers, LeaseLedger

\* A check that waits where there is an L2.
LEMMA WaitsForL2 ==
    ASSUME EscrowInv, NEW p \in EProc, NEW t \in Tenant, ask[p][t].st # "idle"
    PROVE  plan.l2
BY DEF EscrowInv, AsksOK, AskOK

\* A step that changes one check and no process.
LEMMA OneAskKeeps ==
    ASSUME EscrowInv, NEW p \in EProc, NEW t \in Tenant, ask[p][t].st # "idle",
           NEW x \in AskType, x.st # "idle" => x.own = ask[p][t].own, ask' = [ask EXCEPT ![p][t] = x],
           clk' = clk, plan' = plan, pool' = pool, asks' = asks, forgets' = forgets, spent' = spent, forgiven' = forgiven,
           shared' \in [win : Int, count : 0..Quota], NEW n \in Nat, leased' = leased + n,
           Promised(x) <= Promised(ask[p][t]) + n
    PROVE  EscrowInv'
<1> USE DEF EscrowInv
<1>0. /\ clk \in 0..EscrowTime /\ plan \in Plans /\ pool \in [EProc -> ProcessType]
      /\ ask \in [EProc -> [Tenant -> AskType]] /\ spent \in [EWindows -> Nat] /\ forgiven \in [EWindows -> Nat]
      /\ leased \in Nat /\ EWindowOf(clk) \in EWindows
  BY EscrowTypes
<1>1. plan.l2
  BY WaitsForL2
<1>2. /\ ask' \in [EProc -> [Tenant -> AskType]] /\ ask'[p][t] = x
      /\ \A i \in EProc, u \in Tenant : i # p \/ u # t => ask'[i][u] = ask[i][u]
  BY <1>0
<1>3. AsksOK'
  <2> SUFFICES ASSUME NEW i \in EProc, NEW u \in Tenant PROVE AskOK(ask'[i][u], pool[i].map, u, plan.l2)
    BY DEF AsksOK
  <2>1. CASE i = p /\ u = t
    BY <1>1, <1>2, <2>1 DEF AsksOK, AskOK
  <2>2. CASE ~(i = p /\ u = t)
    BY <1>2, <2>2 DEF AsksOK
  <2> QED BY <2>1, <2>2
<1>4. AllSound'
  BY DEF AllSound
<1>5. EscrowTypeOK'
  <2>1. leased' \in Nat
    BY <1>0
  <2> QED BY <1>2, <2>1 DEF EscrowTypeOK
<1>6. /\ \A i \in EProc, u \in Tenant : Promised(ask[i][u]) \in Nat /\ Promised(ask'[i][u]) \in Nat
      /\ \A i \in EProc, u \in Tenant : i # p \/ u # t => Promised(ask'[i][u]) = Promised(ask[i][u])
  BY <1>0, <1>2, PromisedNat
<1>7. /\ Sum(Promises(ask'), NP) = Sum(Promises(ask), NP) - Promised(ask[p][t]) + Promised(ask'[p][t])
      /\ Sum(Promises(ask), NP) \in Int /\ Sum(Promises(ask'), NP) \in Int
  BY ONLY <1>6, PromisesChange, p \in EProc, t \in Tenant
<1>8. OverWindows(forgiven) \in Nat /\ OverWindows(spent) \in Nat
  <2> DEFINE w == EWindowOf(clk)
  <2>1. /\ forgiven \in [EWindows -> Nat] /\ w \in EWindows /\ 0 \in Nat /\ Plus(forgiven, w, 0) = Plus(forgiven, w, 0)
        /\ spent \in [EWindows -> Nat] /\ Plus(spent, w, 0) = Plus(spent, w, 0)
    BY <1>0
  <2> HIDE DEF w
  <2> QED BY ONLY <2>1, WindowsChange
<1>9. \A i \in EProc : pool[i] \in ProcessType /\ pool[i] \in ProcessType /\ (i # p => pool[i] = pool[i])
  BY <1>0
<1>10. Sum(Spare(pool), NP) \in Int
  BY ONLY <1>9, SpareChanges, p \in EProc
<1>11. Promised(ask[p][t]) \in Nat /\ Promised(x) \in Nat
  BY <1>2, <1>6
<1>12. OverWindows(spent) + Sum(Spare(pool), NP) + Sum(Promises(ask'), NP) <= leased' + OverWindows(forgiven)
  <2>1. OverWindows(spent) + Sum(Spare(pool), NP) + Sum(Promises(ask), NP) <= leased + OverWindows(forgiven)
    BY <1>1 DEF Ledgers, LeaseLedger
  <2> QED BY <1>0, <1>2, <1>7, <1>8, <1>10, <1>11, <2>1
<1> QED BY <1>1, <1>3, <1>4, <1>5, <1>12 DEF Ledgers, LeaseLedger

LEMMA SharedKeeps ==
    ASSUME EscrowInv, NEW p \in EProc, NEW t \in Tenant, SharedApply(p, t)
    PROVE  EscrowInv'
<1> DEFINE a == ask[p][t]
           fits == FitsShared(SharedCount, a.amount)
           x == [a EXCEPT !.st = IF fits THEN "granted" ELSE "refused"]
           n == IF fits THEN a.amount ELSE 0
<1>1. /\ a.st = "asked" /\ leased' = leased + n
      /\ shared' = [win |-> EWindowOf(clk), count |-> SharedCount + n]
      /\ ask' = [ask EXCEPT ![p][t].st = IF fits THEN "granted" ELSE "refused"]
      /\ clk' = clk /\ plan' = plan /\ pool' = pool /\ asks' = asks /\ forgets' = forgets /\ spent' = spent /\ forgiven' = forgiven
  BY DEF SharedApply
<1>2. ask \in [EProc -> [Tenant -> AskType]] /\ EWindowOf(clk) \in Nat /\ shared \in [win : Int, count : 0..Quota]
  BY EscrowTypes DEF EscrowInv, EscrowTypeOK
<1>3. a \in AskType /\ a.amount \in Nat
  BY <1>2 DEF AskType
<1>4. ask' = [ask EXCEPT ![p][t] = x]
  BY <1>1, <1>2
<1>5. SharedCount \in 0..Quota /\ Quota \in Nat
  BY <1>2, EscrowOptions DEF SharedCount
<1>6. SharedCount + n \in 0..Quota /\ n \in Nat
  BY <1>3, <1>5 DEF FitsShared
<1>7. shared' \in [win : Int, count : 0..Quota]
  BY <1>1, <1>2, <1>6
<1>8. x \in AskType /\ x.st # "idle" /\ x.own = a.own /\ Promised(x) <= Promised(a) + n
  BY <1>3, <1>1 DEF AskType, Promised
<1> HIDE DEF a, x, n, fits
<1> QED BY <1>1, <1>4, <1>6, <1>7, <1>8, OneAskKeeps DEF a

LEMMA RefusedKeeps ==
    ASSUME EscrowInv, NEW p \in EProc, NEW t \in Tenant, LeaseRefused(p, t)
    PROVE  EscrowInv'
<1>1. /\ ask[p][t].st # "idle" /\ ask' = [ask EXCEPT ![p][t] = IdleAsk]
      /\ clk' = clk /\ plan' = plan /\ pool' = pool /\ asks' = asks /\ forgets' = forgets /\ spent' = spent
      /\ forgiven' = forgiven /\ shared' = shared /\ leased' = leased
  BY DEF LeaseRefused
<1>2. /\ ask \in [EProc -> [Tenant -> AskType]] /\ leased \in Nat /\ shared \in [win : Int, count : 0..Quota]
  BY EscrowTypes DEF EscrowInv, EscrowTypeOK
<1>3. leased' = leased + 0 /\ shared' \in [win : Int, count : 0..Quota] /\ 0 \in Nat
  BY <1>1, <1>2
<1>4. IdleAsk \in AskType /\ IdleAsk.st = "idle" /\ Promised(IdleAsk) = 0 /\ Promised(ask[p][t]) \in Nat
  BY <1>2, IdleTyped, PromisedNat DEF Promised
<1>5. Promised(IdleAsk) <= Promised(ask[p][t]) + 0
  BY <1>4
<1> QED BY <1>1, <1>3, <1>4, <1>5, OneAskKeeps
\* A reset forgives what it takes off the books, and orphans the checks of what it drops.
LEMMA ResetKeeps ==
    ASSUME EscrowInv, NEW p \in EProc, NEW gone, NEW q, NEW k \in EWindows, NEW n \in Nat,
           Sound(q, clk, plan.l2), k = pool[p].win,
           pool' = [pool EXCEPT ![p] = q], ask' = Orphaned(p, gone), forgiven' = Plus(forgiven, k, n),
           clk' = clk, plan' = plan, shared' = shared, asks' = asks, leased' = leased, spent' = spent, forgets' = forgets + 1,
           \A u \in Tenant : Has(pool[p].map, u) /\ u \notin gone => Has(q.map, u),
           q.map.aggUsed <= pool[p].map.aggUsed,
           plan.l2 => q.budget - q.map.aggUsed <= pool[p].budget - pool[p].map.aggUsed + n,
           pool[p].map.aggUsed <= n + (IF q.win = k THEN q.map.aggUsed ELSE 0) \/ plan.l2
    PROVE  EscrowInv'
<1> USE DEF EscrowInv
<1> DEFINE cur == EWindowOf(clk)
<1>0. /\ clk \in 0..EscrowTime /\ plan \in Plans /\ pool \in [EProc -> ProcessType]
      /\ ask \in [EProc -> [Tenant -> AskType]] /\ spent \in [EWindows -> Nat] /\ forgiven \in [EWindows -> Nat]
      /\ leased \in Nat /\ forgets \in Nat /\ cur \in EWindows /\ cur \in Nat /\ plan.procs \in Nat
  BY EscrowTypes, PlanOptions
<1>1. q \in ProcessType /\ q.budget \in Nat /\ q.map.aggUsed \in Nat
  BY ProcessFields, MapFields DEF Sound
<1>2. pool' \in [EProc -> ProcessType] /\ pool'[p] = q /\ \A i \in EProc : i # p => pool'[i] = pool[i]
  BY <1>0, <1>1
<1>3. AllSound'
  BY <1>2 DEF AllSound
<1>4. /\ ask' \in [EProc -> [Tenant -> AskType]] /\ \A i \in EProc : i # p => ask'[i] = ask[i]
      /\ \A u \in Tenant : /\ ask'[p][u].st = ask[p][u].st /\ ask'[p][u].amount = ask[p][u].amount
                           /\ ask'[p][u].own => ask[p][u].own
                           /\ u \in gone /\ ask[p][u].st # "idle" => ~ask'[p][u].own
  BY OrphanedIs
<1>5. AsksOK'
  <2> SUFFICES ASSUME NEW i \in EProc, NEW u \in Tenant PROVE AskOK(ask'[i][u], pool'[i].map, u, plan.l2)
    BY DEF AsksOK
  <2>0. AskOK(ask[i][u], pool[i].map, u, plan.l2) /\ ask'[i][u] \in AskType
    BY <1>4 DEF AsksOK
  <2>1. CASE i = p
    BY <1>2, <1>4, <2>0, <2>1 DEF AskOK
  <2>2. CASE i # p
    BY <1>2, <1>4, <2>0, <2>2
  <2> QED BY <2>1, <2>2
<1>6. EscrowTypeOK'
  <2>1. forgiven' \in [EWindows -> Nat] /\ forgets' \in Nat
    BY <1>0 DEF Plus
  <2> QED BY <1>2, <1>4, <2>1 DEF EscrowTypeOK, ProcessType
<1>7. /\ OverWindows(forgiven') = OverWindows(forgiven) + n /\ OverWindows(forgiven) \in Nat
      /\ forgiven'[k] = forgiven[k] + n /\ \A i \in EWindows : i # k => forgiven'[i] = forgiven[i]
  <2>1. forgiven \in [EWindows -> Nat] /\ k \in EWindows /\ n \in Nat /\ forgiven' = Plus(forgiven, k, n)
    BY <1>0
  <2> QED BY ONLY <2>1, WindowsChange
<1>8. OverWindows(spent) \in Nat
  <2>1. spent \in [EWindows -> Nat] /\ k \in EWindows /\ 0 \in Nat /\ Plus(spent, k, 0) = Plus(spent, k, 0)
    BY <1>0
  <2> QED BY ONLY <2>1, WindowsChange
<1>9. /\ \A i \in EProc : pool[i] \in ProcessType /\ pool'[i] \in ProcessType
      /\ \A i \in EProc : i # p => pool'[i] = pool[i]
  BY <1>0, <1>2
<1>10. pool[p].budget \in Nat /\ pool[p].map.aggUsed \in Nat
  BY <1>9, ProcessFields, MapFields
<1>11. ASSUME ~plan.l2 PROVE PlainLedger'
  <2>0. PlainLedger
    BY <1>11 DEF Ledgers
  <2>1. /\ Sum(InUse(pool', cur), NP) = Sum(InUse(pool, cur), NP) - InUse(pool, cur)[p] + InUse(pool', cur)[p]
        /\ Sum(InUse(pool, cur), NP) \in Int /\ Sum(InUse(pool', cur), NP) \in Int
    BY ONLY <1>9, InUseChanges, p \in EProc
  <2>2. /\ InUse(pool, cur)[p] = IF k = cur THEN pool[p].map.aggUsed ELSE 0
        /\ InUse(pool', cur)[p] = IF q.win = cur THEN q.map.aggUsed ELSE 0
    BY <1>2 DEF InUse
  <2>3. spent[cur] \in Nat /\ forgiven[cur] \in Nat /\ forgiven'[cur] \in Nat
    BY <1>0, <1>6 DEF EscrowTypeOK
  <2>4. spent[cur] <= forgiven[cur] + Sum(InUse(pool, cur), NP)
    BY <2>0 DEF PlainLedger
  <2>5. spent'[cur] <= forgiven'[cur] + Sum(InUse(pool', cur), NP)
    <3>1. CASE k = cur
      BY <1>1, <1>7, <1>10, <1>11, <2>1, <2>2, <2>3, <2>4, <3>1
    <3>2. CASE k # cur
      BY <1>0, <1>1, <1>7, <1>10, <2>1, <2>2, <2>3, <2>4, <3>2
    <3> QED BY <3>1, <3>2
  <2>6. ASSUME NEW i \in EProc, i > plan.procs PROVE pool'[i].map.aggUsed = 0
    <3>1. pool[i].map.aggUsed = 0
      BY <2>0, <2>6 DEF PlainLedger
    <3> QED BY <1>1, <1>2, <3>1
  <2>7. ASSUME NEW v \in EWindows
        PROVE  /\ v > cur => spent'[v] = 0
               /\ v < cur => spent'[v] <= plan.procs * Quota + forgiven'[v]
    <3>1. spent'[v] = spent[v] /\ forgiven'[v] >= forgiven[v] /\ forgiven[v] \in Nat /\ forgiven'[v] \in Nat /\ spent[v] \in Nat
      <4>1. CASE v = k
        BY <1>0, <1>6, <1>7, <4>1
      <4>2. CASE v # k
        BY <1>0, <1>6, <1>7, <4>2
      <4> QED BY <4>1, <4>2
    <3>2. (v > cur => spent[v] = 0) /\ (v < cur => spent[v] <= plan.procs * Quota + forgiven[v])
      BY <2>0 DEF PlainLedger
    <3>3. plan.procs * Quota \in Nat
      BY <1>0, EscrowOptions
    <3> DEFINE room == plan.procs * Quota
    <3> HIDE DEF room
    <3>4. room \in Nat /\ (v < cur => spent[v] <= room + forgiven[v])
      BY <3>2, <3>3 DEF room
    <3>5. v < cur => spent'[v] <= room + forgiven'[v]
      BY <3>1, <3>4
    <3> QED BY <3>1, <3>2, <3>5 DEF room
  <2> QED BY <2>5, <2>6, <2>7 DEF PlainLedger
<1>12. ASSUME plan.l2 PROVE LeaseLedger'
  <2>0. LeaseLedger
    BY <1>12 DEF Ledgers
  <2>1. /\ Sum(Spare(pool'), NP) = Sum(Spare(pool), NP) - (pool[p].budget - pool[p].map.aggUsed) + (pool'[p].budget - pool'[p].map.aggUsed)
        /\ Sum(Spare(pool), NP) \in Int /\ Sum(Spare(pool'), NP) \in Int
    BY ONLY <1>9, SpareChanges, p \in EProc
  <2>2. PICK t \in Tenant : TRUE
    BY TenantsCounted, EscrowOptions
  <2>3. \A i \in EProc, u \in Tenant : Promised(ask'[i][u]) = Promised(ask[i][u])
    BY <1>4 DEF Promised
  <2>4. /\ \A i \in EProc, u \in Tenant : Promised(ask[i][u]) \in Nat /\ Promised(ask'[i][u]) \in Nat
        /\ \A i \in EProc, u \in Tenant : i # p \/ u # t => Promised(ask'[i][u]) = Promised(ask[i][u])
    BY <1>0, <1>4, <2>3, PromisedNat
  <2>5. /\ Sum(Promises(ask'), NP) = Sum(Promises(ask), NP) - Promised(ask[p][t]) + Promised(ask'[p][t])
        /\ Sum(Promises(ask), NP) \in Int /\ Sum(Promises(ask'), NP) \in Int
    BY ONLY <2>4, PromisesChange, p \in EProc, t \in Tenant
  <2>6. Sum(Promises(ask'), NP) = Sum(Promises(ask), NP)
    BY <2>3, <2>4, <2>5
  <2>7. OverWindows(spent) + Sum(Spare(pool), NP) + Sum(Promises(ask), NP) <= leased + OverWindows(forgiven)
    BY <2>0 DEF LeaseLedger
  <2>8. OverWindows(spent) + Sum(Spare(pool'), NP) + Sum(Promises(ask'), NP) <= leased + OverWindows(forgiven')
    BY <1>0, <1>1, <1>2, <1>7, <1>8, <1>10, <1>12, <2>1, <2>5, <2>6, <2>7
  <2> QED BY <2>8 DEF LeaseLedger
<1> QED BY <1>2, <1>3, <1>5, <1>6, <1>11, <1>12 DEF Ledgers

LEMMA ResetTenantKeeps ==
    ASSUME EscrowInv, NEW p \in EProc, NEW t \in Tenant, ResetTenant(p, t)
    PROVE  EscrowInv'
<1> DEFINE m == pool[p].map
           d == Dropped(m, t)
           q == [pool[p] EXCEPT !.map = d]
           k == pool[p].win
           n == m.used[t]
<1>1. /\ Has(m, t) /\ pool' = [pool EXCEPT ![p] = q] /\ ask' = Orphaned(p, {t}) /\ forgiven' = Plus(forgiven, k, n)
      /\ clk' = clk /\ plan' = plan /\ shared' = shared /\ asks' = asks /\ leased' = leased /\ spent' = spent
      /\ forgets' = forgets + 1
  BY DEF ResetTenant, Plus
<1>2. Sound(pool[p], clk, plan.l2) /\ MapOK(m) /\ pool[p] \in ProcessType /\ clk \in 0..EscrowTime
  BY EscrowTypes DEF EscrowInv, AllSound, Sound
<1>3. k \in EWindows
  <2>1. k \in Nat /\ k <= EWindowOf(clk) /\ EWindowOf(clk) \in EWindows
    BY <1>1, <1>2, EscrowWindowOf DEF Sound
  <2>2. EWindowOf(EscrowTime) \in Nat
    BY <1>2, EscrowWindowOf
  <2> QED BY <2>1, <2>2 DEF EWindows
<1>4. /\ MapOK(d) /\ (Exact(m) => Exact(d))
      /\ d.aggUsed = m.aggUsed - m.used[t] /\ m.used[t] <= m.aggUsed /\ m.used[t] \in Nat
      /\ \A x : Has(d, x) <=> Has(m, x) /\ x # t
  BY <1>2, DroppedKeeps
<1>5. m.aggUsed \in Nat /\ pool[p].budget \in Nat /\ d.aggUsed <= m.aggUsed
  BY <1>2, <1>4, ProcessFields, MapFields
<1>6. Sound(q, clk, plan.l2) /\ q.map = d /\ q.win = k /\ q.budget = pool[p].budget
  <2>1. (\E x : Has(d, x)) => k \in Nat
    BY <1>3, <1>2, <1>4 DEF Sound
  <2> DEFINE r == pool[p]
  <2>2. /\ Sound(r, clk, plan.l2) /\ MapOK(d) /\ d.aggUsed <= r.map.aggUsed /\ (Exact(r.map) => Exact(d))
        /\ (\E x : Has(d, x)) => r.win \in Nat
        /\ q = [r EXCEPT !.map = d]
    BY <1>2, <1>4, <1>5, <2>1
  <2> HIDE DEF d, q, r
  <2>3. Sound(q, clk, plan.l2) /\ q.map = d /\ q.win = r.win /\ q.budget = r.budget
    BY <2>2, SoundWithMap
  <2> QED BY <2>3 DEF r
<1> HIDE DEF d, q, n
<1>7. /\ \A u \in Tenant : Has(pool[p].map, u) /\ u \notin {t} => Has(q.map, u)
      /\ q.map.aggUsed <= pool[p].map.aggUsed /\ n \in Nat
      /\ q.budget - q.map.aggUsed <= pool[p].budget - pool[p].map.aggUsed + n
      /\ pool[p].map.aggUsed <= n + (IF q.win = k THEN q.map.aggUsed ELSE 0)
  BY <1>4, <1>5, <1>6 DEF n
<1> HIDE DEF k
<1>8. k = pool[p].win
  BY DEF k
<1> QED BY <1>1, <1>3, <1>6, <1>7, <1>8, ResetKeeps

LEMMA ResetAllKeeps ==
    ASSUME EscrowInv, NEW p \in EProc, ResetAll(p)
    PROVE  EscrowInv'
<1> DEFINE v == 0 - 1
           q == FreshPool(v, StartBudget)
           k == pool[p].win
           n == IF plan.l2 THEN 0 ELSE pool[p].map.aggUsed
<1>1. /\ k >= 0 /\ pool' = [pool EXCEPT ![p] = q] /\ ask' = Orphaned(p, Tenant) /\ forgiven' = Plus(forgiven, k, n)
      /\ clk' = clk /\ plan' = plan /\ shared' = shared /\ asks' = asks /\ leased' = leased /\ spent' = spent
      /\ forgets' = forgets + 1
  BY DEF ResetAll, Plus
<1>2. Sound(pool[p], clk, plan.l2) /\ pool[p] \in ProcessType /\ clk \in 0..EscrowTime
  BY EscrowTypes DEF EscrowInv, AllSound, Sound
<1>3. k \in EWindows /\ EWindowOf(clk) \in Nat
  <2>1. k \in Nat /\ k <= EWindowOf(clk) /\ EWindowOf(clk) \in EWindows
    BY <1>1, <1>2, ProcessFields, EscrowWindowOf DEF Sound
  <2>2. EWindowOf(EscrowTime) \in Nat
    BY <1>2, EscrowWindowOf
  <2> QED BY <2>1, <2>2 DEF EWindows
<1>4. pool[p].map.aggUsed \in Nat /\ pool[p].budget \in Nat /\ pool[p].map.aggUsed <= pool[p].budget
  BY <1>2, ProcessFields, MapFields DEF Sound
<1>5. StartBudget \in Nat /\ (plan.l2 \/ StartBudget = Quota) /\ (plan.l2 => StartBudget = 0)
      /\ v \in Int /\ v + 1 \in Nat /\ v < 0 /\ v <= EWindowOf(clk)
  BY <1>3, EscrowOptions DEF StartBudget
<1> HIDE DEF v
<1>6. Sound(q, clk, plan.l2) /\ q.map = NoTenants /\ q.win = v /\ q.budget = StartBudget
  BY <1>5, FreshSound
<1> HIDE DEF q
<1>7. /\ \A u \in Tenant : Has(pool[p].map, u) /\ u \notin Tenant => Has(q.map, u)
      /\ q.map.aggUsed <= pool[p].map.aggUsed /\ n \in Nat
      /\ plan.l2 => q.budget - q.map.aggUsed <= pool[p].budget - pool[p].map.aggUsed + n
      /\ pool[p].map.aggUsed <= n + (IF q.win = k THEN q.map.aggUsed ELSE 0) \/ plan.l2
  <2>1. q.map.aggUsed = 0
    BY <1>6, NoTenantsOK
  <2> QED BY <1>4, <1>5, <1>6, <2>1
<1> HIDE DEF n, k
<1>8. k = pool[p].win
  BY DEF k
<1> QED BY <1>1, <1>3, <1>6, <1>7, <1>8, ResetKeeps

LEMMA EscrowTickKeeps ==
    ASSUME EscrowInv, EscrowTick
    PROVE  EscrowInv'
<1> USE DEF EscrowInv
<1> DEFINE cur == EWindowOf(clk)
           nxt == EWindowOf(clk')
<1>1. /\ clk < EscrowTime /\ clk' = clk + 1
      /\ plan' = plan /\ pool' = pool /\ ask' = ask /\ shared' = shared /\ asks' = asks /\ forgets' = forgets
      /\ leased' = leased /\ spent' = spent /\ forgiven' = forgiven
  BY DEF EscrowTick
<1>2. /\ clk \in 0..EscrowTime /\ plan \in Plans /\ pool \in [EProc -> ProcessType] /\ cur \in EWindows /\ cur \in Nat
      /\ spent \in [EWindows -> Nat] /\ forgiven \in [EWindows -> Nat] /\ plan.procs \in EProc /\ plan.procs \in Nat
  BY EscrowTypes, PlanOptions
<1>3. clk' \in 0..EscrowTime /\ clk <= clk'
  BY <1>1, <1>2, EscrowOptions
<1>4. cur <= nxt /\ nxt \in EWindows /\ nxt \in Nat
  BY <1>2, <1>3, EscrowWindowOf, EscrowWindowLater
<1>5. AllSound'
  <2> SUFFICES ASSUME NEW p \in EProc PROVE Sound(pool[p], clk', plan.l2)
    BY <1>1 DEF AllSound
  <2>1. Sound(pool[p], clk, plan.l2)
    BY DEF AllSound
  <2> QED BY <1>2, <1>3, <2>1, SoundLater
<1>6. AsksOK'
  BY <1>1 DEF AsksOK
<1>7. EscrowTypeOK'
  BY <1>1, <1>3 DEF EscrowTypeOK
<1>8. plan.l2 => LeaseLedger'
  BY <1>1 DEF Ledgers, LeaseLedger
<1>9. ASSUME ~plan.l2 PROVE PlainLedger'
  <2>0. PlainLedger
    BY <1>9 DEF Ledgers
  <2> DEFINE x == InUse(pool, cur)
             room == plan.procs * Quota
             y == [i \in EProc |-> IF i <= plan.procs THEN Quota ELSE 0]
  <2>1. Quota \in Nat /\ room \in Nat /\ NP \in Nat /\ EProc = 1..NP
    BY <1>2, EscrowOptions DEF EProc
  <2>2. \A i \in EProc : /\ x[i] \in Nat /\ x[i] <= Quota
                         /\ i > plan.procs => x[i] = 0
    <3> SUFFICES ASSUME NEW i \in EProc PROVE x[i] \in Nat /\ x[i] <= Quota /\ (i > plan.procs => x[i] = 0)
      OBVIOUS
    <3>1. x[i] = IF pool[i].win = cur THEN pool[i].map.aggUsed ELSE 0
      BY DEF InUse
    <3>2. Sound(pool[i], clk, plan.l2)
      BY DEF AllSound
    <3>3. pool[i].map.aggUsed \in Nat /\ pool[i].map.aggUsed <= Quota
      BY <1>9, <2>1, <3>2, ProcessFields, MapFields DEF Sound
    <3>4. i > plan.procs => pool[i].map.aggUsed = 0
      BY <2>0 DEF PlainLedger
    <3> QED BY <2>1, <3>1, <3>3, <3>4
  <2> HIDE DEF x, room
  <2>3. Sum(x, NP) \in Nat /\ Sum(x, NP) <= room
    BY <1>2, <2>1, <2>2, BoundedSum DEF room
  <2>4. ASSUME NEW v \in EWindows, v < nxt PROVE spent[v] <= room + forgiven[v]
    <3>1. spent[v] \in Nat /\ forgiven[v] \in Nat /\ v \in Nat
      BY <1>2 DEF EWindows
    <3>2. CASE v < cur
      BY <2>0, <3>2 DEF PlainLedger, room
    <3>3. CASE v = cur
      BY <2>0, <2>1, <2>3, <3>1, <3>3 DEF PlainLedger, x
    <3>4. CASE v > cur
      BY <2>0, <2>1, <3>1, <3>4 DEF PlainLedger
    <3> QED BY <1>2, <3>1, <3>2, <3>3, <3>4
  <2>5. ASSUME NEW v \in EWindows, v > nxt PROVE spent[v] = 0
    <3>1. v > cur
      BY <1>2, <1>4, <2>5 DEF EWindows
    <3> QED BY <2>0, <3>1 DEF PlainLedger
  <2>6. spent[nxt] <= forgiven[nxt] + Sum(InUse(pool, nxt), NP)
    <3>1. CASE nxt = cur
      BY <2>0, <3>1 DEF PlainLedger
    <3>2. CASE nxt # cur
      <4>1. spent[nxt] = 0
        BY <1>2, <1>4, <2>0, <3>2 DEF PlainLedger
      <4>2. Sum(InUse(pool, nxt), NP) \in Nat
        <5> DEFINE z == InUse(pool, nxt)
        <5>1. \A i \in 1..NP : z[i] \in Nat
          BY <1>2, <2>1, ProcessFields, MapFields DEF InUse
        <5> HIDE DEF z
        <5>2. Sum(z, NP) \in Nat
          BY ONLY <2>1, <5>1, SumNat
        <5> QED BY <5>2 DEF z
      <4>3. forgiven[nxt] \in Nat
        BY <1>2, <1>4
      <4> QED BY <4>1, <4>2, <4>3
    <3> QED BY <3>1, <3>2
  <2> HIDE DEF cur, nxt
  <2>7. \A i \in EProc : i > plan.procs => pool[i].map.aggUsed = 0
    BY <2>0 DEF PlainLedger
  <2> QED BY <1>1, <2>4, <2>5, <2>6, <2>7 DEF PlainLedger, room, nxt
<1> QED BY <1>1, <1>5, <1>6, <1>7, <1>8, <1>9 DEF Ledgers
LEMMA EscrowStepKeeps == ASSUME EscrowInv, [EscrowNext]_escrowVars PROVE EscrowInv'
<1>1. CASE UNCHANGED escrowVars
  <2>1. /\ clk' = clk /\ plan' = plan /\ pool' = pool /\ ask' = ask /\ shared' = shared /\ asks' = asks
        /\ forgets' = forgets /\ leased' = leased /\ spent' = spent /\ forgiven' = forgiven
    BY <1>1 DEF escrowVars
  <2>2. EscrowTypeOK' /\ AllSound' /\ AsksOK'
    BY <2>1 DEF EscrowInv, EscrowTypeOK, AllSound, AsksOK
  <2>3. Ledgers'
    BY <2>1 DEF EscrowInv, Ledgers, PlainLedger, LeaseLedger
  <2> QED BY <2>2, <2>3 DEF EscrowInv
<1>2. ASSUME NEW p \in EProc, NEW t \in Tenant, NEW cost \in EscrowCosts, NEW w \in Weights, EscrowCheck(p, t, cost, w)
      PROVE  EscrowInv'
  <2>1. cost \in Nat /\ w \in Nat
    BY EscrowOptions
  <2> QED BY <1>2, <2>1, CheckKeeps
<1>3. ASSUME NEW p \in EProc, NEW t \in Tenant,
             SharedApply(p, t) \/ LeaseGranted(p, t) \/ LeaseRefused(p, t) \/ ResetTenant(p, t)
      PROVE  EscrowInv'
  BY <1>3, SharedKeeps, GrantedKeeps, RefusedKeeps, ResetTenantKeeps
<1>4. ASSUME NEW p \in EProc, ResetAll(p) PROVE EscrowInv'
  BY <1>4, ResetAllKeeps
<1>5. CASE EscrowTick
  BY <1>5, EscrowTickKeeps
<1> QED BY <1>1, <1>2, <1>3, <1>4, <1>5 DEF EscrowNext

\* The inductive invariant of the fair escrow of a region.
THEOREM EscrowInvariant == EscrowSpec => []EscrowInv
<1>1. EscrowInit => EscrowInv
  BY EscrowInitKeeps
<1>2. EscrowInv /\ [EscrowNext]_escrowVars => EscrowInv'
  BY EscrowStepKeeps
<1> QED BY <1>1, <1>2, PTL DEF EscrowSpec

LEMMA InvCounters == EscrowInv => CountersMatchRescan
<1> SUFFICES ASSUME EscrowInv, NEW p \in EProc
             PROVE  LET m == pool[p].map IN
                    /\ m.aggWeight = Sum(m.weight, NT)
                    /\ m.aggUsed >= Sum(m.used, NT)
                    /\ ~plan.l2 => m.aggUsed = Sum(m.used, NT)
  BY DEF CountersMatchRescan
<1>1. Sound(pool[p], clk, plan.l2)
  BY DEF EscrowInv, AllSound
<1> QED BY <1>1 DEF Sound, MapOK, Exact

LEMMA InvCap == EscrowInv => EscrowCap
<1> SUFFICES ASSUME EscrowInv PROVE EscrowCap
  OBVIOUS
<1>0. /\ clk \in 0..EscrowTime /\ plan \in Plans /\ pool \in [EProc -> ProcessType]
      /\ ask \in [EProc -> [Tenant -> AskType]] /\ EWindowOf(clk) \in EWindows /\ EWindowOf(clk) \in Nat
      /\ spent \in [EWindows -> Nat] /\ forgiven \in [EWindows -> Nat] /\ plan.procs \in EProc /\ plan.procs \in Nat
      /\ leased \in Nat
  BY EscrowTypes, PlanOptions DEF EscrowInv
<1>1. NP \in Nat /\ EProc = 1..NP /\ Quota \in Nat
  BY EscrowOptions DEF EProc
<1>2. \A i \in EProc : /\ pool[i].map.aggUsed \in Nat /\ pool[i].budget \in Nat /\ pool[i].map.aggUsed <= pool[i].budget
                       /\ ~plan.l2 => pool[i].budget = Quota
  BY <1>0, ProcessFields, MapFields DEF EscrowInv, AllSound, Sound
<1>3. ASSUME ~plan.l2, NEW w \in EWindows PROVE spent[w] <= plan.procs * Quota + forgiven[w]
  <2> DEFINE cur == EWindowOf(clk)
             x == InUse(pool, cur)
             room == plan.procs * Quota
  <2>0. PlainLedger
    BY <1>3 DEF EscrowInv, Ledgers
  <2>1. \A i \in EProc : x[i] \in Nat /\ x[i] <= Quota /\ (i > plan.procs => x[i] = 0)
    <3> SUFFICES ASSUME NEW i \in EProc PROVE x[i] \in Nat /\ x[i] <= Quota /\ (i > plan.procs => x[i] = 0)
      OBVIOUS
    <3>1. x[i] = IF pool[i].win = cur THEN pool[i].map.aggUsed ELSE 0
      BY DEF InUse
    <3>2. i > plan.procs => pool[i].map.aggUsed = 0
      BY <2>0 DEF PlainLedger
    <3>3. pool[i].map.aggUsed \in Nat /\ pool[i].map.aggUsed <= Quota
      BY <1>1, <1>2, <1>3
    <3> QED BY <1>1, <3>1, <3>2, <3>3
  <2> HIDE DEF x
  <2>2. Sum(x, NP) \in Nat /\ Sum(x, NP) <= room
    BY <1>0, <1>1, <2>1, BoundedSum
  <2>3. room \in Nat /\ spent[w] \in Nat /\ forgiven[w] \in Nat /\ w \in Nat
    BY <1>0, <1>1 DEF EWindows
  <2> HIDE DEF room
  <2>4. CASE w = cur
    <3>1. spent[w] <= forgiven[w] + Sum(x, NP)
      BY <2>0, <2>4 DEF PlainLedger, x
    <3>2. spent[w] <= room + forgiven[w]
      BY <2>2, <2>3, <3>1
    <3> QED BY <3>2 DEF room
  <2>5. CASE w < cur
    BY <2>0, <2>5 DEF PlainLedger
  <2>6. CASE w > cur
    <3>1. spent[w] <= room + forgiven[w]
      BY <2>0, <2>3, <2>6 DEF PlainLedger
    <3> QED BY <3>1 DEF room
  <2>70. w \in Nat /\ cur \in Nat
    BY <1>0, <2>3
  <2>7. w = cur \/ w < cur \/ w > cur
    BY ONLY <2>70
  <2> QED BY <2>4, <2>5, <2>6, <2>7
<1>4. ASSUME plan.l2 PROVE OverWindows(spent) <= leased + OverWindows(forgiven)
  <2>1. OverWindows(spent) + Sum(Spare(pool), NP) + Sum(Promises(ask), NP) <= leased + OverWindows(forgiven)
    BY <1>4 DEF EscrowInv, Ledgers, LeaseLedger
  <2> DEFINE x == Spare(pool)
             y == Promises(ask)
  <2>2. \A i \in 1..NP : x[i] \in Nat
    BY <1>1, <1>2 DEF Spare
  <2>3. \A i \in 1..NP : y[i] \in Nat
    <3> SUFFICES ASSUME NEW i \in EProc PROVE y[i] \in Nat
      BY <1>1
    <3> DEFINE a == PromisedBy(ask[i])
    <3>1. NT \in Nat /\ Tenant = 1..NT
      BY TenantsCounted
    <3>2. \A t \in 1..NT : a[t] \in Nat
      BY <1>0, <3>1, PromisedNat DEF PromisedBy
    <3> HIDE DEF a
    <3>3. Sum(a, NT) \in Nat
      BY ONLY <3>1, <3>2, SumNat
    <3> QED BY <3>3 DEF a, Promises
  <2> HIDE DEF x, y
  <2>4. Sum(x, NP) \in Nat /\ Sum(y, NP) \in Nat
    BY ONLY <1>1, <2>2, <2>3, SumNat
  <2> DEFINE w == EWindowOf(clk)
  <2>5. /\ forgiven \in [EWindows -> Nat] /\ w \in EWindows /\ 0 \in Nat /\ Plus(forgiven, w, 0) = Plus(forgiven, w, 0)
        /\ spent \in [EWindows -> Nat] /\ Plus(spent, w, 0) = Plus(spent, w, 0)
    BY <1>0
  <2> HIDE DEF w
  <2>6. OverWindows(forgiven) \in Nat /\ OverWindows(spent) \in Nat
    BY ONLY <2>5, WindowsChange
  <2> QED BY <1>0, <2>1, <2>4, <2>6 DEF x, y
<1> QED BY <1>3, <1>4 DEF EscrowCap
----------------------------------------------------------------------------
(* FairEscrow: one unit leaves the guarantees covered *)

\* What of the guarantee of tenant i is unused, and the sum that must stay free for all but one.
Unused(weight, uses, total, budget, i) == Most(0, Share(weight[i], total, budget) - uses[i])
Held(weight, uses, asker, total, budget) ==
    [j \in 1..NT |-> IF j = asker THEN 0 ELSE Unused(weight, uses, total, budget, j)]

LEMMA ShareInt ==
    ASSUME NEW x \in Nat, NEW total \in Nat, NEW b \in Nat PROVE Share(x, total, b) \in Nat
<1>1. x * b \in Nat
  OBVIOUS
<1> DEFINE y == x * b
<1> HIDE DEF y
<1>2. y \in Nat /\ (total > 0 => y \div total \in Nat)
  <2>1. y \in Nat
    BY <1>1 DEF y
  <2>2. ASSUME total > 0 PROVE y \div total \in Nat
    <3>1. total \in Nat \ {0} /\ y <= y
      BY <2>1, <2>2
    <3> QED BY ONLY <2>1, <3>1, DivMonotone
  <2> QED BY <2>1, <2>2
<1> QED BY <1>2 DEF Share, y

\* The reserve for all is the asker's unused share on top of the reserve for the others, and
\* only the asker's part changes with the asker's uses.
Splits(weight, u, v, total, b, t) ==
    /\ ReserveFor(weight, u, NT, 0, total, b) = ReserveFor(weight, u, NT, t, total, b) + Unused(weight, u, total, b, t)
    /\ ReserveFor(weight, v, NT, 0, total, b) = ReserveFor(weight, u, NT, t, total, b) + Unused(weight, v, total, b, t)
    /\ ReserveFor(weight, u, NT, t, total, b) \in Nat
LEMMA ReserveSplits ==
    ASSUME NEW weight \in [Tenant -> Nat], NEW u \in [Tenant -> Nat], NEW v \in [Tenant -> Nat],
           NEW total \in Nat, NEW b \in Nat, NEW t \in Tenant, \A i \in Tenant : i # t => v[i] = u[i]
    PROVE  Splits(weight, u, v, total, b, t)
<1> DEFINE x == Held(weight, u, 0, total, b)
           y == Held(weight, u, t, total, b)
           z == Held(weight, v, 0, total, b)
<1>0. NT \in Nat /\ Tenant = 1..NT /\ 0 \notin Tenant
  BY TenantsCounted
<1>1. /\ ReserveFor(weight, u, NT, 0, total, b) = Sum(x, NT)
      /\ ReserveFor(weight, u, NT, t, total, b) = Sum(y, NT)
      /\ ReserveFor(weight, v, NT, 0, total, b) = Sum(z, NT)
  BY DEF ReserveFor, Held, Unused
<1>2. \A i \in Tenant : Unused(weight, u, total, b, i) \in Nat /\ Unused(weight, v, total, b, i) \in Nat
  <2> SUFFICES ASSUME NEW i \in Tenant
               PROVE  Unused(weight, u, total, b, i) \in Nat /\ Unused(weight, v, total, b, i) \in Nat
    OBVIOUS
  <2>1. Share(weight[i], total, b) \in Nat
    <3>1. weight[i] \in Nat
      OBVIOUS
    <3> QED BY <3>1, ShareInt
  <2>2. u[i] \in Nat /\ v[i] \in Nat
    OBVIOUS
  <2> QED BY <2>1, <2>2 DEF Unused, Most
<1>3. \A i \in Tenant : /\ x[i] = Unused(weight, u, total, b, i)
                        /\ y[i] = IF i = t THEN 0 ELSE Unused(weight, u, total, b, i)
                        /\ z[i] = Unused(weight, v, total, b, i)
  BY <1>0 DEF Held
<1>4. \A i \in Tenant : i # t => Unused(weight, v, total, b, i) = Unused(weight, u, total, b, i)
  BY DEF Unused
<1> HIDE DEF x, y, z
<1>5. /\ \A i \in Tenant : y[i] \in Nat /\ x[i] \in Nat
      /\ \A i \in Tenant : i # t => x[i] = y[i]
      /\ \A i \in Tenant : y[i] \in Nat /\ z[i] \in Nat
      /\ \A i \in Tenant : i # t => z[i] = y[i]
      /\ x[t] = Unused(weight, u, total, b, t) /\ z[t] = Unused(weight, v, total, b, t)
  BY <1>2, <1>3, <1>4
<1>50. y[t] = 0
  BY <1>3
<1>6. Sum(x, NT) = Sum(y, NT) - y[t] + x[t] /\ Sum(y, NT) \in Nat
  BY ONLY <1>5, TenantSum, t \in Tenant
<1>7. Sum(z, NT) = Sum(y, NT) - y[t] + z[t]
  BY ONLY <1>5, TenantSum, t \in Tenant
<1>8. x[t] \in Nat /\ z[t] \in Nat
  BY <1>5
<1>9. Sum(x, NT) = Sum(y, NT) + x[t] /\ Sum(z, NT) = Sum(y, NT) + z[t]
  BY ONLY <1>50, <1>6, <1>7, <1>8
<1> QED BY <1>1, <1>5, <1>6, <1>9 DEF Splits

\* decide() on one unit.
LEMMA UnitCovered ==
    ASSUME NEW share \in Nat, NEW u \in Nat, NEW free \in Int, NEW reserve \in Nat,
           reserve + Most(0, share - u) <= free, Admits(u, 1, share, free, reserve)
    PROVE  reserve + Most(0, share - (u + 1)) <= free - 1
BY DEF Admits, Most, Least

\* The entry a check holds as its own, and what it asks.
Entered(m, t, cost) == Entry(m, t, Asked(cost))
LEMMA EntryIs == \A m, t, cost : /\ Entered(m, t, cost).weight = m.weight[t] /\ Entered(m, t, cost).used = m.used[t]
                                 /\ Entered(m, t, cost).own /\ Asked(cost).own /\ Asked(cost).cost = cost
BY DEF Entered, Entry, Asked, IdleAsk

LEMMA CheckLeavesCovered ==
    ASSUME EscrowInv, ~plan.l2, NEW p \in EProc, NEW t \in Tenant, NEW cost \in Nat, NEW w \in Nat,
           EscrowCheck(p, t, cost, w), SameTerms(p), Solvent(p), pool'[p].map.aggUsed <= pool[p].map.aggUsed + 1
    PROVE  Solvent(p)'
<1> DEFINE s == ReadyAt(p, t, w)
           a == Asked(cost)
           o == Orphaned(p, GoneAt(p, t))
           m == pool[p].map
           b == pool[p].budget
           free == b - m.aggUsed
           r == ReserveFor(m.weight, m.used, NT, t, m.aggWeight, b)
           share == Share(m.weight[t], m.aggWeight, b)
<1>0. EscrowTypeOK /\ AllSound /\ AsksOK /\ Sound(pool[p], clk, plan.l2) /\ pool \in [EProc -> ProcessType]
  BY EscrowTypes DEF EscrowInv, AllSound
<1>1. PICK n, q, x : Outcome(p, t, s, a, o, n, q, x)
  BY <1>0, CheckOutcome
<1>2. /\ n \in Nat /\ pool'[p] = q /\ q.win = s.win /\ q.budget = s.budget
      /\ q.map.aggUsed = s.map.aggUsed + n /\ q.map.order = s.map.order /\ q.map.weight = s.map.weight
      /\ \A i \in Tenant : q.map.used[i] = s.map.used[i] + (IF i = t THEN n ELSE 0)
      /\ n # 0 => n = cost /\ Decides(s.map, s.budget, t, Entered(s.map, t, cost), n)
      /\ Sound(q, clk, plan.l2)
  BY <1>0, <1>1, EntryIs DEF Outcome, Booked, Entered
<1>3. /\ s.win = EWindowOf(clk) /\ Sound(s, clk, plan.l2)
      /\ s.budget = Begun(p).budget /\ s.map.aggUsed = Begun(p).map.aggUsed - LostAt(p, t)
      /\ ~RollsAt(p) /\ ~Has(pool[p].map, t) => s.map.order # pool[p].map.order
      /\ ~RollsAt(p) /\ Has(pool[p].map, t) => s.map.used = pool[p].map.used /\ LostAt(p, t) = 0
  BY <1>0, ReadySound
<1>4. /\ q.map.weight = m.weight /\ q.map.order = m.order /\ q.budget = b /\ q.win = pool[p].win
  BY <1>2 DEF SameTerms
<1>5. ~RollsAt(p) /\ Has(m, t) /\ Begun(p) = pool[p]
  <2>1. ~RollsAt(p) /\ Begun(p) = pool[p]
    BY <1>0, <1>2, <1>3, <1>4, BegunSound
  <2>2. Has(m, t)
    BY <1>2, <1>3, <1>4, <2>1
  <2> QED BY <2>1, <2>2
<1>6. /\ MapOK(m) /\ MapOK(q.map) /\ MapOK(s.map) /\ m \in MapType /\ q.map \in MapType /\ b \in Nat /\ s.map \in MapType
  BY <1>0, <1>2, <1>3, ProcessFields DEF Sound, MapOK
<1>7. /\ m.weight \in [Tenant -> Nat] /\ m.used \in [Tenant -> Nat] /\ m.aggWeight \in Nat /\ m.aggUsed \in Nat
      /\ q.map.used \in [Tenant -> Nat]
  BY <1>6, MapFields
<1>80. s.map.used = m.used /\ LostAt(p, t) = 0
  BY <1>3, <1>5
<1>81. s.map.weight = m.weight /\ q.map.weight = m.weight
  BY <1>2, <1>4
<1>82. s.budget = b
  BY <1>3, <1>5
<1>83. s.map.aggUsed = m.aggUsed - 0
  BY <1>3, <1>5, <1>80
<1>84. s.map.aggUsed = m.aggUsed
  BY ONLY <1>7, <1>83
<1>85. m.aggWeight = Sum(m.weight, NT) /\ q.map.aggWeight = Sum(q.map.weight, NT) /\ s.map.aggWeight = Sum(s.map.weight, NT)
  BY ONLY <1>6 DEF MapOK
<1>8. /\ s.map.used = m.used /\ s.map.weight = m.weight /\ s.map.aggUsed = m.aggUsed /\ s.budget = b
      /\ s.map.aggWeight = m.aggWeight /\ q.map.aggWeight = m.aggWeight
  BY ONLY <1>80, <1>81, <1>82, <1>84, <1>85
<1>90. /\ q.map.aggUsed = s.map.aggUsed + n /\ s.map.aggUsed = m.aggUsed /\ pool'[p] = q
       /\ pool'[p].map.aggUsed <= m.aggUsed + 1
  BY <1>2, <1>8
<1>91. n \in Nat /\ m.aggUsed \in Nat
  BY <1>2, <1>7
<1>9. q.map.aggUsed = m.aggUsed + n /\ n <= 1
  BY ONLY <1>90, <1>91
<1>10. \A i \in Tenant : q.map.used[i] = m.used[i] + (IF i = t THEN n ELSE 0)
  BY <1>2, <1>8
<1> DEFINE v == q.map.used
           u == m.used
           wt == m.weight
           total == m.aggWeight
<1>11. /\ wt \in [Tenant -> Nat] /\ u \in [Tenant -> Nat] /\ v \in [Tenant -> Nat] /\ total \in Nat /\ b \in Nat
       /\ \A i \in Tenant : i # t => v[i] = u[i]
       /\ v[t] = u[t] + n
  BY <1>6, <1>7, <1>10
<1>110. /\ wt \in [Tenant -> Nat] /\ u \in [Tenant -> Nat] /\ v \in [Tenant -> Nat] /\ total \in Nat /\ b \in Nat
        /\ \A i \in Tenant : i # t => v[i] = u[i]
  BY <1>11
<1>12. Reserved(p) = ReserveFor(wt, u, NT, 0, total, b) /\ Reserved(p)' = ReserveFor(wt, v, NT, 0, total, b)
  BY <1>2, <1>4, <1>8 DEF Reserved
<1>13. Reserved(p) <= b - m.aggUsed
  BY DEF Solvent
<1>14. n # 0 => Decides(s.map, b, t, Entered(s.map, t, cost), n)
  BY <1>2, <1>8
<1> HIDE DEF wt, u, v, total
<1> HIDE DEF b
<1>15. /\ ReserveFor(wt, u, NT, 0, total, b) = ReserveFor(wt, u, NT, t, total, b) + Unused(wt, u, total, b, t)
       /\ ReserveFor(wt, v, NT, 0, total, b) = ReserveFor(wt, u, NT, t, total, b) + Unused(wt, v, total, b, t)
       /\ ReserveFor(wt, u, NT, t, total, b) \in Nat
  <2>1. Splits(wt, u, v, total, b, t)
    BY ONLY <1>110, ReserveSplits, t \in Tenant
  <2> QED BY ONLY <2>1 DEF Splits
<1>16. Share(wt[t], total, b) \in Nat /\ u[t] \in Nat /\ wt[t] \in Nat
  <2>1. wt[t] \in Nat /\ u[t] \in Nat
    BY <1>11
  <2> QED BY <1>11, <2>1, ShareInt
<1>17. Reserved(p)' <= b - q.map.aggUsed
  <2>1. CASE n = 0
    <3>1. v[t] = u[t]
      BY <1>11, <1>16, <2>1
    <3>2. Unused(wt, v, total, b, t) = Unused(wt, u, total, b, t)
      BY <3>1 DEF Unused
    <3>3. Reserved(p)' = Reserved(p)
      BY <1>12, <1>15, <3>2
    <3> QED BY <1>7, <1>9, <1>13, <2>1, <3>3
  <2>2. CASE n # 0
    <3>1. n = 1
      BY <1>2, <1>9, <2>2
    <3> DEFINE y == ReserveFor(wt, u, NT, t, total, b)
               z == Share(wt[t], total, b)
               f == b - m.aggUsed
    <3>2. y \in Nat /\ z \in Nat /\ f \in Int /\ y + Most(0, z - u[t]) <= f /\ v[t] = u[t] + 1
      BY <1>7, <1>11, <1>12, <1>13, <1>15, <1>16, <3>1 DEF Unused
    <3>3. IF total = 0 THEN 1 <= f ELSE Admits(u[t], 1, z, f, y)
      <4> DEFINE k == s.map
                 e == Entered(k, t, cost)
      <4>1. k.aggWeight = total /\ k.weight = wt /\ k.used = u /\ k.aggUsed = m.aggUsed
        BY <1>8 DEF total, wt, u
      <4>2. e.own /\ e.weight = wt[t] /\ e.used = u[t]
        BY <4>1, EntryIs
      <4>3. Decides(k, b, t, e, 1)
        BY <1>14, <2>2, <3>1
      <4> HIDE DEF k, e
      <4> QED BY <4>1, <4>2, <4>3 DEF Decides
    <3>4. y + Most(0, z - (u[t] + 1)) <= f - 1
      <4>1. CASE total = 0
        <5>1. z = 0
          BY <4>1 DEF Share
        <5> HIDE DEF y, z, f
        <5>2. Most(0, z - (u[t] + 1)) = 0 /\ Most(0, z - u[t]) = 0
          BY <1>16, <5>1 DEF Most
        <5>3. y <= f - 1
          <6>1. \A i \in Tenant : Unused(wt, u, total, b, i) = 0
            BY <4>1, <1>11 DEF Unused, Share, Most
          <6>2. Sum(Held(wt, u, t, total, b), NT) = 0
            <7> DEFINE h == Held(wt, u, t, total, b)
            <7>1. NT \in Nat /\ \A i \in 1..NT : h[i] = 0
              BY <6>1, TenantsCounted DEF Held
            <7> HIDE DEF h
            <7>2. Sum(h, NT) = 0
              BY ONLY <7>1, SumZero
            <7> QED BY <7>2 DEF h
          <6>3. y = 0
            BY <6>2 DEF y, ReserveFor, Held, Unused
          <6> QED BY <3>2, <3>3, <4>1, <6>3
        <5> QED BY <3>2, <5>2, <5>3
      <4>2. CASE total # 0
        <5>1. Admits(u[t], 1, z, f, y)
          BY <3>3, <4>2
        <5> HIDE DEF y, z, f
        <5> QED BY <1>16, <3>2, <5>1, UnitCovered
      <4> QED BY <4>1, <4>2
    <3>5. Reserved(p)' = y + Most(0, z - (u[t] + 1))
      BY <1>12, <1>15, <3>2 DEF Unused
    <3> QED BY <1>6, <1>7, <1>9, <3>1, <3>4, <3>5
  <2> QED BY <2>1, <2>2
<1>18. pool'[p].budget = b /\ pool'[p].map.aggUsed = q.map.aggUsed
  BY <1>2, <1>4
<1> QED BY <1>17, <1>18 DEF Solvent
\* A step that leaves a process alone leaves it as solvent as it was.
LEMMA UntouchedSolvent ==
    ASSUME NEW p \in EProc, pool'[p] = pool[p], Solvent(p)
    PROVE  Solvent(p)'
BY DEF Solvent, Reserved

LEMMA UnitsKeepCovered ==
    ASSUME EscrowInv, [EscrowNext]_escrowVars, NEW p \in EProc, ~plan.l2, SameTerms(p), Solvent(p),
           pool'[p].map.aggUsed <= pool[p].map.aggUsed + 1
    PROVE  Solvent(p)'
<1>0. pool \in [EProc -> ProcessType] /\ EscrowTypeOK /\ AllSound /\ AsksOK
  BY EscrowTypes DEF EscrowInv
<1>1. CASE UNCHANGED escrowVars
  <2>1. pool'[p] = pool[p]
    BY <1>1 DEF escrowVars
  <2> QED BY <2>1, UntouchedSolvent
<1>2. ASSUME NEW r \in EProc, NEW t \in Tenant, NEW cost \in EscrowCosts, NEW w \in Weights, EscrowCheck(r, t, cost, w)
      PROVE  Solvent(p)'
  <2>1. cost \in Nat /\ w \in Nat
    BY EscrowOptions
  <2>2. CASE r = p
    <3>1. EscrowCheck(p, t, cost, w)
      BY <1>2, <2>2
    <3> QED BY <2>1, <3>1, CheckLeavesCovered
  <2>3. CASE r # p
    <3>1. \E n, q, x : Outcome(r, t, ReadyAt(r, t, w), Asked(cost), Orphaned(r, GoneAt(r, t)), n, q, x)
      BY <1>0, <1>2, <2>1, CheckOutcome
    <3>2. PICK q : pool' = [pool EXCEPT ![r] = q]
      BY <3>1 DEF Outcome
    <3>3. pool'[p] = pool[p]
      BY <1>0, <2>3, <3>2
    <3> QED BY <3>3, UntouchedSolvent
  <2> QED BY <2>2, <2>3
<1>3. ASSUME NEW r \in EProc, NEW t \in Tenant, SharedApply(r, t) \/ LeaseGranted(r, t) \/ LeaseRefused(r, t)
      PROVE  Solvent(p)'
  <2>1. ask[r][t].st # "idle"
    BY <1>3 DEF SharedApply, LeaseGranted, LeaseRefused
  <2> QED BY <2>1, WaitsForL2
<1>4. ASSUME NEW r \in EProc, NEW t \in Tenant, ResetTenant(r, t) PROVE Solvent(p)'
  <2> DEFINE m == pool[r].map
             d == Dropped(m, t)
  <2>1. Has(m, t) /\ pool' = [pool EXCEPT ![r].map = d]
    BY <1>4 DEF ResetTenant
  <2>2. MapOK(m)
    BY <1>0 DEF AllSound, Sound
  <2>3. ~Has(d, t)
    BY <2>2, DroppedKeeps
  <2>4. d.order # m.order
    BY <2>1, <2>3 DEF Has
  <2>5. CASE r = p
    <3> HIDE DEF d
    <3>1. pool'[p].map = d
      BY <1>0, <2>1, <2>5, ProcessFields DEF ProcessType
    <3> QED BY <2>4, <2>5, <3>1 DEF SameTerms
  <2>6. CASE r # p
    <3> HIDE DEF d
    <3>1. pool'[p] = pool[p]
      BY <1>0, <2>1, <2>6
    <3> QED BY <3>1, UntouchedSolvent
  <2> QED BY <2>5, <2>6
<1>5. ASSUME NEW r \in EProc, ResetAll(r) PROVE Solvent(p)'
  <2> DEFINE q == FreshPool(-1, StartBudget)
  <2>1. pool[r].win >= 0 /\ pool' = [pool EXCEPT ![r] = q]
    BY <1>5 DEF ResetAll
  <2>2. q.win = -1
    BY DEF FreshPool
  <2> HIDE DEF q
  <2>3. CASE r = p
    <3>1. pool'[p] = q
      BY <1>0, <2>1, <2>3
    <3>2. pool[p].win = -1 /\ pool[p].win >= 0
      BY <2>1, <2>2, <2>3, <3>1 DEF SameTerms
    <3>3. FALSE
      BY ONLY <3>2
    <3> QED BY <3>3
  <2>4. CASE r # p
    <3>1. pool'[p] = pool[p]
      BY <1>0, <2>1, <2>4
    <3> QED BY <3>1, UntouchedSolvent
  <2> QED BY <2>3, <2>4
<1>6. CASE EscrowTick
  <2>1. pool'[p] = pool[p]
    BY <1>6 DEF EscrowTick
  <2> QED BY <2>1, UntouchedSolvent
<1> QED BY <1>1, <1>2, <1>3, <1>4, <1>5, <1>6 DEF EscrowNext

\* A behaviour of the run is one of the escrow of a region.
LEMMA RegionStep == ASSUME [Next]_<<subject, escrowVars, fairVars, sketchVars, denyVars>> PROVE [EscrowNext]_escrowVars
BY DEF Next

LEMMA RegionInvariant == Spec => []EscrowInv /\ [][EscrowNext]_escrowVars
<1>1. Init => EscrowInv
  BY EscrowInitKeeps DEF Init
<1>2. EscrowInv /\ [Next]_<<subject, escrowVars, fairVars, sketchVars, denyVars>> => EscrowInv'
  BY EscrowStepKeeps, RegionStep
<1>3. [Next]_<<subject, escrowVars, fairVars, sketchVars, denyVars>> => [EscrowNext]_escrowVars
  BY RegionStep
<1> QED BY <1>1, <1>2, <1>3, PTL DEF Spec

\* weightedFairEscrow(): the running sums of weights and of uses stay equal to what a scan of the
\* tenants map would give, through weight changes, evictions, rolls of the window and resets, and
\* with an L2 the sum of the uses never falls below it.
THEOREM CountersAreRescans == Spec => []CountersMatchRescan
BY RegionInvariant, InvCounters, PTL

\* weightedFairEscrow(): a window admits at most the limit in each process, plus only what
\* evictions and resets dropped from the books; with an L2 the fleet admits no unit it has not
\* leased, however many leases are under way when windows roll.
THEOREM RegionCapHolds == Spec => []EscrowCap
BY RegionInvariant, InvCap, PTL

\* decide() of the fair escrow: admitting one unit, guaranteed or borrowed, never uncovers the
\* guarantee of another tenant.
THEOREM UnitsNeverUncover == Spec => UnitsLeaveGuaranteesCovered
<1>1. EscrowInv /\ [EscrowNext]_escrowVars
        => [\A p \in EProc :
              (/\ ~plan.l2 /\ SameTerms(p) /\ Solvent(p)
               /\ pool'[p].map.aggUsed <= pool[p].map.aggUsed + 1) => Solvent(p)']_escrowVars
  BY UnitsKeepCovered
<1> QED BY <1>1, RegionInvariant, PTL DEF UnitsLeaveGuaranteesCovered
----------------------------------------------------------------------------
(* FederatedFairEscrow: the invariant *)

FairTime == PWindowOf(time)
Careful == ~setup.async \/ clears = 0

\* The pool is of no later window than the clock and has given out no more than the limit.
PoolOK(p, cur) == p \in PoolType /\ p.win <= cur /\ Sum(p.granted, NR) <= GlobalLimit
\* What a region has admitted in this window is within its budget, and the pool backs the budget.
Backed(r, g, p, cur) ==
    g.win = cur => UsedOf(g) <= g.budget /\ (g.budget > 0 => p.win = cur /\ g.budget <= p.granted[r])
\* A check under way holds an answer of the pool, and, as long as nothing was reset, one that
\* the pool still stands by.
TurnOK(r, g, t, p, cur, resets) ==
    /\ t \in TurnType /\ t.got <= GlobalLimit
    /\ t.st # "none" => setup.async /\ t.iter < MaxLeaseIters
    /\ t.st # "none" /\ resets = 0 => t.own /\ g.win >= 0
    /\ t.st = "told" /\ resets = 0 /\ g.win = cur => p.win = cur /\ g.budget <= t.got /\ t.got <= p.granted[r]

UsedIn(g, cur) == IF g.win = cur THEN UsedOf(g) ELSE 0
Uses(g, cur) == [i \in FRegion |-> UsedIn(g[i], cur)]
\* A window has answered what the regions have on their books for it and what they forgot; an
\* earlier one, the limit and what they forgot.
LedgerOK(sv, pd, u, cur) ==
    \A w \in PWindows :
        /\ w = cur => sv[w] <= u + pd[w]
        /\ w < cur => sv[w] <= GlobalLimit + pd[w]
        /\ w > cur => sv[w] = 0

FairRegionsOK == \A r \in FRegion : region[r].win <= FairTime
FairTurnsOK == \A r \in FRegion : TurnOK(r, region[r], turn[r], rpool, FairTime, clears)
FairBacked == \A r \in FRegion : Backed(r, region[r], rpool, FairTime) /\ releases[r] = 0
FairLedger == LedgerOK(served, pardoned, Sum(Uses(region, FairTime), NR), FairTime)
FairInv ==
    /\ FairTypeOK /\ PoolOK(rpool, FairTime) /\ FairRegionsOK /\ FairTurnsOK
    /\ Careful => FairBacked /\ FairLedger

LEMMA FairOptions ==
    /\ NR \in Nat \ {0} /\ NU \in Nat \ {0} /\ GlobalLimit \in Nat \ {0} /\ PoolWindow \in Nat \ {0}
    /\ MaxLeaseIters \in Nat \ {0} /\ MaxClears \in Nat /\ PoolTime \in Nat
    /\ UserWeights \subseteq Nat /\ UserCosts \subseteq Nat /\ FRegion = 1..NR /\ FUser = 1..NU
BY FederatedEscrowAssumption DEF FRegion, FUser

LEMMA SetupOptions ==
    ASSUME setup \in PoolPlans
    PROVE  setup.async \in BOOLEAN /\ setup.maxKeys \in Nat \ {0}
BY FederatedEscrowAssumption

LEMMA FairTypes ==
    ASSUME FairTypeOK
    PROVE  /\ time \in 0..PoolTime /\ setup \in PoolPlans /\ rpool \in PoolType
           /\ region \in [FRegion -> RegionType] /\ turn \in [FRegion -> TurnType] /\ releases \in [FRegion -> Nat]
           /\ drawn \in Nat /\ clears \in Nat /\ served \in [PWindows -> Nat] /\ pardoned \in [PWindows -> Nat]
BY DEF FairTypeOK

LEMMA FairWindowOf ==
    ASSUME NEW c \in 0..PoolTime
    PROVE  PWindowOf(c) \in PWindows /\ PWindowOf(c) \in Nat /\ PWindowOf(PoolTime) \in Nat
<1>1. c \in Nat /\ PoolTime \in Nat /\ c <= PoolTime /\ PoolWindow \in Nat \ {0}
  BY FairOptions
<1>2. c \div PoolWindow \in Nat /\ PoolTime \div PoolWindow \in Nat /\ c \div PoolWindow <= PoolTime \div PoolWindow
  BY ONLY <1>1, DivMonotone
<1> QED BY <1>2 DEF PWindowOf, PWindows

LEMMA FairWindowLater ==
    ASSUME NEW c \in 0..PoolTime, NEW d \in 0..PoolTime, c <= d
    PROVE  PWindowOf(c) <= PWindowOf(d)
<1>1. c \in Nat /\ d \in Nat /\ PoolWindow \in Nat \ {0}
  BY FairOptions
<1> QED BY ONLY <1>1, c <= d, DivMonotone DEF PWindowOf

LEMMA PoolFields ==
    ASSUME NEW p \in PoolType
    PROVE  /\ p.win \in Int /\ p.in \in SUBSET FRegion /\ p.weight \in [FRegion -> Nat]
           /\ p.granted \in [FRegion -> 0..GlobalLimit]
BY DEF PoolType

LEMMA RegionFields ==
    ASSUME NEW g \in RegionType
    PROVE  /\ g.win \in Int /\ g.budget \in 0..GlobalLimit /\ g.order \in Seq(FUser) /\ g.weight \in [FUser -> Nat]
           /\ g.used \in [FUser -> Nat] /\ g.evictedUsed \in Nat /\ g.budget \in Nat
BY FairOptions, SMTT(30) DEF RegionType

LEMMA TurnFields ==
    ASSUME NEW t \in TurnType
    PROVE  /\ t.st \in {"none", "asked", "told"} /\ t.user \in FUser /\ t.cost \in Nat /\ t.own \in BOOLEAN /\ t.weight \in Nat
           /\ t.used \in Nat /\ t.need \in Nat /\ t.wsum \in Nat /\ t.got \in Nat /\ t.iter \in 0..MaxLeaseIters
BY DEF TurnType

\* Sums over the regions, and over the tenants of one of them.
LEMMA RegionSum ==
    ASSUME NEW f, NEW g, NEW r \in FRegion, \A i \in FRegion : f[i] \in Nat /\ g[i] \in Nat,
           \A i \in FRegion : i # r => g[i] = f[i]
    PROVE  Sum(g, NR) = Sum(f, NR) - f[r] + g[r] /\ Sum(f, NR) \in Nat /\ Sum(g, NR) \in Nat
<1>1. NR \in Nat /\ r \in 1..NR
  BY FairOptions
<1>2. /\ \A i \in 1..NR : f[i] \in Int /\ g[i] \in Int
      /\ \A i \in 1..NR : i # r => f[i] = g[i]
      /\ \A i \in 1..NR : f[i] \in Nat
      /\ \A i \in 1..NR : g[i] \in Nat
  BY FairOptions
<1>3. Sum(g, NR) = Sum(f, NR) - f[r] + g[r]
  BY ONLY <1>1, <1>2, SumUpdate
<1>4. Sum(f, NR) \in Nat /\ Sum(g, NR) \in Nat
  BY ONLY <1>1, <1>2, SumNat
<1> QED BY <1>3, <1>4

LEMMA UserSum ==
    ASSUME NEW f, NEW g, NEW u \in FUser, \A i \in FUser : f[i] \in Nat /\ g[i] \in Nat,
           \A i \in FUser : i # u => g[i] = f[i]
    PROVE  Sum(g, NU) = Sum(f, NU) - f[u] + g[u] /\ Sum(f, NU) \in Nat /\ Sum(g, NU) \in Nat
<1>1. NU \in Nat /\ u \in 1..NU
  BY FairOptions
<1>2. /\ \A i \in 1..NU : f[i] \in Int /\ g[i] \in Int
      /\ \A i \in 1..NU : i # u => f[i] = g[i]
      /\ \A i \in 1..NU : f[i] \in Nat
      /\ \A i \in 1..NU : g[i] \in Nat
  BY FairOptions
<1>3. Sum(g, NU) = Sum(f, NU) - f[u] + g[u]
  BY ONLY <1>1, <1>2, SumUpdate
<1>4. Sum(f, NU) \in Nat /\ Sum(g, NU) \in Nat
  BY ONLY <1>1, <1>2, SumNat
<1> QED BY <1>3, <1>4

LEMMA UserSumNat == \A f \in [FUser -> Nat] : Sum(f, NU) \in Nat
<1> SUFFICES ASSUME NEW f \in [FUser -> Nat] PROVE Sum(f, NU) \in Nat
  OBVIOUS
<1>1. NU \in Nat /\ \A i \in 1..NU : f[i] \in Nat
  BY FairOptions
<1> QED BY ONLY <1>1, SumNat

\* The books of a region are naturals, and so is what its tenants are guaranteed.
LEMMA RegionBooks ==
    ASSUME NEW g \in RegionType
    PROVE  UsedOf(g) \in Nat /\ UserWeight(g) \in Nat /\ UsedOf(g) = g.evictedUsed + Sum(g.used, NU)
<1>1. Sum(g.used, NU) \in Nat /\ Sum(g.weight, NU) \in Nat /\ g.evictedUsed \in Nat
  BY RegionFields, UserSumNat
<1> QED BY <1>1 DEF UsedOf, UserWeight

LEMMA UserReserve ==
    ASSUME NEW weight \in [FUser -> Nat], NEW u \in [FUser -> Nat], NEW total \in Nat, NEW b \in Nat, NEW asker
    PROVE  ReserveFor(weight, u, NU, asker, total, b) \in Nat
<1> DEFINE x == [j \in 1..NU |-> IF j = asker THEN 0 ELSE Most(0, Share(weight[j], total, b) - u[j])]
<1>1. NU \in Nat /\ FUser = 1..NU
  BY FairOptions
<1>2. \A j \in 1..NU : x[j] \in Nat
  <2> SUFFICES ASSUME NEW j \in 1..NU PROVE Most(0, Share(weight[j], total, b) - u[j]) \in Nat
    OBVIOUS
  <2>1. weight[j] \in Nat /\ u[j] \in Nat
    BY <1>1
  <2>2. Share(weight[j], total, b) \in Nat
    BY <2>1, ShareInt
  <2> QED BY <2>1, <2>2 DEF Most
<1>3. ReserveFor(weight, u, NU, asker, total, b) = Sum(x, NU)
  BY DEF ReserveFor
<1> HIDE DEF x
<1>4. Sum(x, NU) \in Nat
  BY ONLY <1>1, <1>2, SumNat
<1> QED BY <1>3, <1>4

\* What a region asks the pool for is a natural.
LEMMA NeedNat ==
    ASSUME NEW g \in RegionType, NEW t \in TurnType
    PROVE  Need(g, t) \in Nat
<1> DEFINE a == IF t.own THEN t.user ELSE 0
           z == ReserveFor(g.weight, g.used, NU, a, UserWeight(g), g.budget)
<1>1. /\ g.weight \in [FUser -> Nat] /\ g.used \in [FUser -> Nat] /\ g.budget \in Nat
      /\ UserWeight(g) \in Nat /\ UsedOf(g) \in Nat /\ t.cost \in Nat /\ GlobalLimit \in Nat
  BY RegionFields, RegionBooks, TurnFields, FairOptions
<1>2. z \in Nat
  BY <1>1, UserReserve
<1>3. Need(g, t) = Least(GlobalLimit, UsedOf(g) + t.cost + z)
  BY DEF Need
<1> HIDE DEF z
<1> QED BY <1>1, <1>2, <1>3 DEF Least
----------------------------------------------------------------------------
(* FederatedFairEscrow: the pool *)

\* A later state of the pool stands by everything an earlier one stood by in this window.
Grew(p, q, cur) == q.win = cur /\ (p.win = cur => \A i \in FRegion : p.granted[i] <= q.granted[i])

LEMMA EmptyPoolIs ==
    ASSUME NEW w \in Int
    PROVE  /\ EmptyPool(w) \in PoolType /\ EmptyPool(w).win = w /\ Sum(EmptyPool(w).granted, NR) = 0
           /\ \A i \in FRegion : EmptyPool(w).granted[i] = 0
<1>1. EmptyPool(w) \in PoolType /\ EmptyPool(w).win = w /\ \A i \in FRegion : EmptyPool(w).granted[i] = 0
  BY FairOptions DEF EmptyPool, PoolType
<1> DEFINE f == EmptyPool(w).granted
<1>2. NR \in Nat /\ \A i \in 1..NR : f[i] = 0
  BY <1>1, FairOptions
<1> HIDE DEF f
<1>3. Sum(f, NR) = 0
  BY ONLY <1>2, SumZero
<1> QED BY <1>1, <1>3 DEF f

\* The first touch after a roll empties the pool, and any other leaves it alone.
LEMMA RolledIs ==
    ASSUME NEW p, PoolOK(p, FairTime), time \in 0..PoolTime
    PROVE  /\ PoolOK(RolledPool(p), FairTime) /\ RolledPool(p).win = FairTime
           /\ p.win = FairTime => RolledPool(p) = p
<1>1. FairTime \in Nat /\ p \in PoolType /\ p.win \in Int /\ p.win <= FairTime
  BY FairWindowOf, PoolFields DEF PoolOK, FairTime
<1>2. CASE FairTime > p.win
  <2>1. RolledPool(p) = EmptyPool(FairTime)
    BY <1>2 DEF RolledPool, FairTime
  <2>2. FairTime \in Int /\ 0 <= GlobalLimit
    BY <1>1, FairOptions
  <2> DEFINE c == FairTime
             e == EmptyPool(c)
  <2>3. e \in PoolType /\ e.win = c /\ Sum(e.granted, NR) = 0
    BY <2>2, EmptyPoolIs
  <2> HIDE DEF e, c
  <2>4. PoolOK(e, c)
    <3>1. c \in Int
      BY <2>2 DEF c
    <3> QED BY <2>2, <2>3, <3>1 DEF PoolOK
  <2>5. RolledPool(p) = e /\ c = FairTime
    BY <2>1 DEF e, c
  <2> QED BY <1>1, <1>2, <2>3, <2>4, <2>5
<1>3. CASE ~(FairTime > p.win)
  <2>1. RolledPool(p) = p
    BY <1>3 DEF RolledPool, FairTime
  <2>2. p.win = FairTime
    BY <1>1, <1>3
  <2> QED BY <2>1, <2>2
<1> QED BY <1>2, <1>3

\* The shares held back for the other regions cover what they were granted.
LEMMA HoldCovers ==
    ASSUME NEW weight \in [FRegion -> Nat], NEW granted \in [FRegion -> Nat], NEW r \in FRegion
    PROVE  /\ OthersHold(weight, granted, NR, r, GlobalLimit) \in Nat
           /\ Sum(granted, NR) <= OthersHold(weight, granted, NR, r, GlobalLimit) + granted[r]
<1> DEFINE W == Sum(weight, NR)
           x == [j \in 1..NR |-> IF j = r THEN 0 ELSE Most(granted[j], Share(weight[j], W, GlobalLimit))]
           y == [j \in 1..NR |-> IF j = r THEN 0 ELSE granted[j]]
<1>0. NR \in Nat /\ FRegion = 1..NR /\ GlobalLimit \in Nat
  BY FairOptions
<1>1. W \in Nat
  <2>1. \A i \in 1..NR : weight[i] \in Nat
    BY <1>0
  <2> QED BY ONLY <1>0, <2>1, SumNat
<1>2. OthersHold(weight, granted, NR, r, GlobalLimit) = Sum(x, NR)
  BY DEF OthersHold
<1>3. \A j \in 1..NR : /\ x[j] \in Nat /\ y[j] \in Nat /\ y[j] <= x[j] /\ granted[j] \in Nat
                       /\ (j # r => y[j] = granted[j]) /\ (j = r => y[j] = 0)
  <2> SUFFICES ASSUME NEW j \in 1..NR
               PROVE  /\ x[j] \in Nat /\ y[j] \in Nat /\ y[j] <= x[j] /\ granted[j] \in Nat
                      /\ (j # r => y[j] = granted[j]) /\ (j = r => y[j] = 0)
    OBVIOUS
  <2>1. weight[j] \in Nat /\ granted[j] \in Nat
    BY <1>0
  <2> HIDE DEF W
  <2>2. Share(weight[j], W, GlobalLimit) \in Nat
    BY <1>0, <1>1, <2>1, ShareInt
  <2> QED BY <2>1, <2>2 DEF Most
<1> HIDE DEF x, y, W
<1>4. /\ \A i \in FRegion : y[i] \in Nat /\ granted[i] \in Nat
      /\ \A i \in FRegion : i # r => granted[i] = y[i]
      /\ \A i \in 1..NR : y[i] \in Int /\ x[i] \in Int /\ y[i] <= x[i]
      /\ \A i \in 1..NR : x[i] \in Nat
      /\ granted[r] \in Nat
  BY <1>0, <1>3
<1>40. y[r] = 0
  BY <1>0, <1>3
<1>5. Sum(granted, NR) = Sum(y, NR) - y[r] + granted[r] /\ Sum(y, NR) \in Nat
  BY ONLY <1>4, r \in FRegion, RegionSum
<1>6. Sum(y, NR) <= Sum(x, NR)
  BY ONLY <1>0, <1>4, SumMonotone
<1>7. Sum(x, NR) \in Nat
  BY ONLY <1>0, <1>4, SumNat
<1> QED BY <1>2, <1>4, <1>40, <1>5, <1>6, <1>7

\* A region that joins the pool changes nobody's grant.
LEMMA PoolJoined ==
    ASSUME NEW s \in PoolType, NEW r \in FRegion, NEW weight \in Nat,
           NEW m, m = [s EXCEPT !.in = @ \cup {r}, !.weight[r] = weight]
    PROVE  m \in PoolType /\ m.win = s.win /\ m.granted = s.granted /\ m.weight \in [FRegion -> Nat]
<1> DEFINE f == [s.weight EXCEPT ![r] = weight]
           k == s.in \cup {r}
<1>0. /\ s.win \in Int /\ s.in \in SUBSET FRegion /\ s.weight \in [FRegion -> Nat]
      /\ s.granted \in [FRegion -> 0..GlobalLimit]
  BY PoolFields
<1>1. s = [win |-> s.win, in |-> s.in, weight |-> s.weight, granted |-> s.granted]
  BY DEF PoolType
<1>2. m = [win |-> s.win, in |-> k, weight |-> f, granted |-> s.granted]
  BY ONLY <1>1, m = [s EXCEPT !.in = @ \cup {r}, !.weight[r] = weight]
<1>3. f \in [FRegion -> Nat] /\ k \in SUBSET FRegion
  BY <1>0
<1> HIDE DEF f, k
<1> QED BY <1>0, <1>2, <1>3 DEF PoolType

\* What grant() leaves in the pool: only the asker's part changes, and it does not shrink.
LEMMA GrantedFields ==
    ASSUME NEW p \in PoolType, NEW r \in FRegion, NEW weight \in Nat, NEW want \in Nat, time \in 0..PoolTime,
           PoolOK(p, FairTime), NEW q, q = Granted(p, r, weight, want)
    PROVE  /\ q \in PoolType /\ q.win = FairTime /\ Sum(q.granted, NR) <= GlobalLimit
           /\ \A i \in FRegion : RolledPool(p).granted[i] <= q.granted[i]
<1> DEFINE s == RolledPool(p)
           m == [s EXCEPT !.in = @ \cup {r}, !.weight[r] = weight]
           others == OthersHold(m.weight, m.granted, NR, r, GlobalLimit)
           ceiling == Most(m.granted[r], GlobalLimit - others)
           n == Most(0, Least(want, ceiling))
<1>1. PoolOK(s, FairTime) /\ s.win = FairTime
  BY RolledIs
<1>2. /\ s \in PoolType /\ Sum(s.granted, NR) <= GlobalLimit
      /\ s.win \in Int /\ s.in \in SUBSET FRegion /\ s.weight \in [FRegion -> Nat]
      /\ s.granted \in [FRegion -> 0..GlobalLimit] /\ GlobalLimit \in Nat
  BY <1>1, PoolFields, FairOptions DEF PoolOK
<1> HIDE DEF s
<1>3. /\ m \in PoolType /\ m.win = s.win /\ m.granted = s.granted
      /\ m.weight \in [FRegion -> Nat]
  BY <1>2, PoolJoined
<1>4. q = IF want <= m.granted[r] THEN m ELSE [m EXCEPT !.granted[r] = n]
  BY DEF Granted, s
<1> HIDE DEF m
<1>5. m.granted \in [FRegion -> Nat]
  BY <1>2, <1>3
<1>6. others \in Nat /\ Sum(m.granted, NR) <= others + m.granted[r]
  BY <1>3, <1>5, HoldCovers
<1> HIDE DEF others
<1>70. s = RolledPool(p)
  BY DEF s
<1>7. CASE want <= m.granted[r]
  <2>1. q = m
    BY <1>4, <1>7
  <2>2. \A i \in FRegion : s.granted[i] <= s.granted[i]
    BY <1>2
  <2> QED BY <1>1, <1>2, <1>3, <1>70, <2>1, <2>2
<1>8. CASE ~(want <= m.granted[r])
  <2>1. m.granted[r] \in Nat /\ m.granted[r] <= GlobalLimit
    BY <1>2, <1>3
  <2>2. n \in Nat /\ m.granted[r] <= n /\ n <= GlobalLimit /\ (n <= m.granted[r] \/ n <= GlobalLimit - others)
    BY <1>2, <1>6, <1>8, <2>1 DEF Most, Least
  <2> HIDE DEF n, ceiling
  <2>3. q = [m EXCEPT !.granted[r] = n]
    BY <1>4, <1>8
  <2> DEFINE f == m.granted
             g == q.granted
  <2>4. /\ q \in PoolType /\ q.win = m.win
        /\ g[r] = n /\ \A i \in FRegion : i # r => g[i] = f[i]
    BY <1>2, <1>3, <2>2, <2>3 DEF PoolType
  <2>5. \A i \in FRegion : f[i] \in Nat /\ g[i] \in Nat
    BY <1>5, <2>2, <2>4
  <2>50. f[r] = m.granted[r] /\ Sum(f, NR) = Sum(m.granted, NR) /\ Sum(f, NR) = Sum(s.granted, NR)
    BY <1>3
  <2>51. Sum(g, NR) = Sum(q.granted, NR) /\ \A i \in FRegion : g[i] = q.granted[i] /\ f[i] = s.granted[i]
    BY <1>3
  <2> HIDE DEF f, g
  <2>6. \A i \in FRegion : i # r => g[i] = f[i]
    BY <2>4
  <2>7. Sum(g, NR) = Sum(f, NR) - f[r] + g[r] /\ Sum(f, NR) \in Nat /\ Sum(g, NR) \in Nat
    BY ONLY <2>5, <2>6, r \in FRegion, RegionSum
  <2>8. Sum(g, NR) <= GlobalLimit
    <3>1. f[r] \in Nat /\ g[r] = n /\ Sum(f, NR) <= GlobalLimit /\ Sum(f, NR) <= others + f[r]
      BY <1>2, <1>6, <2>1, <2>4, <2>50
    <3>2. n <= f[r] \/ n <= GlobalLimit - others
      BY <2>2, <2>50
    <3>3. n \in Nat /\ others \in Nat /\ GlobalLimit \in Nat
      BY <1>2, <1>6, <2>2
    <3> QED BY ONLY <2>7, <3>1, <3>2, <3>3
  <2>9. \A i \in FRegion : f[i] <= g[i]
    BY <2>2, <2>4, <2>5, <2>50
  <2> QED BY <1>1, <1>3, <1>70, <2>4, <2>8, <2>9, <2>51
<1> QED BY <1>7, <1>8

LEMMA PoolGrants ==
    ASSUME NEW p, NEW r \in FRegion, NEW weight \in Nat, NEW want \in Nat, time \in 0..PoolTime,
           PoolOK(p, FairTime), NEW q, q = Granted(p, r, weight, want)
    PROVE  PoolOK(q, FairTime) /\ Grew(p, q, FairTime)
<1>0. p \in PoolType
  BY DEF PoolOK
<1>1. /\ q \in PoolType /\ q.win = FairTime /\ Sum(q.granted, NR) <= GlobalLimit
      /\ \A i \in FRegion : RolledPool(p).granted[i] <= q.granted[i]
  BY <1>0, GrantedFields
<1>2. p.win = FairTime => RolledPool(p) = p
  BY RolledIs
<1>3. q.win <= FairTime
  BY <1>1, PoolFields
<1> QED BY <1>1, <1>2, <1>3 DEF PoolOK, Grew

\* release() gives back the part of one region.
LEMMA PoolReleases ==
    ASSUME NEW p, NEW r \in FRegion, time \in 0..PoolTime, PoolOK(p, FairTime), NEW q, q = Released(p, r)
    PROVE  /\ PoolOK(q, FairTime) /\ q.win = FairTime
           /\ p.win = FairTime => \A i \in FRegion : i # r => q.granted[i] = p.granted[i]
<1> DEFINE s == RolledPool(p)
<1>1. PoolOK(s, FairTime) /\ s.win = FairTime /\ (p.win = FairTime => s = p)
  BY RolledIs
<1>2. /\ s \in PoolType /\ Sum(s.granted, NR) <= GlobalLimit
      /\ s.win \in Int /\ s.in \in SUBSET FRegion /\ s.weight \in [FRegion -> Nat]
      /\ s.granted \in [FRegion -> 0..GlobalLimit] /\ GlobalLimit \in Nat
  BY <1>1, PoolFields, FairOptions DEF PoolOK
<1>3. q = [s EXCEPT !.in = @ \ {r}, !.weight[r] = 0, !.granted[r] = 0]
  BY DEF Released
<1> HIDE DEF s
<1> DEFINE f == s.granted
           g == q.granted
<1>4. /\ q \in PoolType /\ q.win = s.win
      /\ g[r] = 0 /\ \A i \in FRegion : i # r => g[i] = f[i]
  <2> DEFINE x == [s.weight EXCEPT ![r] = 0]
             y == [s.granted EXCEPT ![r] = 0]
             k == s.in \ {r}
  <2>1. s = [win |-> s.win, in |-> s.in, weight |-> s.weight, granted |-> s.granted]
    BY ONLY <1>2 DEF PoolType
  <2>2. q = [win |-> s.win, in |-> k, weight |-> x, granted |-> y]
    BY ONLY <1>3, <2>1
  <2>3. /\ x \in [FRegion -> Nat] /\ y \in [FRegion -> 0..GlobalLimit] /\ k \in SUBSET FRegion
        /\ y[r] = 0 /\ \A i \in FRegion : i # r => y[i] = f[i]
    BY <1>2
  <2> HIDE DEF x, y, k
  <2> QED BY <1>2, <2>2, <2>3 DEF PoolType
<1>5. \A i \in FRegion : f[i] \in Nat /\ g[i] \in Nat
  BY <1>2, <1>4
<1>51. Sum(g, NR) = Sum(q.granted, NR) /\ Sum(f, NR) = Sum(s.granted, NR) /\ \A i \in FRegion : g[i] = q.granted[i] /\ f[i] = s.granted[i]
  OBVIOUS
<1> HIDE DEF f, g
<1>6. \A i \in FRegion : i # r => g[i] = f[i]
  BY <1>4
<1>7. Sum(g, NR) = Sum(f, NR) - f[r] + g[r] /\ Sum(f, NR) \in Nat /\ Sum(g, NR) \in Nat
  BY ONLY <1>5, <1>6, r \in FRegion, RegionSum
<1>8. f[r] \in Nat /\ g[r] = 0
  BY <1>4, <1>5
<1>9. Sum(g, NR) <= GlobalLimit
  BY ONLY <1>2, <1>51, <1>7, <1>8
<1>10. q.win <= FairTime
  BY <1>1, <1>2, <1>4
<1> QED BY <1>1, <1>4, <1>51, <1>9, <1>10 DEF PoolOK

LEMMA GrewTwice ==
    ASSUME NEW p \in PoolType, NEW q \in PoolType, NEW s \in PoolType, NEW cur, Grew(p, q, cur), Grew(q, s, cur)
    PROVE  Grew(p, s, cur)
<1>1. \A i \in FRegion : p.granted[i] \in Nat /\ q.granted[i] \in Nat /\ s.granted[i] \in Nat
  BY PoolFields, FairOptions, SMTT(30)
<1> QED BY <1>1 DEF Grew

\* What the pool stood by, a grown pool still stands by.
LEMMA BackedGrows ==
    ASSUME NEW p \in PoolType, NEW q \in PoolType, NEW cur \in Nat, Grew(p, q, cur), NEW r \in FRegion, NEW g \in RegionType,
           Backed(r, g, p, cur)
    PROVE  Backed(r, g, q, cur)
<1>1. /\ p.granted[r] \in Nat /\ q.granted[r] \in Nat /\ g.budget \in Nat
      /\ p.win = cur => p.granted[r] <= q.granted[r]
      /\ q.win = cur
  BY PoolFields, RegionFields, FairOptions, SMTT(30) DEF Grew
<1> QED BY <1>1 DEF Backed

LEMMA TurnGrows ==
    ASSUME NEW p \in PoolType, NEW q \in PoolType, NEW cur \in Nat, Grew(p, q, cur), NEW r \in FRegion, NEW g \in RegionType,
           NEW t, NEW c, TurnOK(r, g, t, p, cur, c)
    PROVE  TurnOK(r, g, t, q, cur, c)
<1>1. /\ p.granted[r] \in Nat /\ q.granted[r] \in Nat /\ t \in TurnType /\ t.got \in Nat
      /\ p.win = cur => p.granted[r] <= q.granted[r]
      /\ q.win = cur
  BY PoolFields, TurnFields, FairOptions, SMTT(30) DEF Grew, TurnOK
<1>2. t.st = "told" /\ c = 0 /\ g.win = cur => q.win = cur /\ g.budget <= t.got /\ t.got <= q.granted[r]
  BY <1>1 DEF TurnOK
<1> QED BY <1>2 DEF TurnOK
----------------------------------------------------------------------------
(* FederatedFairEscrow: a region *)

LEMMA EmptyRegionIs ==
    ASSUME NEW w \in Int, NEW g, g = EmptyRegion(w)
    PROVE  g \in RegionType /\ g.win = w /\ g.budget = 0 /\ UsedOf(g) = 0 /\ g.order = <<>>
<1> DEFINE f == [u \in FUser |-> 0]
<1>1. /\ g = [win |-> w, budget |-> 0, order |-> <<>>, weight |-> f, used |-> f, evictedUsed |-> 0]
      /\ f \in [FUser -> Nat] /\ <<>> \in Seq(FUser) /\ 0 \in 0..GlobalLimit
  BY FairOptions DEF EmptyRegion
<1>2. NU \in Nat /\ \A i \in 1..NU : f[i] = 0
  BY FairOptions
<1> HIDE DEF f
<1>3. Sum(f, NU) = 0
  BY ONLY <1>2, SumZero
<1>4. g \in RegionType /\ g.win = w /\ g.budget = 0 /\ g.used = f /\ g.evictedUsed = 0 /\ g.order = <<>>
  BY ONLY <1>1, w \in Int DEF RegionType
<1> QED BY <1>3, <1>4 DEF UsedOf

\* A key that leaves the insertion order leaves a sequence.
LEMMA WithoutKeyTyped == \A S, s, k : s \in Seq(S) => WithoutKey(s, k) \in Seq(S)
<1> SUFFICES ASSUME NEW S, NEW s \in Seq(S), NEW k PROVE WithoutKey(s, k) \in Seq(S)
  OBVIOUS
<1> DEFINE places == {i \in DOMAIN s : s[i] = k}
           place == CHOOSE i \in places : TRUE
           r == [i \in 1..(Len(s) - 1) |-> IF i < place THEN s[i] ELSE s[i + 1]]
<1>1. CASE places = {}
  BY <1>1 DEF WithoutKey
<1>2. CASE places # {}
  <2>1. WithoutKey(s, k) = r
    BY <1>2 DEF WithoutKey
  <2>2. place \in 1..Len(s) /\ Len(s) \in Nat
    BY <1>2
  <2> HIDE DEF place
  <2>3. Len(s) - 1 \in Nat
    BY <2>2
  <2>4. \A i \in 1..(Len(s) - 1) : r[i] \in S
    BY <2>2
  <2>5. r \in Seq(S)
    BY <2>3, <2>4
  <2> QED BY <2>1, <2>5
<1> QED BY <1>1, <1>2

\* A tenant that leaves the map takes its uses off the books; the eviction puts them back.
LEMMA ForgottenIs ==
    ASSUME NEW g \in RegionType, NEW u \in FUser, NEW h, h = Forgotten(g, u)
    PROVE  /\ h \in RegionType /\ h.win = g.win /\ h.budget = g.budget /\ h.evictedUsed = g.evictedUsed
           /\ UsedOf(h) + g.used[u] = UsedOf(g) /\ g.used[u] \in Nat
<1> DEFINE x == [g.weight EXCEPT ![u] = 0]
           y == [g.used EXCEPT ![u] = 0]
           o == WithoutKey(g.order, u)
<1>0. /\ g.win \in Int /\ g.budget \in 0..GlobalLimit /\ g.order \in Seq(FUser) /\ g.weight \in [FUser -> Nat]
      /\ g.used \in [FUser -> Nat] /\ g.evictedUsed \in Nat
  BY RegionFields
<1>1. g = [win |-> g.win, budget |-> g.budget, order |-> g.order, weight |-> g.weight, used |-> g.used, evictedUsed |-> g.evictedUsed]
  BY DEF RegionType
<1>2. h = [win |-> g.win, budget |-> g.budget, order |-> o, weight |-> x, used |-> y, evictedUsed |-> g.evictedUsed]
  BY ONLY <1>1, h = Forgotten(g, u) DEF Forgotten
<1>3. /\ x \in [FUser -> Nat] /\ y \in [FUser -> Nat] /\ y[u] = 0 /\ \A i \in FUser : i # u => y[i] = g.used[i]
      /\ g.used[u] \in Nat
  BY <1>0
<1>4. o \in Seq(FUser)
  BY <1>0, WithoutKeyTyped
<1> HIDE DEF x, y, o
<1>5. /\ h \in RegionType /\ h.win = g.win /\ h.budget = g.budget /\ h.used = y /\ h.evictedUsed = g.evictedUsed
  BY <1>0, <1>2, <1>3, <1>4 DEF RegionType
<1> DEFINE f == g.used
<1>6. /\ \A i \in FUser : f[i] \in Nat /\ y[i] \in Nat
      /\ \A i \in FUser : i # u => y[i] = f[i]
  BY <1>0, <1>3
<1> HIDE DEF f
<1>7. Sum(y, NU) = Sum(f, NU) - f[u] + y[u] /\ Sum(f, NU) \in Nat /\ Sum(y, NU) \in Nat
  BY ONLY <1>6, u \in FUser, UserSum
<1>8. UsedOf(h) = g.evictedUsed + Sum(y, NU) /\ UsedOf(g) = g.evictedUsed + Sum(f, NU) /\ f[u] = g.used[u]
  BY <1>5 DEF UsedOf, f
<1>9. y[u] = 0 /\ g.used[u] \in Nat
  BY <1>3
<1>10. UsedOf(h) + g.used[u] = UsedOf(g)
  BY ONLY <1>0, <1>7, <1>8, <1>9
<1> QED BY <1>5, <1>9, <1>10

\* Looking a tenant up, and making room for a new one, changes no total.
LEMMA AdmittedIs ==
    ASSUME NEW g \in RegionType, NEW u \in FUser, NEW w \in Nat, setup \in PoolPlans, NEW h, h = Admitted(g, u, w)
    PROVE  h \in RegionType /\ h.win = g.win /\ h.budget = g.budget /\ UsedOf(h) = UsedOf(g)
<1> DEFINE oldest == Head(g.order)
           d == Forgotten(g, oldest)
           full == Len(g.order) >= setup.maxKeys
           room == IF full THEN [d EXCEPT !.evictedUsed = @ + g.used[oldest]] ELSE g
<1>0. /\ g.win \in Int /\ g.budget \in 0..GlobalLimit /\ g.order \in Seq(FUser) /\ g.weight \in [FUser -> Nat]
      /\ g.used \in [FUser -> Nat] /\ g.evictedUsed \in Nat
  BY RegionFields
<1>1. CASE HasUser(g, u)
  <2> DEFINE x == [g.weight EXCEPT ![u] = w]
  <2>1. g = [win |-> g.win, budget |-> g.budget, order |-> g.order, weight |-> g.weight, used |-> g.used, evictedUsed |-> g.evictedUsed]
    BY DEF RegionType
  <2>2. h = [g EXCEPT !.weight[u] = w]
    BY <1>1 DEF Admitted
  <2>3. h = [win |-> g.win, budget |-> g.budget, order |-> g.order, weight |-> x, used |-> g.used, evictedUsed |-> g.evictedUsed]
    BY ONLY <2>1, <2>2
  <2>4. x \in [FUser -> Nat]
    BY <1>0
  <2> HIDE DEF x
  <2>5. h \in RegionType /\ h.win = g.win /\ h.budget = g.budget /\ h.used = g.used /\ h.evictedUsed = g.evictedUsed
    BY <1>0, <2>3, <2>4 DEF RegionType
  <2> QED BY <2>5 DEF UsedOf
<1>2. CASE ~HasUser(g, u)
  <2>1. room \in RegionType /\ room.win = g.win /\ room.budget = g.budget /\ UsedOf(room) = UsedOf(g)
    <3>1. CASE full
      <4>1. oldest \in FUser
        <5>1. Len(g.order) # 0
          BY <1>0, <3>1, SetupOptions
        <5> QED BY <1>0, <5>1
      <4> HIDE DEF oldest, d
      <4>2. /\ d \in RegionType /\ d.win = g.win /\ d.budget = g.budget /\ d.evictedUsed = g.evictedUsed
            /\ UsedOf(d) + g.used[oldest] = UsedOf(g) /\ g.used[oldest] \in Nat
        BY <4>1, ForgottenIs DEF d
      <4> DEFINE n == g.used[oldest]
                 e == d.evictedUsed + n
      <4>3. room = [d EXCEPT !.evictedUsed = @ + n]
        BY <3>1
      <4>4. d = [win |-> d.win, budget |-> d.budget, order |-> d.order, weight |-> d.weight, used |-> d.used, evictedUsed |-> d.evictedUsed]
        BY <4>2 DEF RegionType
      <4> HIDE DEF n, room
      <4>5. room = [win |-> d.win, budget |-> d.budget, order |-> d.order, weight |-> d.weight, used |-> d.used, evictedUsed |-> e]
        BY ONLY <4>3, <4>4
      <4>6. /\ d.win \in Int /\ d.budget \in 0..GlobalLimit /\ d.order \in Seq(FUser) /\ d.weight \in [FUser -> Nat]
            /\ d.used \in [FUser -> Nat] /\ d.evictedUsed \in Nat
        BY <4>2, RegionFields
      <4>7. e \in Nat
        BY <4>2, <4>6 DEF n
      <4> HIDE DEF e
      <4>8. room \in RegionType /\ room.win = d.win /\ room.budget = d.budget /\ room.used = d.used /\ room.evictedUsed = e
        BY <4>5, <4>6, <4>7 DEF RegionType
      <4>9. UsedOf(room) = e + Sum(d.used, NU) /\ UsedOf(d) = d.evictedUsed + Sum(d.used, NU) /\ Sum(d.used, NU) \in Nat
        BY <4>6, <4>8, UserSumNat DEF UsedOf
      <4>10. UsedOf(room) = UsedOf(g)
        BY <4>2, <4>6, <4>9 DEF e, n
      <4> QED BY <4>2, <4>8, <4>10
    <3>2. CASE ~full
      BY <3>2
    <3> QED BY <3>1, <3>2
  <2>2. h = [room EXCEPT !.order = Append(@, u), !.weight[u] = w]
    BY <1>2 DEF Admitted
  <2> HIDE DEF room
  <2> DEFINE x == [room.weight EXCEPT ![u] = w]
             o == Append(room.order, u)
  <2>3. room = [win |-> room.win, budget |-> room.budget, order |-> room.order, weight |-> room.weight, used |-> room.used, evictedUsed |-> room.evictedUsed]
    BY <2>1 DEF RegionType
  <2>4. h = [win |-> room.win, budget |-> room.budget, order |-> o, weight |-> x, used |-> room.used, evictedUsed |-> room.evictedUsed]
    BY ONLY <2>2, <2>3
  <2>5. /\ room.win \in Int /\ room.budget \in 0..GlobalLimit /\ room.order \in Seq(FUser) /\ room.weight \in [FUser -> Nat]
        /\ room.used \in [FUser -> Nat] /\ room.evictedUsed \in Nat
    BY <2>1, RegionFields
  <2>6. x \in [FUser -> Nat] /\ o \in Seq(FUser)
    BY <2>5
  <2> HIDE DEF x, o
  <2>7. h \in RegionType /\ h.win = room.win /\ h.budget = room.budget /\ h.used = room.used /\ h.evictedUsed = room.evictedUsed
    BY <2>4, <2>5, <2>6, SMTT(30) DEF RegionType
  <2>8. UsedOf(h) = UsedOf(room)
    BY <2>7 DEF UsedOf
  <2> QED BY <2>1, <2>7, <2>8
<1> QED BY <1>1, <1>2
\* A check rolls the window of its region before it looks the tenant up.
LEMMA PreparedIs ==
    ASSUME FairTypeOK, FairRegionsOK, NEW r \in FRegion, NEW u \in FUser, NEW w \in Nat, NEW h, h = Prepared(r, u, w)
    PROVE  /\ h \in RegionType /\ h.win = FairTime /\ UsedOf(h) = UsedIn(region[r], FairTime)
           /\ \A p : Backed(r, region[r], p, FairTime) => Backed(r, h, p, FairTime)
<1> DEFINE e == EmptyRegion(FairTime)
           g == IF FairTime > region[r].win THEN e ELSE region[r]
<1>0. FairTime \in Nat /\ region[r] \in RegionType /\ region[r].win <= FairTime /\ setup \in PoolPlans /\ region[r].win \in Int
  BY FairTypes, FairWindowOf, RegionFields DEF FairTime, FairRegionsOK
<1>1. e \in RegionType /\ e.win = FairTime /\ e.budget = 0 /\ UsedOf(e) = 0
  <2>1. FairTime \in Int
    BY <1>0
  <2> QED BY <2>1, EmptyRegionIs
<1> HIDE DEF e
<1>2. /\ g \in RegionType /\ g.win = FairTime /\ UsedOf(g) = UsedIn(region[r], FairTime)
      /\ (g.budget = 0 /\ UsedOf(g) = 0) \/ g = region[r]
  BY <1>0, <1>1 DEF UsedIn
<1>3. h = Admitted(g, u, w)
  BY DEF Prepared, FairTime, e
<1> HIDE DEF g
<1>4. h \in RegionType /\ h.win = g.win /\ h.budget = g.budget /\ UsedOf(h) = UsedOf(g)
  BY <1>0, <1>2, <1>3, AdmittedIs
<1>5. ASSUME NEW p, Backed(r, region[r], p, FairTime) PROVE Backed(r, h, p, FairTime)
  <2>1. CASE g.budget = 0 /\ UsedOf(g) = 0
    BY <1>4, <2>1 DEF Backed
  <2>2. CASE g = region[r]
    BY <1>4, <1>5, <2>2 DEF Backed
  <2> QED BY <1>2, <2>1, <2>2
<1> QED BY <1>2, <1>4, <1>5

\* A region whose budget is what the pool just said.
Funded(g, n) == [g EXCEPT !.budget = n]
LEMMA FundedIs ==
    ASSUME NEW g \in RegionType, NEW n \in 0..GlobalLimit, NEW h, h = Funded(g, n)
    PROVE  h \in RegionType /\ h.win = g.win /\ h.budget = n /\ UsedOf(h) = UsedOf(g)
<1>0. /\ g.win \in Int /\ g.order \in Seq(FUser) /\ g.weight \in [FUser -> Nat]
      /\ g.used \in [FUser -> Nat] /\ g.evictedUsed \in Nat
  BY RegionFields
<1>1. g = [win |-> g.win, budget |-> g.budget, order |-> g.order, weight |-> g.weight, used |-> g.used, evictedUsed |-> g.evictedUsed]
  BY DEF RegionType
<1>2. h = [win |-> g.win, budget |-> n, order |-> g.order, weight |-> g.weight, used |-> g.used, evictedUsed |-> g.evictedUsed]
  BY ONLY <1>1, h = Funded(g, n) DEF Funded
<1>3. h \in RegionType /\ h.win = g.win /\ h.budget = n /\ h.used = g.used /\ h.evictedUsed = g.evictedUsed
  BY <1>0, <1>2 DEF RegionType
<1> QED BY <1>3 DEF UsedOf

\* The lease loop against a pool in the process.
LoopOK(s, r, p, used_) ==
    /\ PoolOK(s.p, FairTime) /\ (s.p = p \/ Grew(p, s.p, FairTime))
    /\ s.g \in RegionType /\ s.g.win = FairTime /\ UsedOf(s.g) = used_
    /\ Backed(r, s.g, s.p, FairTime)

LEMMA LeaseStepKeeps ==
    ASSUME NEW s, NEW r \in FRegion, NEW t \in TurnType, NEW p \in PoolType, NEW n, time \in 0..PoolTime, LoopOK(s, r, p, n),
           s = [p |-> s.p, g |-> s.g, done |-> s.done], NEW x, x = LeaseStep(s, r, t)
    PROVE  LoopOK(x, r, p, n) /\ x = [p |-> x.p, g |-> x.g, done |-> x.done]
<1> DEFINE sp == s.p
           sg == s.g
           q == Granted(sp, r, UserWeight(sg), Need(sg, t))
           k == q.granted[r]
<1>1. PoolOK(sp, FairTime) /\ sp \in PoolType /\ sg \in RegionType /\ sg.win = FairTime /\ FairTime \in Nat
  BY FairWindowOf DEF LoopOK, PoolOK, FairTime
<1>2. UserWeight(sg) \in Nat /\ Need(sg, t) \in Nat /\ UsedOf(sg) \in Nat
  BY <1>1, RegionBooks, NeedNat
<1>3. PoolOK(q, FairTime) /\ Grew(sp, q, FairTime)
  <2> HIDE DEF sp, sg
  <2> QED BY <1>1, <1>2, PoolGrants
<1>4. q \in PoolType /\ k \in 0..GlobalLimit /\ k \in Nat
  <2>1. q \in PoolType
    BY <1>3 DEF PoolOK
  <2> HIDE DEF q
  <2> QED BY <2>1, PoolFields, FairOptions
<1>5. CASE s.done \/ ~NeedsGrant(sg, t)
  <2>1. x = [s EXCEPT !.done = TRUE]
    BY <1>5 DEF LeaseStep
  <2>2. x = [p |-> s.p, g |-> s.g, done |-> TRUE]
    BY ONLY <2>1, s = [p |-> s.p, g |-> s.g, done |-> s.done]
  <2>3. x.p = s.p /\ x.g = s.g /\ x.done = TRUE
    BY <2>2
  <2> QED BY <2>2, <2>3 DEF LoopOK
<1>6. CASE ~(s.done \/ ~NeedsGrant(sg, t))
  <2>1. x = [p |-> q, g |-> [sg EXCEPT !.budget = k], done |-> k <= sg.budget]
    BY <1>6 DEF LeaseStep
  <2>2. x.p = q /\ x.g = Funded(sg, k) /\ x = [p |-> x.p, g |-> x.g, done |-> x.done]
    BY <2>1 DEF Funded
  <2> HIDE DEF q, k
  <2>3. x.g \in RegionType /\ x.g.win = sg.win /\ x.g.budget = k /\ UsedOf(x.g) = UsedOf(sg)
    BY <1>1, <1>4, <2>2, FundedIs
  <2>4. q.win = FairTime /\ (sp.win = FairTime => \A i \in FRegion : sp.granted[i] <= q.granted[i])
    BY <1>3 DEF Grew
  <2>5. Grew(p, q, FairTime)
    <3>1. CASE sp = p
      BY <1>3, <3>1
    <3>2. CASE Grew(p, sp, FairTime)
      <4> HIDE DEF sp
      <4> QED BY <1>1, <1>3, <1>4, <3>2, GrewTwice
    <3> QED BY <3>1, <3>2 DEF LoopOK
  <2>6. Backed(r, x.g, q, FairTime)
    <3>1. UsedOf(sg) <= sg.budget /\ (sg.budget > 0 => sp.win = FairTime /\ sg.budget <= sp.granted[r])
      BY <1>1 DEF LoopOK, Backed
    <3>2. sg.budget \in Nat /\ sp.granted[r] \in Nat
      BY <1>1, RegionFields, PoolFields, FairOptions
    <3>3. UsedOf(sg) <= k
      <4>1. CASE sg.budget = 0
        BY <1>2, <1>4, <3>1, <3>2, <4>1
      <4>2. CASE sg.budget > 0
        <5>1. sp.granted[r] <= k
          BY <2>4, <3>1, <4>2 DEF k
        <5> QED BY <1>2, <1>4, <3>1, <3>2, <4>2, <5>1
      <4> QED BY <3>2, <4>1, <4>2
    <3>4. k <= q.granted[r]
      BY <1>4 DEF k
    <3> QED BY <2>3, <2>4, <3>3, <3>4 DEF Backed
  <2>7. UsedOf(sg) = n /\ sg.win = FairTime
    BY DEF LoopOK
  <2>8. /\ PoolOK(x.p, FairTime) /\ Grew(p, x.p, FairTime) /\ x.g \in RegionType /\ x.g.win = FairTime /\ UsedOf(x.g) = n
        /\ Backed(r, x.g, x.p, FairTime)
    BY <1>3, <2>2, <2>3, <2>5, <2>6, <2>7
  <2>9. LoopOK(x, r, p, n)
    BY ONLY <2>8 DEF LoopOK
  <2> QED BY <2>2, <2>9
<1> QED BY <1>5, <1>6

\* The loop as a function of the number of its turns.
LeaseRun(p, g, r, t, n, run) ==
    run = [i \in 0..n |-> IF i = 0 THEN [p |-> p, g |-> g, done |-> FALSE] ELSE LeaseStep(run[i - 1], r, t)]
LEMMA LeaseRunExists == ASSUME NEW p, NEW g, NEW r, NEW t, NEW n \in Nat PROVE \E run : LeaseRun(p, g, r, t, n, run)
<1> DEFINE S == {m \in Nat : \E run : LeaseRun(p, g, r, t, m, run)}
           s0 == [p |-> p, g |-> g, done |-> FALSE]
<1>1. 0 \in S
  <2> DEFINE z == [i \in 0..0 |-> s0]
  <2>1. z = [i \in 0..0 |-> IF i = 0 THEN s0 ELSE LeaseStep(z[i - 1], r, t)]
    OBVIOUS
  <2> QED BY <2>1 DEF LeaseRun
<1>2. ASSUME NEW m \in Nat, m \in S PROVE m + 1 \in S
  <2>1. PICK s : LeaseRun(p, g, r, t, m, s)
    BY <1>2
  <2> HIDE DEF s0
  <2> DEFINE z == [i \in 0..(m + 1) |-> IF i = m + 1 THEN LeaseStep(s[m], r, t) ELSE s[i]]
  <2>2. ASSUME NEW i \in 0..(m + 1)
        PROVE z[i] = IF i = 0 THEN s0 ELSE LeaseStep(z[i - 1], r, t)
    <3>1. CASE i = m + 1
      <4>1. i # 0 /\ i - 1 = m /\ m \in 0..(m + 1) /\ m # m + 1
        BY <3>1
      <4>2. z[m] = s[m]
        BY <4>1
      <4> QED BY <3>1, <4>1, <4>2
    <3>2. CASE i # m + 1
      <4>1. i \in 0..m
        BY <3>2
      <4>2. s[i] = IF i = 0 THEN s0 ELSE LeaseStep(s[i - 1], r, t)
        BY <2>1, <4>1 DEF LeaseRun, s0
      <4>3. i # 0 => i - 1 \in 0..(m + 1) /\ i - 1 # m + 1
        BY <4>1
      <4> QED BY <3>2, <4>2, <4>3
    <3> QED BY <3>1, <3>2
  <2>3. z = [i \in 0..(m + 1) |-> IF i = 0 THEN s0 ELSE LeaseStep(z[i - 1], r, t)]
    BY <2>2
  <2>4. m + 1 \in Nat
    OBVIOUS
  <2> QED BY <2>3, <2>4 DEF LeaseRun, s0
<1> HIDE DEF S
<1>3. n \in S
  BY <1>1, <1>2, SetInduction
<1> QED BY <1>3 DEF S

LEMMA LeasedIs ==
    ASSUME FairTypeOK, PoolOK(rpool, FairTime), NEW r \in FRegion, NEW g \in RegionType, g.win = FairTime, NEW t \in TurnType,
           Backed(r, g, rpool, FairTime), NEW x, x = Leased(rpool, g, r, t)
    PROVE  LoopOK(x, r, rpool, UsedOf(g))
<1> DEFINE N == MaxLeaseIters
           s0 == [p |-> rpool, g |-> g, done |-> FALSE]
           run == CHOOSE f : f = [i \in 0..N |-> IF i = 0 THEN s0 ELSE LeaseStep(f[i - 1], r, t)]
           S == {i \in Nat : i <= N => LoopOK(run[i], r, rpool, UsedOf(g)) /\ run[i] = [p |-> run[i].p, g |-> run[i].g, done |-> run[i].done]}
<1>0. N \in Nat /\ rpool \in PoolType /\ time \in 0..PoolTime
  BY FairOptions, FairTypes
<1>1. run = [i \in 0..N |-> IF i = 0 THEN s0 ELSE LeaseStep(run[i - 1], r, t)]
  <2> DEFINE c == CHOOSE f : LeaseRun(rpool, g, r, t, N, f)
  <2>0. LeaseRun(rpool, g, r, t, N, c)
    <3>1. \E f : LeaseRun(rpool, g, r, t, N, f)
      BY <1>0, LeaseRunExists
    <3> HIDE DEF N
    <3> QED BY ONLY <3>1, Zenon
  <2>2. c = run
    BY Zenon DEF LeaseRun
  <2>1. LeaseRun(rpool, g, r, t, N, run)
    BY ONLY <2>0, <2>2, Zenon
  <2> HIDE DEF run
  <2> QED BY ONLY <2>1 DEF LeaseRun
<1>2. x = run[N]
  BY DEF Leased
<1> HIDE DEF run
<1>3. 0 \in S
  <2>1. run[0] = s0
    BY <1>0, <1>1
  <2>2. run[0].p = rpool /\ run[0].g = g /\ run[0] = [p |-> run[0].p, g |-> run[0].g, done |-> run[0].done]
    BY <2>1
  <2> QED BY <2>2 DEF LoopOK
<1>4. ASSUME NEW m \in Nat, m \in S PROVE m + 1 \in S
  <2> SUFFICES ASSUME m + 1 <= N
               PROVE  LoopOK(run[m + 1], r, rpool, UsedOf(g)) /\ run[m + 1] = [p |-> run[m + 1].p, g |-> run[m + 1].g, done |-> run[m + 1].done]
    OBVIOUS
  <2>1. m + 1 \in 0..N /\ m + 1 # 0 /\ (m + 1) - 1 = m /\ m <= N
    BY <1>0
  <2> HIDE DEF s0, N
  <2>2. run[m + 1] = LeaseStep(run[m], r, t)
    BY <1>1, <2>1
  <2>3. LoopOK(run[m], r, rpool, UsedOf(g)) /\ run[m] = [p |-> run[m].p, g |-> run[m].g, done |-> run[m].done]
    BY <1>4, <2>1
  <2> QED BY <1>0, <2>2, <2>3, LeaseStepKeeps
<1> HIDE DEF S
<1>5. \A i \in Nat : i \in S
  BY <1>3, <1>4, SetInduction
<1>6. N \in S
  BY <1>0, <1>5
<1>7. LoopOK(run[N], r, rpool, UsedOf(g))
  BY <1>0, <1>6 DEF S
<1> QED BY ONLY <1>2, <1>7
\* What a check leaves behind in its region: the units it admitted are on the books of the
\* region, within its budget, as long as the tenant's entry is still its own.
Credit(g, u, n) == [g EXCEPT !.used[u] = @ + n]
LEMMA CreditIs ==
    ASSUME NEW g \in RegionType, NEW u \in FUser, NEW n \in Nat, NEW h, h = Credit(g, u, n)
    PROVE  h \in RegionType /\ h.win = g.win /\ h.budget = g.budget /\ UsedOf(h) = UsedOf(g) + n
<1> DEFINE y == [g.used EXCEPT ![u] = @ + n]
<1>0. /\ g.win \in Int /\ g.budget \in 0..GlobalLimit /\ g.order \in Seq(FUser) /\ g.weight \in [FUser -> Nat]
      /\ g.used \in [FUser -> Nat] /\ g.evictedUsed \in Nat
  BY RegionFields
<1>1. g = [win |-> g.win, budget |-> g.budget, order |-> g.order, weight |-> g.weight, used |-> g.used, evictedUsed |-> g.evictedUsed]
  BY DEF RegionType
<1>2. h = [win |-> g.win, budget |-> g.budget, order |-> g.order, weight |-> g.weight, used |-> y, evictedUsed |-> g.evictedUsed]
  BY ONLY <1>1, h = Credit(g, u, n) DEF Credit
<1>3. y \in [FUser -> Nat] /\ y[u] = g.used[u] + n /\ (\A i \in FUser : i # u => y[i] = g.used[i]) /\ g.used[u] \in Nat
  BY <1>0
<1> HIDE DEF y
<1>4. h \in RegionType /\ h.win = g.win /\ h.budget = g.budget /\ h.used = y /\ h.evictedUsed = g.evictedUsed
  BY <1>0, <1>2, <1>3 DEF RegionType
<1> DEFINE f == g.used
<1>5. /\ \A i \in FUser : f[i] \in Nat /\ y[i] \in Nat
      /\ \A i \in FUser : i # u => y[i] = f[i]
      /\ y[u] = f[u] + n /\ f[u] \in Nat
  BY <1>0, <1>3
<1> HIDE DEF f
<1>50. /\ \A i \in FUser : f[i] \in Nat /\ y[i] \in Nat
       /\ \A i \in FUser : i # u => y[i] = f[i]
  BY <1>5
<1>6. Sum(y, NU) = Sum(f, NU) - f[u] + y[u] /\ Sum(f, NU) \in Nat /\ Sum(y, NU) \in Nat
  BY ONLY <1>50, u \in FUser, UserSum
<1>7. UsedOf(h) = g.evictedUsed + Sum(y, NU) /\ UsedOf(g) = g.evictedUsed + Sum(f, NU)
  BY <1>4 DEF UsedOf, f
<1>8. UsedOf(h) = UsedOf(g) + n
  BY ONLY <1>0, <1>5, <1>6, <1>7, n \in Nat
<1> QED BY <1>4, <1>8

\* What is admitted fits what is free of the budget.
LEMMA AdmittedFits ==
    ASSUME NEW g, NEW t, WouldAdmit(g, t)
    PROVE  t.cost <= g.budget - UsedOf(g)
BY DEF WouldAdmit, Admits

AnsweredIn(g) == g.win = FairTime \/ g.win = -1
Answered(r, g, h, t, n) ==
    /\ n \in Nat /\ h \in RegionType /\ h.win = g.win /\ h.budget = g.budget
    /\ t.own => UsedOf(h) = UsedOf(g) + n
    /\ ~t.own => UsedOf(h) = UsedOf(g)
    /\ n # 0 => UsedOf(g) + n <= g.budget
    /\ region' = [region EXCEPT ![r] = h]
    /\ served' = Plus(served, FairTime, IF AnsweredIn(g) THEN n ELSE 0)
    /\ turn' = [turn EXCEPT ![r] = NoTurn]
    /\ verdict' \in [region : Nat, user : Nat, cost : Nat, allowed : BOOLEAN]

LEMMA DecidedIs ==
    ASSUME FairTypeOK, NEW r \in FRegion, NEW g \in RegionType, NEW t \in TurnType, Decided(r, g, t)
    PROVE  \E n, h : Answered(r, g, h, t, n)
<1>0. /\ t.user \in FUser /\ t.cost \in Nat /\ t.own \in BOOLEAN /\ UsedOf(g) \in Nat /\ g.budget \in Nat /\ r \in Nat /\ t.user \in Nat
      /\ served \in [PWindows -> Nat] /\ FairTime \in PWindows
  <2>1. t.user \in FUser /\ t.cost \in Nat /\ t.own \in BOOLEAN
    BY ONLY t \in TurnType, TurnFields
  <2>2. UsedOf(g) \in Nat /\ g.budget \in Nat
    BY ONLY g \in RegionType, RegionBooks, RegionFields
  <2>3. r \in Nat /\ t.user \in Nat
    BY <2>1, FairOptions
  <2>4. served \in [PWindows -> Nat] /\ FairTime \in PWindows
    BY FairTypes, FairWindowOf DEF FairTime
  <2> QED BY <2>1, <2>2, <2>3, <2>4
<1>1. served = Plus(served, FairTime, 0)
  BY <1>0 DEF Plus
<1>2. turn' = [turn EXCEPT ![r] = NoTurn]
  BY DEF Decided
<1>3. verdict' \in [region : Nat, user : Nat, cost : Nat, allowed : BOOLEAN]
  <2>1. verdict' = [region |-> r, user |-> t.user, cost |-> t.cost, allowed |-> WouldAdmit(g, t)]
    BY DEF Decided
  <2>2. WouldAdmit(g, t) \in BOOLEAN
    BY DEF WouldAdmit, Admits
  <2> HIDE DEF WouldAdmit
  <2> QED BY <1>0, <2>1, <2>2
<1>4. CASE ~WouldAdmit(g, t)
  <2>1. region' = [region EXCEPT ![r] = g] /\ served' = served
    BY <1>4 DEF Decided
  <2>2. 0 \in Nat /\ UsedOf(g) = UsedOf(g) + 0 /\ (IF AnsweredIn(g) THEN 0 ELSE 0) = 0
    BY <1>0
  <2>3. Answered(r, g, g, t, 0)
    BY <1>1, <1>2, <1>3, <2>1, <2>2 DEF Answered
  <2> QED BY <2>3
<1>5. CASE WouldAdmit(g, t)
  <2> DEFINE h == IF t.own THEN Credit(g, t.user, t.cost) ELSE g
             n == t.cost
             k == IF AnsweredIn(g) THEN n ELSE 0
  <2>1. n <= g.budget - UsedOf(g)
    BY <1>5, AdmittedFits
  <2>2. region' = [region EXCEPT ![r] = h]
    BY <1>5 DEF Decided, Credit
  <2>3. served' = Plus(served, FairTime, k)
    <3>1. CASE AnsweredIn(g)
      <4>1. g.win \in {PWindowOf(time), -1}
        BY <3>1 DEF AnsweredIn, FairTime
      <4>2. served' = [served EXCEPT ![PWindowOf(time)] = @ + t.cost]
        BY <1>5, <4>1 DEF Decided
      <4> QED BY <3>1, <4>2 DEF Plus, FairTime
    <3>2. CASE ~AnsweredIn(g)
      <4>1. g.win \notin {PWindowOf(time), -1}
        BY <3>2 DEF AnsweredIn, FairTime
      <4>2. served' = served
        BY <1>5, <4>1 DEF Decided
      <4> QED BY <1>1, <3>2, <4>2
    <3> QED BY <3>1, <3>2
  <2>4. /\ h \in RegionType /\ h.win = g.win /\ h.budget = g.budget
        /\ t.own => UsedOf(h) = UsedOf(g) + n
        /\ ~t.own => UsedOf(h) = UsedOf(g)
    <3>1. CASE t.own
      <4> DEFINE u == t.user
      <4>1. h = Credit(g, u, n) /\ u \in FUser /\ n \in Nat
        BY <1>0, <3>1
      <4> HIDE DEF h, n, u
      <4>2. h \in RegionType /\ h.win = g.win /\ h.budget = g.budget /\ UsedOf(h) = UsedOf(g) + n
        BY ONLY <4>1, g \in RegionType, CreditIs
      <4> QED BY <3>1, <4>2
    <3>2. CASE ~t.own
      BY <3>2
    <3> QED BY <3>1, <3>2
  <2>5. UsedOf(g) + n <= g.budget
    BY <1>0, <2>1
  <2> HIDE DEF h
  <2>6. Answered(r, g, h, t, n)
    BY <1>0, <1>2, <1>3, <2>2, <2>3, <2>4, <2>5 DEF Answered
  <2> QED BY <2>6
<1> QED BY <1>4, <1>5

LEMMA NoTurnIs == NoTurn \in TurnType /\ NoTurn.st = "none" /\ NoTurn.got = 0 /\ NoTurn.own /\ NoTurn.iter = 0
<1>1. 1 \in FUser /\ 0 \in 0..MaxLeaseIters
  BY FairOptions
<1> QED BY <1>1 DEF NoTurn, TurnType

LEMMA TurnOfIs ==
    ASSUME NEW u \in FUser, NEW cost \in Nat, NEW t, t = TurnOf(u, cost)
    PROVE  t \in TurnType /\ t.st = "none" /\ t.got = 0 /\ t.own /\ t.iter = 0 /\ t.cost = cost
<1>1. 0 \in 0..MaxLeaseIters
  BY FairOptions
<1> QED BY <1>1 DEF NoTurn, TurnType, TurnOf

\* A check that waits for the pool.
Waiting(t, need, wsum) == [t EXCEPT !.st = "asked", !.need = need, !.wsum = wsum]
LEMMA WaitingIs ==
    ASSUME NEW t \in TurnType, NEW need \in Nat, NEW wsum \in Nat, NEW x, x = Waiting(t, need, wsum)
    PROVE  x \in TurnType /\ x.st = "asked" /\ x.got = t.got /\ x.own = t.own /\ x.iter = t.iter
BY DEF Waiting, TurnType

Asks(r, g, t) ==
    \E x : /\ x \in TurnType /\ x.st = "asked" /\ x.got = t.got /\ x.own = t.own /\ x.iter = t.iter /\ t.iter < MaxLeaseIters
           /\ region' = [region EXCEPT ![r] = g] /\ turn' = [turn EXCEPT ![r] = x]
           /\ served' = served /\ verdict' = NoVerdict

LEMMA AskOrAnswer ==
    ASSUME FairTypeOK, NEW r \in FRegion, NEW g \in RegionType, NEW t \in TurnType, AskPoolOrDecide(r, g, t)
    PROVE  Asks(r, g, t) \/ \E n, h : Answered(r, g, h, t, n)
<1>1. CASE Decided(r, g, t)
  BY <1>1, DecidedIs
<1>2. CASE NeedsGrant(g, t)
  <2> DEFINE need == Need(g, t)
             wsum == UserWeight(g)
             x == Waiting(t, need, wsum)
  <2>1. need \in Nat /\ wsum \in Nat
    BY NeedNat, RegionBooks
  <2>2. x \in TurnType /\ x.st = "asked" /\ x.got = t.got /\ x.own = t.own /\ x.iter = t.iter
    <3> HIDE DEF need, wsum
    <3> QED BY ONLY <2>1, t \in TurnType, WaitingIs
  <2>3. region' = [region EXCEPT ![r] = g] /\ turn' = [turn EXCEPT ![r] = x] /\ served' = served /\ verdict' = NoVerdict
    BY <1>2 DEF AskPoolOrDecide, Waiting
  <2>4. t.iter < MaxLeaseIters
    BY <1>2 DEF NeedsGrant
  <2> HIDE DEF x
  <2> QED BY <2>2, <2>3, <2>4 DEF Asks
<1> QED BY <1>1, <1>2 DEF AskPoolOrDecide
----------------------------------------------------------------------------
(* FederatedFairEscrow: the books of a window *)

\* The books of two states of the regions that differ in one region.
BooksDiffer(f, g, r, cur) ==
    /\ Sum(Uses(g, cur), NR) = Sum(Uses(f, cur), NR) - UsedIn(f[r], cur) + UsedIn(g[r], cur)
    /\ Sum(Uses(f, cur), NR) \in Nat /\ Sum(Uses(g, cur), NR) \in Nat
    /\ UsedIn(f[r], cur) \in Nat /\ UsedIn(g[r], cur) \in Nat

LEMMA UsesChange ==
    ASSUME NEW f, NEW g, NEW r \in FRegion, NEW cur, \A i \in FRegion : f[i] \in RegionType /\ g[i] \in RegionType,
           \A i \in FRegion : i # r => g[i] = f[i]
    PROVE  BooksDiffer(f, g, r, cur)
<1> DEFINE x == Uses(f, cur)
           y == Uses(g, cur)
<1>1. \A i \in FRegion : x[i] = UsedIn(f[i], cur) /\ y[i] = UsedIn(g[i], cur)
  BY DEF Uses
<1>2. \A i \in FRegion : UsedIn(f[i], cur) \in Nat /\ UsedIn(g[i], cur) \in Nat
  BY RegionBooks DEF UsedIn
<1> HIDE DEF x, y
<1>3. /\ \A i \in FRegion : x[i] \in Nat /\ y[i] \in Nat
      /\ \A i \in FRegion : i # r => y[i] = x[i]
  BY <1>1, <1>2
<1>4. Sum(y, NR) = Sum(x, NR) - x[r] + y[r] /\ Sum(x, NR) \in Nat /\ Sum(y, NR) \in Nat
  BY ONLY <1>3, RegionSum, r \in FRegion
<1> QED BY <1>1, <1>2, <1>4 DEF x, y, BooksDiffer

\* What all regions have admitted in a window fits the limit.
LEMMA UsesBounded ==
    ASSUME NEW p, NEW cur \in Nat, PoolOK(p, cur), NEW f \in [FRegion -> RegionType], \A i \in FRegion : Backed(i, f[i], p, cur)
    PROVE  Sum(Uses(f, cur), NR) \in Nat /\ Sum(Uses(f, cur), NR) <= GlobalLimit
<1> DEFINE x == Uses(f, cur)
           y == p.granted
<1>1. p \in PoolType /\ y \in [FRegion -> 0..GlobalLimit] /\ GlobalLimit \in Nat /\ NR \in Nat /\ FRegion = 1..NR
  BY PoolFields, FairOptions DEF PoolOK
<1>2. \A i \in 1..NR : x[i] \in Nat /\ y[i] \in Nat /\ x[i] <= y[i]
  <2> SUFFICES ASSUME NEW i \in FRegion PROVE x[i] \in Nat /\ y[i] \in Nat /\ x[i] <= y[i]
    BY <1>1
  <2>1. x[i] = UsedIn(f[i], cur) /\ y[i] \in Nat
    BY <1>1 DEF Uses
  <2>2. UsedOf(f[i]) \in Nat /\ f[i].budget \in Nat
    BY RegionBooks, RegionFields
  <2>3. f[i].win = cur => UsedOf(f[i]) <= f[i].budget /\ (f[i].budget > 0 => f[i].budget <= y[i])
    BY DEF Backed
  <2> HIDE DEF x, y
  <2>4. CASE f[i].win = cur
    <3>1. x[i] = UsedOf(f[i])
      BY <2>1, <2>4 DEF UsedIn
    <3> QED BY <2>1, <2>2, <2>3, <2>4, <3>1
  <2>5. CASE f[i].win # cur
    BY <2>1, <2>5 DEF UsedIn
  <2> QED BY <2>4, <2>5
<1>3. Sum(y, NR) <= GlobalLimit
  BY DEF PoolOK
<1> HIDE DEF x, y
<1>4. /\ \A i \in 1..NR : x[i] \in Int /\ y[i] \in Int /\ x[i] <= y[i]
      /\ \A i \in 1..NR : x[i] \in Nat
      /\ \A i \in 1..NR : y[i] \in Nat
  BY <1>2
<1>5. Sum(x, NR) <= Sum(y, NR)
  BY ONLY <1>1, <1>4, SumMonotone
<1>6. Sum(x, NR) \in Nat /\ Sum(y, NR) \in Nat
  BY ONLY <1>1, <1>4, SumNat
<1>7. Sum(x, NR) \in Nat /\ Sum(x, NR) <= GlobalLimit
  BY ONLY <1>1, <1>3, <1>5, <1>6
<1> QED BY <1>7 DEF x

LEMMA PlusFields ==
    ASSUME NEW f \in [PWindows -> Nat], NEW w, NEW n \in Nat, NEW g, g = Plus(f, w, n)
    PROVE  /\ g \in [PWindows -> Nat] /\ \A i \in PWindows : i # w => g[i] = f[i]
           /\ w \in PWindows => g[w] = f[w] + n
           /\ \A i \in PWindows : f[i] <= g[i]
<1>1. \A i \in PWindows : g[i] = IF i = w THEN f[i] + n ELSE f[i]
  BY DEF Plus
<1>2. DOMAIN g = PWindows /\ g = [i \in PWindows |-> g[i]]
  BY DEF Plus
<1>3. \A i \in PWindows : g[i] \in Nat /\ f[i] <= g[i]
  BY <1>1
<1>4. g \in [PWindows -> Nat]
  BY <1>2, <1>3
<1>5. (\A i \in PWindows : i # w => g[i] = f[i]) /\ (w \in PWindows => g[w] = f[w] + n)
  BY <1>1
<1> QED BY <1>3, <1>4, <1>5

LEMMA PlusNothing == \A f, w : f \in [PWindows -> Nat] => Plus(f, w, 0) = f
<1> SUFFICES ASSUME NEW f \in [PWindows -> Nat], NEW w PROVE Plus(f, w, 0) = f
  OBVIOUS
<1> DEFINE g == Plus(f, w, 0)
<1>1. g \in [PWindows -> Nat] /\ \A i \in PWindows : g[i] = f[i]
  <2>1. \A i \in PWindows : g[i] = IF i = w THEN f[i] + 0 ELSE f[i]
    BY DEF Plus
  <2>2. DOMAIN g = PWindows /\ g = [i \in PWindows |-> g[i]]
    BY DEF Plus
  <2> HIDE DEF g
  <2>3. \A i \in PWindows : g[i] = f[i]
    BY <2>1
  <2> QED BY <2>2, <2>3
<1> HIDE DEF g
<1>2. g = f
  BY <1>1
<1> QED BY <1>2 DEF g

\* The books stay in order when a window answers no more than its regions book or forget.
LEMMA LedgerMoves ==
    ASSUME NEW sv \in [PWindows -> Nat], NEW pd \in [PWindows -> Nat], NEW cur \in PWindows, NEW u \in Nat, NEW v \in Nat,
           NEW k \in Nat, NEW sn \in [PWindows -> Nat], NEW pn \in [PWindows -> Nat], LedgerOK(sv, pd, u, cur),
           sn[cur] = sv[cur] + k, \A i \in PWindows : i # cur => sn[i] = sv[i],
           \A i \in PWindows : pd[i] <= pn[i], u + k + pd[cur] <= v + pn[cur]
    PROVE  LedgerOK(sn, pn, v, cur)
<1> SUFFICES ASSUME NEW w \in PWindows
             PROVE  /\ w = cur => sn[w] <= v + pn[w]
                    /\ w < cur => sn[w] <= GlobalLimit + pn[w]
                    /\ w > cur => sn[w] = 0
  BY DEF LedgerOK
<1>0. sv[w] \in Nat /\ pd[w] \in Nat /\ sn[w] \in Nat /\ pn[w] \in Nat /\ GlobalLimit \in Nat /\ w \in Int /\ cur \in Int
  BY FairOptions DEF PWindows
<1>1. /\ w = cur => sv[w] <= u + pd[w]
      /\ w < cur => sv[w] <= GlobalLimit + pd[w]
      /\ w > cur => sv[w] = 0
  BY DEF LedgerOK
<1>2. CASE w = cur
  <2>1. sv[w] <= u + pd[w] /\ sn[w] = sv[w] + k /\ u + k + pd[w] <= v + pn[w]
    BY <1>1, <1>2
  <2>2. sn[w] <= v + pn[w]
    BY ONLY <1>0, <2>1, u \in Nat, v \in Nat, k \in Nat
  <2> QED BY <1>0, <1>2, <2>2
<1>3. CASE w # cur
  <2>1. sn[w] = sv[w] /\ pd[w] <= pn[w]
    BY <1>3
  <2> QED BY <1>0, <1>1, <1>3, <2>1
<1> QED BY <1>2, <1>3
----------------------------------------------------------------------------
(* FederatedFairEscrow: the steps *)

\* A step of one region: its state and its check move on, the pool may grow, and the window
\* answers no more than the region books.
Moves(r, h, x, q, k) ==
    /\ r \in FRegion /\ h \in RegionType /\ h.win <= FairTime /\ k \in Nat
    /\ region' = [region EXCEPT ![r] = h] /\ turn' = [turn EXCEPT ![r] = x] /\ rpool' = q
    /\ PoolOK(q, FairTime) /\ (q = rpool \/ Grew(rpool, q, FairTime))
    /\ TurnOK(r, h, x, q, FairTime, clears)
    /\ served' = Plus(served, FairTime, k)
    /\ Careful => Backed(r, h, q, FairTime) /\ UsedIn(region[r], FairTime) + k <= UsedIn(h, FairTime)
    /\ time' = time /\ setup' = setup /\ releases' = releases /\ clears' = clears /\ pardoned' = pardoned
    /\ drawn' \in Nat /\ verdict' \in [region : Nat, user : Nat, cost : Nat, allowed : BOOLEAN]

LEMMA FairMoves ==
    ASSUME FairInv, NEW r, NEW h, NEW x, NEW q, NEW k, Moves(r, h, x, q, k)
    PROVE  FairInv'
<1>0. /\ time \in 0..PoolTime /\ setup \in PoolPlans /\ rpool \in PoolType
      /\ region \in [FRegion -> RegionType] /\ turn \in [FRegion -> TurnType] /\ releases \in [FRegion -> Nat]
      /\ drawn \in Nat /\ clears \in Nat /\ served \in [PWindows -> Nat] /\ pardoned \in [PWindows -> Nat]
  BY FairTypes DEF FairInv
<1>1. FairTime \in PWindows /\ FairTime \in Nat
  BY <1>0, FairWindowOf DEF FairTime
<1>2. /\ r \in FRegion /\ h \in RegionType /\ h.win <= FairTime /\ k \in Nat
      /\ region' = [region EXCEPT ![r] = h] /\ turn' = [turn EXCEPT ![r] = x] /\ rpool' = q
      /\ served' = Plus(served, FairTime, k)
      /\ time' = time /\ setup' = setup /\ releases' = releases /\ clears' = clears /\ pardoned' = pardoned
      /\ drawn' \in Nat /\ verdict' \in [region : Nat, user : Nat, cost : Nat, allowed : BOOLEAN]
  BY DEF Moves
<1>3. PoolOK(q, FairTime) /\ (q = rpool \/ Grew(rpool, q, FairTime)) /\ TurnOK(r, h, x, q, FairTime, clears)
  BY DEF Moves
<1>4. Careful => Backed(r, h, q, FairTime) /\ UsedIn(region[r], FairTime) + k <= UsedIn(h, FairTime)
  BY DEF Moves
<1>5. FairTime' = FairTime /\ Careful' = Careful
  BY <1>2 DEF FairTime, Careful
<1>6. q \in PoolType /\ x \in TurnType
  BY <1>3 DEF PoolOK, TurnOK
<1>7. /\ region' \in [FRegion -> RegionType] /\ turn' \in [FRegion -> TurnType]
      /\ region'[r] = h /\ turn'[r] = x
      /\ \A i \in FRegion : i # r => region'[i] = region[i] /\ turn'[i] = turn[i]
  BY <1>0, <1>2, <1>6
<1>8. /\ served' \in [PWindows -> Nat] /\ served'[FairTime] = served[FairTime] + k
      /\ \A i \in PWindows : i # FairTime => served'[i] = served[i]
  BY <1>0, <1>1, <1>2, PlusFields
<1>9. FairTypeOK'
  BY <1>0, <1>2, <1>6, <1>7, <1>8 DEF FairTypeOK
<1>10. PoolOK(rpool', FairTime)
  BY <1>2, <1>3
<1>11. FairRegionsOK'
  BY <1>2, <1>5, <1>7 DEF FairRegionsOK, FairInv
<1>12. FairTurnsOK'
  <2>1. ASSUME NEW i \in FRegion PROVE TurnOK(i, region'[i], turn'[i], q, FairTime, clears)
    <3>1. CASE i = r
      BY <1>3, <1>7, <3>1
    <3>2. CASE i # r
      <4> DEFINE g == region[i]
                 t == turn[i]
      <4>1. TurnOK(i, g, t, rpool, FairTime, clears) /\ g \in RegionType
        BY <1>0 DEF FairInv, FairTurnsOK
      <4>2. region'[i] = g /\ turn'[i] = t
        BY <1>7, <3>2
      <4> HIDE DEF g, t
      <4>3. TurnOK(i, g, t, q, FairTime, clears)
        <5>1. CASE q = rpool
          BY <4>1, <5>1
        <5>2. CASE Grew(rpool, q, FairTime)
          <6>1. rpool \in PoolType /\ q \in PoolType /\ FairTime \in Nat
            BY <1>0, <1>1, <1>6
          <6> QED BY ONLY <6>1, <4>1, <5>2, i \in FRegion, TurnGrows
        <5> QED BY <1>3, <5>1, <5>2
      <4> QED BY <4>2, <4>3
    <3> QED BY <3>1, <3>2
  <2> QED BY <1>2, <1>5, <2>1 DEF FairTurnsOK, TurnOK
<1>13. ASSUME Careful PROVE FairBacked'
  <2>0. FairBacked
    BY <1>13 DEF FairInv
  <2> SUFFICES ASSUME NEW i \in FRegion PROVE Backed(i, region'[i], q, FairTime) /\ releases[i] = 0
    BY <1>2, <1>5 DEF FairBacked
  <2>1. CASE i = r
    BY <1>4, <1>7, <1>13, <2>0, <2>1 DEF FairBacked
  <2>2. CASE i # r
    <3> DEFINE g == region[i]
    <3>1. Backed(i, g, rpool, FairTime) /\ g \in RegionType /\ releases[i] = 0
      BY <1>0, <2>0 DEF FairBacked
    <3>2. region'[i] = g
      BY <1>7, <2>2
    <3> HIDE DEF g
    <3>3. Backed(i, g, q, FairTime)
      BY <1>0, <1>1, <1>3, <1>6, <3>1, BackedGrows
    <3> QED BY <3>1, <3>2, <3>3
  <2> QED BY <2>1, <2>2
<1>14. ASSUME Careful PROVE FairLedger'
  <2> DEFINE u == Sum(Uses(region, FairTime), NR)
             v == Sum(Uses(region', FairTime), NR)
             a == UsedIn(region[r], FairTime)
             b == UsedIn(h, FairTime)
  <2>1. v = u - a + b /\ u \in Nat /\ v \in Nat /\ a \in Nat /\ b \in Nat
    <3> DEFINE f == region
               g == region'
    <3>1. \A i \in FRegion : f[i] \in RegionType /\ g[i] \in RegionType
      BY <1>0, <1>7
    <3>2. \A i \in FRegion : i # r => g[i] = f[i]
      BY <1>7
    <3> DEFINE c == FairTime
    <3>0. r \in FRegion
      BY <1>2
    <3> HIDE DEF f, g, c
    <3>3. BooksDiffer(f, g, r, c)
      BY ONLY <3>0, <3>1, <3>2, UsesChange
    <3> QED BY <1>7, <3>3 DEF f, g, c, BooksDiffer
  <2>2. LedgerOK(served, pardoned, u, FairTime)
    BY <1>14 DEF FairInv, FairLedger
  <2>3. a + k <= b
    BY <1>4, <1>14
  <2> DEFINE sv == served
             sn == served'
             pd == pardoned
  <2>4. /\ sv \in [PWindows -> Nat] /\ sn \in [PWindows -> Nat] /\ pd \in [PWindows -> Nat]
        /\ sn[FairTime] = sv[FairTime] + k /\ \A i \in PWindows : i # FairTime => sn[i] = sv[i]
    BY <1>0, <1>8
  <2>5. LedgerOK(sv, pd, u, FairTime)
    BY <2>2
  <2> HIDE DEF u, v, a, b, sv, sn, pd
  <2>6. \A i \in PWindows : pd[i] <= pd[i]
    BY <2>4
  <2>7. u + k + pd[FairTime] <= v + pd[FairTime]
    BY ONLY <1>1, <1>2, <2>1, <2>3, <2>4
  <2>8. LedgerOK(sn, pd, v, FairTime)
    BY ONLY <1>1, <1>2, <2>1, <2>4, <2>5, <2>6, <2>7, LedgerMoves, ZenonT(30)
  <2> QED BY <1>2, <1>5, <2>8 DEF FairLedger, v, sn, pd
<1> QED BY <1>5, <1>9, <1>10, <1>2, <1>11, <1>12, <1>13, <1>14 DEF FairInv
\* What the step of a check leaves alone.
SameAround == time' = time /\ setup' = setup /\ releases' = releases /\ clears' = clears /\ pardoned' = pardoned

\* A check that is answered.
LEMMA AnswerKeeps ==
    ASSUME FairInv, NEW r \in FRegion, NEW g \in RegionType, g.win <= FairTime, NEW t, t.own \in BOOLEAN, NEW h, NEW n,
           Answered(r, g, h, t, n), NEW q, rpool' = q, PoolOK(q, FairTime), q = rpool \/ Grew(rpool, q, FairTime),
           Careful => Backed(r, g, q, FairTime) /\ t.own /\ 0 <= g.win /\ UsedIn(region[r], FairTime) = UsedIn(g, FairTime),
           SameAround, drawn' \in Nat
    PROVE  FairInv'
<1> DEFINE k == IF AnsweredIn(g) THEN n ELSE 0
<1>1. /\ n \in Nat /\ h \in RegionType /\ h.win = g.win /\ h.budget = g.budget
      /\ t.own => UsedOf(h) = UsedOf(g) + n
      /\ ~t.own => UsedOf(h) = UsedOf(g)
      /\ n # 0 => UsedOf(g) + n <= g.budget
  BY DEF Answered
<1>2. /\ region' = [region EXCEPT ![r] = h]
      /\ served' = Plus(served, FairTime, k)
      /\ turn' = [turn EXCEPT ![r] = NoTurn]
      /\ verdict' \in [region : Nat, user : Nat, cost : Nat, allowed : BOOLEAN]
  BY DEF Answered
<1>3. TurnOK(r, h, NoTurn, q, FairTime, clears)
  <2>1. NoTurn \in TurnType /\ NoTurn.st = "none" /\ NoTurn.got <= GlobalLimit
    BY NoTurnIs, FairOptions
  <2> QED BY <2>1 DEF TurnOK
<1>4. UsedOf(g) \in Nat /\ UsedOf(h) \in Nat /\ g.budget \in Nat /\ k \in Nat /\ g.win \in Int
  BY <1>1, RegionBooks, RegionFields
<1>5. ASSUME Careful PROVE Backed(r, h, q, FairTime) /\ UsedIn(region[r], FairTime) + k <= UsedIn(h, FairTime)
  <2>1. Backed(r, g, q, FairTime) /\ t.own /\ 0 <= g.win /\ UsedIn(region[r], FairTime) = UsedIn(g, FairTime)
    BY <1>5
  <2>2. UsedOf(h) = UsedOf(g) + n /\ h.win = g.win /\ h.budget = g.budget
    BY <1>1, <2>1
  <2>3. CASE g.win = FairTime
    <3>1. UsedOf(g) <= g.budget
      BY <2>1, <2>3 DEF Backed
    <3>2. UsedOf(h) <= h.budget
      BY <1>1, <1>4, <2>2, <3>1
    <3>3. Backed(r, h, q, FairTime)
      BY <2>1, <2>2, <2>3, <3>2 DEF Backed
    <3>4. k = n
      BY <2>3 DEF AnsweredIn
    <3> QED BY <1>1, <1>4, <2>1, <2>2, <2>3, <3>3, <3>4 DEF UsedIn
  <2>4. CASE g.win # FairTime
    <3>1. Backed(r, h, q, FairTime)
      BY <2>2, <2>4 DEF Backed
    <3>2. UsedIn(region[r], FairTime) = 0 /\ UsedIn(h, FairTime) = 0
      BY <2>1, <2>2, <2>4 DEF UsedIn
    <3>3. g.win # -1
      BY <1>4, <2>1
    <3>4. k = 0
      BY <2>4, <3>3 DEF AnsweredIn
    <3> QED BY <3>1, <3>2, <3>4
  <2> QED BY <2>3, <2>4
<1> HIDE DEF k
<1>6. h.win <= FairTime
  BY <1>1
<1>7. Moves(r, h, NoTurn, q, k)
  BY <1>1, <1>2, <1>3, <1>4, <1>5, <1>6 DEF Moves, SameAround
<1> QED BY <1>7, FairMoves

\* A check that asks the pool, and waits.
LEMMA AskKeeps ==
    ASSUME FairInv, NEW r \in FRegion, NEW g \in RegionType, g.win <= FairTime, NEW t, t.got <= GlobalLimit, Asks(r, g, t),
           setup.async, clears = 0 => t.own /\ 0 <= g.win, rpool' = rpool,
           Careful => Backed(r, g, rpool, FairTime) /\ UsedIn(region[r], FairTime) = UsedIn(g, FairTime),
           SameAround, drawn' \in Nat
    PROVE  FairInv'
<1> PICK x : /\ x \in TurnType /\ x.st = "asked" /\ x.got = t.got /\ x.own = t.own /\ x.iter = t.iter /\ t.iter < MaxLeaseIters
             /\ region' = [region EXCEPT ![r] = g] /\ turn' = [turn EXCEPT ![r] = x]
             /\ served' = served /\ verdict' = NoVerdict
  BY DEF Asks
<1>1. TurnOK(r, g, x, rpool, FairTime, clears)
  <2>1. g.win \in Int
    BY RegionFields
  <2> QED BY <2>1 DEF TurnOK
<1>2. PoolOK(rpool, FairTime) /\ served \in [PWindows -> Nat]
  BY FairTypes DEF FairInv
<1>3. served' = Plus(served, FairTime, 0)
  BY <1>2, PlusNothing
<1>4. verdict' \in [region : Nat, user : Nat, cost : Nat, allowed : BOOLEAN]
  BY DEF NoVerdict
<1>5. ASSUME Careful PROVE Backed(r, g, rpool, FairTime) /\ UsedIn(region[r], FairTime) + 0 <= UsedIn(g, FairTime)
  <2>1. UsedIn(g, FairTime) \in Nat
    BY RegionBooks DEF UsedIn
  <2> QED BY <1>5, <2>1
<1>6. Moves(r, g, x, rpool, 0)
  BY <1>1, <1>2, <1>3, <1>4, <1>5 DEF Moves, SameAround
<1> QED BY <1>6, FairMoves
\* A check goes on: it is answered, or asks the pool again.
LEMMA CheckGoesOn ==
    ASSUME FairInv, NEW r \in FRegion, NEW g \in RegionType, g.win <= FairTime, NEW t \in TurnType, t.got <= GlobalLimit,
           AskPoolOrDecide(r, g, t), setup.async, clears = 0 => t.own /\ 0 <= g.win, rpool' = rpool,
           Careful => Backed(r, g, rpool, FairTime) /\ UsedIn(region[r], FairTime) = UsedIn(g, FairTime),
           SameAround, drawn' \in Nat
    PROVE  FairInv'
<1>0. FairTypeOK /\ PoolOK(rpool, FairTime)
  BY DEF FairInv
<1>1. CASE Asks(r, g, t)
  BY <1>1, AskKeeps
<1>2. CASE \E n, h : Answered(r, g, h, t, n)
  <2> PICK n, h : Answered(r, g, h, t, n)
    BY <1>2
  <2>1. t.own \in BOOLEAN
    BY TurnFields
  <2>2. Careful => Backed(r, g, rpool, FairTime) /\ t.own /\ 0 <= g.win /\ UsedIn(region[r], FairTime) = UsedIn(g, FairTime)
    BY DEF Careful
  <2> QED BY <1>0, <2>1, <2>2, AnswerKeeps
<1> QED BY <1>0, <1>1, <1>2, AskOrAnswer

\* A region's check, in either deployment, finds its region prepared.
LEMMA PreparedHere ==
    ASSUME FairInv, NEW r \in FRegion, NEW u \in FUser, NEW w \in UserWeights, NEW g, g = Prepared(r, u, w)
    PROVE  /\ g \in RegionType /\ g.win = FairTime /\ g.win <= FairTime /\ 0 <= g.win
           /\ UsedIn(region[r], FairTime) = UsedIn(g, FairTime)
           /\ Careful => Backed(r, g, rpool, FairTime)
<1>1. FairTypeOK /\ FairRegionsOK /\ w \in Nat
  BY FairOptions DEF FairInv
<1>2. FairTime \in Nat
  BY <1>1, FairTypes, FairWindowOf DEF FairTime
<1>3. /\ g \in RegionType /\ g.win = FairTime /\ UsedOf(g) = UsedIn(region[r], FairTime)
      /\ \A p : Backed(r, region[r], p, FairTime) => Backed(r, g, p, FairTime)
  BY ONLY <1>1, r \in FRegion, u \in FUser, g = Prepared(r, u, w), PreparedIs
<1>4. Careful => Backed(r, region[r], rpool, FairTime)
  BY DEF FairInv, FairBacked
<1> QED BY <1>2, <1>3, <1>4 DEF UsedIn

LEMMA SyncKeeps ==
    ASSUME FairInv, NEW r \in FRegion, NEW u \in FUser, NEW cost \in UserCosts, NEW w \in UserWeights, FairCheckSync(r, u, cost, w)
    PROVE  FairInv'
<1> DEFINE t == TurnOf(u, cost)
           g == Prepared(r, u, w)
           end == Leased(rpool, g, r, t)
           q == end.p
           e == end.g
<1>1. /\ ~setup.async /\ drawn' = drawn + 1 /\ rpool' = q /\ Decided(r, e, t)
      /\ time' = time /\ setup' = setup /\ releases' = releases /\ clears' = clears /\ pardoned' = pardoned
  BY DEF FairCheckSync
<1>2. FairTypeOK /\ PoolOK(rpool, FairTime) /\ Careful /\ cost \in Nat /\ drawn \in Nat
  BY <1>1, FairOptions, FairTypes DEF FairInv, Careful
<1>3. t \in TurnType /\ t.own
  BY <1>2, TurnOfIs
<1> HIDE DEF t
<1>4. /\ g \in RegionType /\ g.win = FairTime /\ 0 <= g.win
      /\ UsedIn(region[r], FairTime) = UsedIn(g, FairTime) /\ Backed(r, g, rpool, FairTime)
  BY <1>2, PreparedHere
<1> HIDE DEF g
<1>5. LoopOK(end, r, rpool, UsedOf(g))
  BY ONLY <1>2, <1>3, <1>4, r \in FRegion, LeasedIs DEF end
<1>6. /\ PoolOK(q, FairTime) /\ (q = rpool \/ Grew(rpool, q, FairTime))
      /\ e \in RegionType /\ e.win = FairTime /\ UsedOf(e) = UsedOf(g) /\ Backed(r, e, q, FairTime)
  BY <1>5 DEF LoopOK
<1> HIDE DEF q, e
<1>7. PICK n, h : Answered(r, e, h, t, n)
  BY <1>1, <1>2, <1>3, <1>6, DecidedIs
<1>8. Careful => Backed(r, e, q, FairTime) /\ t.own /\ 0 <= e.win /\ UsedIn(region[r], FairTime) = UsedIn(e, FairTime)
  BY <1>3, <1>4, <1>6 DEF UsedIn
<1>9. e.win <= FairTime /\ t.own \in BOOLEAN /\ drawn' \in Nat /\ SameAround
  BY <1>1, <1>2, <1>3, <1>6, FairTypes, FairWindowOf DEF SameAround, FairTime
<1> QED BY <1>1, <1>6, <1>7, <1>8, <1>9, AnswerKeeps

LEMMA AsyncKeeps ==
    ASSUME FairInv, NEW r \in FRegion, NEW u \in FUser, NEW cost \in UserCosts, NEW w \in UserWeights, FairCheckAsync(r, u, cost, w)
    PROVE  FairInv'
<1> DEFINE t == TurnOf(u, cost)
           g == Prepared(r, u, w)
<1>1. /\ setup.async /\ drawn' = drawn + 1 /\ rpool' = rpool /\ AskPoolOrDecide(r, g, t)
      /\ time' = time /\ setup' = setup /\ releases' = releases /\ clears' = clears /\ pardoned' = pardoned
  BY DEF FairCheckAsync
<1>2. cost \in Nat /\ drawn \in Nat
  BY FairOptions, FairTypes DEF FairInv
<1>3. t \in TurnType /\ t.own /\ t.got = 0 /\ t.got <= GlobalLimit
  BY <1>2, TurnOfIs, FairOptions
<1> HIDE DEF t
<1>4. /\ g \in RegionType /\ g.win = FairTime /\ g.win <= FairTime /\ 0 <= g.win
      /\ UsedIn(region[r], FairTime) = UsedIn(g, FairTime)
      /\ Careful => Backed(r, g, rpool, FairTime)
  BY PreparedHere
<1> HIDE DEF g
<1>5. SameAround /\ drawn' \in Nat
  BY <1>1, <1>2 DEF SameAround
<1> QED BY <1>1, <1>3, <1>4, <1>5, CheckGoesOn

\* The answer to a grant that was told.
Told(t, n) == [t EXCEPT !.st = "told", !.got = n]
LEMMA ToldIs ==
    ASSUME NEW t \in TurnType, NEW n \in Nat, NEW x, x = Told(t, n)
    PROVE  x \in TurnType /\ x.st = "told" /\ x.got = n /\ x.own = t.own /\ x.iter = t.iter
BY DEF Told, TurnType

LEMMA PoolGrantKeeps ==
    ASSUME FairInv, NEW r \in FRegion, PoolGrant(r)
    PROVE  FairInv'
<1> DEFINE t == turn[r]
           g == region[r]
           q == Granted(rpool, r, t.wsum, t.need)
           n == q.granted[r]
           x == Told(t, n)
<1>0. /\ FairTypeOK /\ PoolOK(rpool, FairTime) /\ rpool \in PoolType /\ time \in 0..PoolTime /\ FairTime \in Nat
      /\ t \in TurnType /\ g \in RegionType /\ turn \in [FRegion -> TurnType] /\ region \in [FRegion -> RegionType]
      /\ g.win <= FairTime /\ drawn \in Nat /\ served \in [PWindows -> Nat]
  BY FairTypes, FairWindowOf DEF FairInv, FairTime, FairRegionsOK
<1>1. /\ t.st = "asked" /\ rpool' = q /\ turn' = [turn EXCEPT ![r].st = "told", ![r].got = rpool'.granted[r]]
      /\ SameAround /\ region' = region /\ served' = served /\ drawn' = drawn /\ verdict' = verdict
  BY DEF PoolGrant, SameAround
<1>2. turn' = [turn EXCEPT ![r] = x]
  BY <1>0, <1>1 DEF Told
<1>3. TurnOK(r, g, t, rpool, FairTime, clears)
  BY DEF FairInv, FairTurnsOK
<1>4. t.wsum \in Nat /\ t.need \in Nat
  BY <1>0, TurnFields
<1>5. region' = [region EXCEPT ![r] = g]
  BY <1>0, <1>1
<1>6. Careful => Backed(r, g, rpool, FairTime)
  BY DEF FairInv, FairBacked
<1> HIDE DEF t, g, x
<1>7. PoolOK(q, FairTime) /\ Grew(rpool, q, FairTime)
  <2> DEFINE a == t.wsum
             b == t.need
  <2>1. a \in Nat /\ b \in Nat /\ q = Granted(rpool, r, a, b)
    BY <1>4
  <2> HIDE DEF a, b, q
  <2> QED BY ONLY <1>0, <2>1, r \in FRegion, PoolGrants
<1> HIDE DEF q
<1>8. q \in PoolType /\ q.win = FairTime /\ n \in 0..GlobalLimit /\ rpool.granted[r] \in Nat /\ g.budget \in Nat /\ GlobalLimit \in Nat
  <2>1. q \in PoolType /\ q.win = FairTime
    BY <1>7 DEF PoolOK, Grew
  <2>2. q.granted \in [FRegion -> 0..GlobalLimit] /\ rpool.granted \in [FRegion -> 0..GlobalLimit] /\ GlobalLimit \in Nat
    BY <1>0, <2>1, PoolFields, FairOptions
  <2>3. g.budget \in Nat
    BY <1>0, RegionFields
  <2> QED BY <2>1, <2>2, <2>3
<1>9. Careful => Backed(r, g, q, FairTime)
  BY <1>0, <1>6, <1>7, <1>8, BackedGrows
<1> HIDE DEF n
<1>10. x \in TurnType /\ x.st = "told" /\ x.got = n /\ x.own = t.own /\ x.iter = t.iter
  <2>1. x = Told(t, n) /\ n \in Nat /\ t \in TurnType
    BY <1>0, <1>8 DEF x
  <2> QED BY ONLY <2>1, ToldIs
<1>11. TurnOK(r, g, x, q, FairTime, clears)
  <2>1. x.got <= GlobalLimit
    BY <1>8, <1>10
  <2>2. setup.async /\ x.iter < MaxLeaseIters /\ (clears = 0 => x.own /\ g.win >= 0)
    BY <1>1, <1>3, <1>10 DEF TurnOK
  <2>3. clears = 0 /\ g.win = FairTime => q.win = FairTime /\ g.budget <= x.got /\ x.got <= q.granted[r]
    <3> SUFFICES ASSUME clears = 0, g.win = FairTime PROVE q.win = FairTime /\ g.budget <= n /\ n <= q.granted[r]
      BY <1>10
    <3>1. g.budget > 0 => q.win = FairTime /\ g.budget <= q.granted[r]
      BY <1>9 DEF Careful, Backed
    <3> QED BY <1>8, <3>1 DEF n
  <2> QED BY <1>10, <2>1, <2>2, <2>3 DEF TurnOK
<1>12. served' = Plus(served, FairTime, 0)
  BY <1>0, <1>1, PlusNothing
<1>13. Careful => Backed(r, g, q, FairTime) /\ UsedIn(region[r], FairTime) + 0 <= UsedIn(g, FairTime)
  <2>1. UsedIn(g, FairTime) \in Nat /\ region[r] = g
    BY <1>0, RegionBooks DEF UsedIn, g
  <2> QED BY <1>9, <2>1
<1>14. drawn' \in Nat /\ verdict' \in [region : Nat, user : Nat, cost : Nat, allowed : BOOLEAN]
  BY <1>0, <1>1 DEF FairTypeOK
<1>15. Moves(r, g, x, q, 0)
  BY <1>0, <1>1, <1>2, <1>5, <1>7, <1>11, <1>12, <1>13, <1>14 DEF Moves, SameAround
<1> QED BY <1>15, FairMoves
LEMMA GrantArrivesKeeps ==
    ASSUME FairInv, NEW r \in FRegion, GrantArrives(r)
    PROVE  FairInv'
<1> DEFINE o == turn[r]
           f == region[r]
           t == [o EXCEPT !.iter = @ + 1]
           n == o.got
           g == Funded(f, n)
<1>0. /\ FairTypeOK /\ PoolOK(rpool, FairTime) /\ o \in TurnType /\ f \in RegionType /\ f.win <= FairTime /\ drawn \in Nat
      /\ rpool \in PoolType /\ FairTime \in Nat /\ f.win \in Int
  BY FairTypes, FairWindowOf, RegionFields DEF FairInv, FairTime, FairRegionsOK
<1>1. /\ o.st = "told" /\ SameAround /\ rpool' = rpool /\ drawn' = drawn
      /\ Decided(r, g, t) \/ AskPoolOrDecide(r, g, t)
      /\ t.got = n
  BY <1>0 DEF GrantArrives, SameAround, Funded, TurnType
<1>2. TurnOK(r, f, o, rpool, FairTime, clears)
  BY DEF FairInv, FairTurnsOK
<1>3. /\ n \in 0..GlobalLimit /\ setup.async /\ o.iter < MaxLeaseIters /\ (clears = 0 => o.own /\ f.win >= 0)
      /\ clears = 0 /\ f.win = FairTime => rpool.win = FairTime /\ f.budget <= n /\ n <= rpool.granted[r]
  <2>1. n \in Nat /\ GlobalLimit \in Nat
    BY <1>0, TurnFields, FairOptions
  <2> QED BY <1>1, <1>2, <2>1 DEF TurnOK
<1>4. Careful => Backed(r, f, rpool, FairTime) /\ clears = 0
  BY <1>3 DEF FairInv, FairBacked, Careful
<1>5. t \in TurnType /\ t.own = o.own /\ t.got = n
  <2>1. MaxLeaseIters \in Nat /\ o.iter \in 0..MaxLeaseIters
    BY <1>0, TurnFields, FairOptions
  <2> QED BY <1>0, <1>3, <2>1 DEF TurnType
<1> HIDE DEF o, f, t, n
<1>6. g \in RegionType /\ g.win = f.win /\ g.budget = n /\ UsedOf(g) = UsedOf(f)
  <2> HIDE DEF g
  <2>1. g = Funded(f, n)
    BY DEF g
  <2> QED BY ONLY <1>0, <1>3, <2>1, FundedIs
<1> HIDE DEF g
<1>7. ASSUME Careful PROVE Backed(r, g, rpool, FairTime)
  <2>1. UsedOf(f) \in Nat /\ f.budget \in Nat
    BY <1>0, RegionBooks, RegionFields
  <2>2. f.win = FairTime => UsedOf(f) <= f.budget
    BY <1>4, <1>7 DEF Backed
  <2> QED BY <1>3, <1>4, <1>6, <1>7, <2>1, <2>2 DEF Backed
<1>8. UsedIn(region[r], FairTime) = UsedIn(g, FairTime)
  BY <1>6 DEF UsedIn, f
<1>9. g.win <= FairTime /\ t.got <= GlobalLimit /\ drawn' \in Nat /\ t.own \in BOOLEAN
  <2>1. t.own \in BOOLEAN
    BY <1>5, TurnFields
  <2> QED BY <1>0, <1>1, <1>3, <1>5, <1>6, <2>1
<1>10. clears = 0 => t.own /\ 0 <= g.win
  BY <1>0, <1>3, <1>5, <1>6
<1>11. CASE AskPoolOrDecide(r, g, t)
  BY <1>1, <1>3, <1>5, <1>6, <1>7, <1>8, <1>9, <1>10, <1>11, CheckGoesOn
<1>12. CASE Decided(r, g, t)
  <2> PICK k, h : Answered(r, g, h, t, k)
    BY <1>0, <1>5, <1>6, <1>12, DecidedIs
  <2> QED BY <1>0, <1>1, <1>4, <1>6, <1>7, <1>8, <1>9, <1>10, AnswerKeeps
<1> QED BY <1>1, <1>11, <1>12

LEMMA GrantFailsKeeps ==
    ASSUME FairInv, NEW r \in FRegion, GrantFails(r)
    PROVE  FairInv'
<1> DEFINE g == region[r]
<1>0. /\ FairTypeOK /\ PoolOK(rpool, FairTime) /\ g \in RegionType /\ region \in [FRegion -> RegionType]
      /\ g.win <= FairTime /\ drawn \in Nat /\ served \in [PWindows -> Nat]
  BY FairTypes DEF FairInv, FairRegionsOK
<1>1. /\ turn' = [turn EXCEPT ![r] = NoTurn] /\ SameAround /\ rpool' = rpool
      /\ region' = region /\ served' = served /\ drawn' = drawn /\ verdict' = verdict
  BY DEF GrantFails, SameAround
<1>2. region' = [region EXCEPT ![r] = g] /\ served' = Plus(served, FairTime, 0)
  BY <1>0, <1>1, PlusNothing
<1>3. TurnOK(r, g, NoTurn, rpool, FairTime, clears)
  BY NoTurnIs, FairOptions DEF TurnOK
<1>4. Careful => Backed(r, g, rpool, FairTime) /\ UsedIn(region[r], FairTime) + 0 <= UsedIn(g, FairTime)
  <2>1. UsedIn(g, FairTime) \in Nat
    BY <1>0, RegionBooks DEF UsedIn
  <2> QED BY <2>1 DEF FairInv, FairBacked
<1>5. drawn' \in Nat /\ verdict' \in [region : Nat, user : Nat, cost : Nat, allowed : BOOLEAN]
  BY <1>0, <1>1 DEF FairTypeOK
<1>6. Moves(r, g, NoTurn, rpool, 0)
  BY <1>0, <1>1, <1>2, <1>3, <1>4, <1>5 DEF Moves, SameAround
<1> QED BY <1>6, FairMoves
\* The check that was running keeps what it read of an entry that is gone.
TurnOrphaned(t, g) == [t EXCEPT !.own = FALSE, !.weight = g.weight[t.user], !.used = g.used[t.user]]
LEMMA OrphanIs ==
    ASSUME NEW g \in RegionType, NEW t \in TurnType, NEW x, x = TurnOrphaned(t, g)
    PROVE  x \in TurnType /\ x.st = t.st /\ x.got = t.got /\ x.iter = t.iter
<1> DEFINE a == g.weight[t.user]
           b == g.used[t.user]
<1>1. a \in Nat /\ b \in Nat
  BY RegionFields, TurnFields
<1>2. x = [t EXCEPT !.own = FALSE, !.weight = a, !.used = b]
  BY DEF TurnOrphaned
<1> HIDE DEF a, b
<1> QED BY <1>1, <1>2 DEF TurnType

\* reset(): a region forgets units, and its window pardons them.
Pardons(r, h, n, q) ==
    /\ r \in FRegion /\ h \in RegionType /\ h.win <= FairTime /\ n \in Nat
    /\ region' = [region EXCEPT ![r] = h] /\ rpool' = q /\ PoolOK(q, FairTime)
    /\ (\E gone : turn' = OrphanTurn(r, gone)) /\ clears' = clears + 1 /\ releases' \in [FRegion -> Nat]
    /\ pardoned' = Plus(pardoned, region[r].win, n)
    /\ UsedIn(region[r], FairTime) <= UsedIn(h, FairTime) + (IF region[r].win = FairTime THEN n ELSE 0)
    /\ ~setup.async => /\ releases' = releases /\ Backed(r, h, q, FairTime)
                       /\ \A i \in FRegion : i # r => Backed(i, region[i], q, FairTime)
    /\ time' = time /\ setup' = setup /\ served' = served /\ drawn' = drawn /\ verdict' = verdict

LEMMA FairPardons ==
    ASSUME FairInv, NEW r, NEW h, NEW n, NEW q, Pardons(r, h, n, q)
    PROVE  FairInv'
<1>0. /\ time \in 0..PoolTime /\ setup \in PoolPlans /\ rpool \in PoolType
      /\ region \in [FRegion -> RegionType] /\ turn \in [FRegion -> TurnType] /\ releases \in [FRegion -> Nat]
      /\ drawn \in Nat /\ clears \in Nat /\ served \in [PWindows -> Nat] /\ pardoned \in [PWindows -> Nat]
      /\ verdict \in [region : Nat, user : Nat, cost : Nat, allowed : BOOLEAN]
  BY FairTypes DEF FairInv, FairTypeOK
<1>1. FairTime \in PWindows /\ FairTime \in Nat
  BY <1>0, FairWindowOf DEF FairTime
<1>2. /\ r \in FRegion /\ h \in RegionType /\ h.win <= FairTime /\ n \in Nat
      /\ region' = [region EXCEPT ![r] = h] /\ rpool' = q
      /\ clears' = clears + 1 /\ releases' \in [FRegion -> Nat]
      /\ pardoned' = Plus(pardoned, region[r].win, n)
      /\ time' = time /\ setup' = setup /\ served' = served /\ drawn' = drawn /\ verdict' = verdict
  BY DEF Pardons
<1>3. PoolOK(q, FairTime) /\ q \in PoolType
  BY DEF Pardons, PoolOK
<1>4. FairTime' = FairTime /\ (Careful' => ~setup.async /\ Careful)
  BY <1>0, <1>2 DEF FairTime, Careful
<1>5. /\ region' \in [FRegion -> RegionType] /\ region'[r] = h
      /\ \A i \in FRegion : i # r => region'[i] = region[i]
  BY <1>0, <1>2
<1>6. \A i \in FRegion : /\ turn'[i] \in TurnType /\ turn'[i].st = turn[i].st
                         /\ turn'[i].got = turn[i].got /\ turn'[i].iter = turn[i].iter
  <2> PICK gone : turn' = OrphanTurn(r, gone)
    BY DEF Pardons
  <2> SUFFICES ASSUME NEW i \in FRegion
               PROVE  /\ turn'[i] \in TurnType /\ turn'[i].st = turn[i].st
                      /\ turn'[i].got = turn[i].got /\ turn'[i].iter = turn[i].iter
    OBVIOUS
  <2> DEFINE t == turn[r]
             g == region[r]
             x == [t EXCEPT !.own = FALSE, !.weight = g.weight[t.user], !.used = g.used[t.user]]
  <2>1. turn' = turn \/ turn' = [turn EXCEPT ![r] = x]
    BY DEF OrphanTurn
  <2>2. t \in TurnType /\ g \in RegionType
    BY <1>0, <1>2
  <2>3. x \in TurnType /\ x.st = t.st /\ x.got = t.got /\ x.iter = t.iter
    <3>1. x = TurnOrphaned(t, g)
      BY DEF TurnOrphaned
    <3> HIDE DEF x, t, g
    <3> QED BY ONLY <2>2, <3>1, OrphanIs
  <2> HIDE DEF x
  <2> QED BY <1>0, <1>2, <2>1, <2>3
<1>7. turn' \in [FRegion -> TurnType]
  <2>1. turn' = [i \in FRegion |-> turn'[i]]
    <3> PICK gone : turn' = OrphanTurn(r, gone)
      BY DEF Pardons
    <3> QED BY <1>0 DEF OrphanTurn
  <2> QED BY <1>6, <2>1
<1>8. /\ pardoned' \in [PWindows -> Nat] /\ \A i \in PWindows : pardoned[i] <= pardoned'[i]
      /\ region[r].win = FairTime => pardoned'[FairTime] = pardoned[FairTime] + n
  BY <1>0, <1>1, <1>2, PlusFields
<1>9. FairTypeOK'
  BY <1>0, <1>2, <1>3, <1>5, <1>7, <1>8 DEF FairTypeOK
<1>10. FairRegionsOK'
  BY <1>2, <1>4, <1>5 DEF FairRegionsOK, FairInv
<1>11. FairTurnsOK'
  <2>1. ASSUME NEW i \in FRegion PROVE TurnOK(i, region'[i], turn'[i], q, FairTime, clears + 1)
    <3>1. TurnOK(i, region[i], turn[i], rpool, FairTime, clears)
      BY DEF FairInv, FairTurnsOK
    <3>2. clears + 1 # 0
      BY <1>0
    <3> QED BY <1>6, <3>1, <3>2 DEF TurnOK
  <2> QED BY <1>2, <1>4, <2>1 DEF FairTurnsOK, TurnOK
<1>12. ASSUME Careful' PROVE FairBacked'
  <2>1. /\ releases' = releases /\ Backed(r, h, q, FairTime)
        /\ \A i \in FRegion : i # r => Backed(i, region[i], q, FairTime)
    BY <1>4, <1>12 DEF Pardons
  <2>2. \A i \in FRegion : releases[i] = 0
    BY <1>4, <1>12 DEF FairInv, FairBacked
  <2>3. \A i \in FRegion : Backed(i, region'[i], q, FairTime)
    BY <1>5, <2>1
  <2> QED BY <1>2, <1>4, <2>1, <2>2, <2>3 DEF FairBacked
<1>13. ASSUME Careful' PROVE FairLedger'
  <2> DEFINE f == region
             g == region'
             c == FairTime
             u == Sum(Uses(f, c), NR)
             v == Sum(Uses(g, c), NR)
             a == UsedIn(f[r], c)
             b == UsedIn(g[r], c)
             sv == served
             pd == pardoned
             pn == pardoned'
  <2>0. /\ r \in FRegion /\ c \in Nat /\ c \in PWindows /\ n \in Nat /\ sv \in [PWindows -> Nat]
        /\ pd \in [PWindows -> Nat] /\ pn \in [PWindows -> Nat]
        /\ \A i \in PWindows : pd[i] <= pn[i]
        /\ f[r].win = c => pn[c] = pd[c] + n
    BY <1>0, <1>1, <1>2, <1>8
  <2>1. \A i \in FRegion : f[i] \in RegionType /\ g[i] \in RegionType
    BY <1>0, <1>5
  <2>2. \A i \in FRegion : i # r => g[i] = f[i]
    BY <1>5
  <2>3. LedgerOK(sv, pd, u, c)
    BY <1>4, <1>13 DEF FairInv, FairLedger
  <2>4. a <= b + (IF f[r].win = c THEN n ELSE 0)
    BY <1>5 DEF Pardons
  <2> HIDE DEF f, g, c
  <2>5. BooksDiffer(f, g, r, c)
    BY ONLY <2>0, <2>1, <2>2, UsesChange
  <2>6. v = u - a + b /\ u \in Nat /\ v \in Nat /\ a \in Nat /\ b \in Nat
    BY <2>5 DEF BooksDiffer
  <2> HIDE DEF u, v, a, b, sv, pd, pn
  <2>7. pd[c] \in Nat /\ pn[c] \in Nat /\ pd[c] <= pn[c] /\ sv[c] \in Nat
    BY <2>0
  <2>8. u + 0 + pd[c] <= v + pn[c]
    BY ONLY <2>0, <2>4, <2>6, <2>7
  <2>9. 0 \in Nat /\ sv[c] = sv[c] + 0 /\ \A i \in PWindows : i # c => sv[i] = sv[i]
    BY <2>7
  <2>10. LedgerOK(sv, pn, v, c)
    BY ONLY <2>0, <2>3, <2>6, <2>8, <2>9, LedgerMoves
  <2> QED BY <1>2, <1>4, <2>10 DEF FairLedger, v, sv, pn, g, c
<1> QED BY <1>2, <1>3, <1>4, <1>9, <1>10, <1>11, <1>12, <1>13 DEF FairInv
LEMMA ClearUserKeeps ==
    ASSUME FairInv, NEW r \in FRegion, NEW u \in FUser, ClearUser(r, u)
    PROVE  FairInv'
<1> DEFINE g == region[r]
           h == Forgotten(g, u)
           n == g.used[u]
<1>0. /\ FairTypeOK /\ PoolOK(rpool, FairTime) /\ g \in RegionType /\ region \in [FRegion -> RegionType]
      /\ g.win <= FairTime /\ releases \in [FRegion -> Nat] /\ clears \in Nat
  BY FairTypes DEF FairInv, FairRegionsOK
<1>1. /\ region' = [region EXCEPT ![r] = h] /\ rpool' = rpool /\ clears' = clears + 1 /\ releases' = releases
      /\ turn' = OrphanTurn(r, {u}) /\ pardoned' = Plus(pardoned, g.win, n)
      /\ time' = time /\ setup' = setup /\ served' = served /\ drawn' = drawn /\ verdict' = verdict
  BY <1>0 DEF ClearUser, Plus
<1>2. /\ h \in RegionType /\ h.win = g.win /\ h.budget = g.budget
      /\ UsedOf(h) + n = UsedOf(g) /\ n \in Nat
  <2> HIDE DEF g, h
  <2>1. h = Forgotten(g, u)
    BY DEF h
  <2> QED BY ONLY <1>0, <2>1, u \in FUser, ForgottenIs DEF n
<1>3. ~setup.async => FairBacked
  BY DEF FairInv, Careful
<1>4. g.win = region[r].win /\ (~setup.async => Backed(r, g, rpool, FairTime) /\ \A i \in FRegion : Backed(i, region[i], rpool, FairTime))
  BY <1>3 DEF FairBacked
<1>5. UsedIn(region[r], FairTime) = UsedIn(g, FairTime)
  OBVIOUS
<1> HIDE DEF g, h, n
<1>6. UsedOf(g) \in Nat /\ UsedOf(h) \in Nat /\ g.budget \in Nat
  BY <1>0, <1>2, RegionBooks, RegionFields
<1>7. ~setup.async => Backed(r, h, rpool, FairTime)
  BY <1>2, <1>4, <1>6 DEF Backed
<1>8. UsedIn(g, FairTime) <= UsedIn(h, FairTime) + (IF g.win = FairTime THEN n ELSE 0)
  BY <1>2, <1>6 DEF UsedIn
<1>9. h.win <= FairTime
  BY <1>0, <1>2
<1>10. Pardons(r, h, n, rpool)
  BY <1>0, <1>1, <1>2, <1>4, <1>5, <1>7, <1>8, <1>9 DEF Pardons
<1> QED BY <1>10, FairPardons

LEMMA ClearRegionKeeps ==
    ASSUME FairInv, NEW r \in FRegion, ClearRegion(r)
    PROVE  FairInv'
<1> DEFINE g == region[r]
           h == EmptyRegion(-1)
           n == UsedOf(g)
           q == rpool'
<1>0. /\ FairTypeOK /\ PoolOK(rpool, FairTime) /\ g \in RegionType /\ region \in [FRegion -> RegionType]
      /\ g.win <= FairTime /\ releases \in [FRegion -> Nat] /\ clears \in Nat /\ time \in 0..PoolTime /\ FairTime \in Nat
  BY FairTypes, FairWindowOf DEF FairInv, FairRegionsOK, FairTime
<1>1. /\ region' = [region EXCEPT ![r] = h] /\ clears' = clears + 1 /\ turn' = OrphanTurn(r, FUser)
      /\ pardoned' = Plus(pardoned, g.win, n)
      /\ time' = time /\ setup' = setup /\ served' = served /\ drawn' = drawn /\ verdict' = verdict
  BY <1>0 DEF ClearRegion, Plus
<1>2. h \in RegionType /\ h.win = -1 /\ UsedOf(h) = 0
  BY EmptyRegionIs
<1>3. setup.async => q = rpool /\ releases' \in [FRegion -> Nat]
  BY <1>0 DEF ClearRegion
<1>4. ~setup.async => q = Released(rpool, r) /\ releases' = releases
  BY DEF ClearRegion
<1>5. ~setup.async => \A i \in FRegion : Backed(i, region[i], rpool, FairTime)
  BY DEF FairInv, FairBacked, Careful
<1>6. n \in Nat /\ g.win = region[r].win /\ UsedIn(region[r], FairTime) = UsedIn(g, FairTime)
  BY <1>0, RegionBooks
<1> HIDE DEF g, h, n, q
<1>7. h.win # FairTime /\ h.win <= FairTime
  BY <1>0, <1>2
<1>8. Backed(r, h, q, FairTime)
  BY <1>7 DEF Backed
<1>9. UsedIn(g, FairTime) <= UsedIn(h, FairTime) + (IF g.win = FairTime THEN n ELSE 0)
  BY <1>6, <1>7 DEF UsedIn, n
<1>10. CASE setup.async
  <2>1. PoolOK(q, FairTime)
    BY <1>0, <1>3, <1>10
  <2>2. Pardons(r, h, n, q)
    BY <1>0, <1>1, <1>2, <1>3, <1>6, <1>7, <1>9, <1>10, <2>1 DEF Pardons, q
  <2> QED BY <2>2, FairPardons
<1>11. CASE ~setup.async
  <2>1. q = Released(rpool, r) /\ releases' = releases
    BY <1>4, <1>11
  <2>2. /\ PoolOK(q, FairTime) /\ q.win = FairTime
        /\ rpool.win = FairTime => \A i \in FRegion : i # r => q.granted[i] = rpool.granted[i]
    BY <1>0, <2>1, PoolReleases
  <2>3. ASSUME NEW i \in FRegion, i # r PROVE Backed(i, region[i], q, FairTime)
    BY <1>5, <1>11, <2>2, <2>3 DEF Backed
  <2>4. Pardons(r, h, n, q)
    BY <1>0, <1>1, <1>2, <1>6, <1>7, <1>8, <1>9, <1>11, <2>1, <2>2, <2>3 DEF Pardons, q
  <2> QED BY <2>4, FairPardons
<1> QED BY <1>10, <1>11

LEMMA PoolReleaseKeeps ==
    ASSUME FairInv, NEW r \in FRegion, PoolRelease(r)
    PROVE  FairInv'
<1>0. /\ FairTypeOK /\ PoolOK(rpool, FairTime) /\ releases \in [FRegion -> Nat] /\ clears \in Nat /\ time \in 0..PoolTime
  BY FairTypes DEF FairInv
<1>1. /\ releases[r] > 0 /\ releases' = [releases EXCEPT ![r] = @ - 1] /\ (rpool' = rpool \/ rpool' = Released(rpool, r))
      /\ time' = time /\ setup' = setup /\ region' = region /\ turn' = turn /\ drawn' = drawn /\ clears' = clears
      /\ served' = served /\ pardoned' = pardoned /\ verdict' = verdict
  BY DEF PoolRelease
<1>2. ~Careful
  <2> SUFFICES ASSUME Careful PROVE FALSE
    OBVIOUS
  <2>1. releases[r] = 0
    BY DEF FairInv, FairBacked
  <2> QED BY <1>1, <2>1
<1>3. clears # 0 /\ ~Careful' /\ FairTime' = FairTime
  BY <1>1, <1>2 DEF Careful, FairTime
<1>4. PoolOK(rpool', FairTime)
  <2> DEFINE q == rpool'
  <2>1. CASE q = rpool
    BY <1>0, <2>1
  <2>2. CASE q = Released(rpool, r)
    <3> HIDE DEF q
    <3>1. PoolOK(q, FairTime)
      BY <1>0, <2>2, PoolReleases
    <3> QED BY <3>1 DEF q
  <2> QED BY <1>1, <2>1, <2>2
<1>5. releases' \in [FRegion -> Nat]
  <2>1. releases[r] \in Nat /\ releases[r] - 1 \in Nat
    BY <1>0, <1>1
  <2> QED BY <1>0, <1>1, <2>1
<1>6. FairTypeOK'
  <2>1. rpool' \in PoolType
    BY <1>4 DEF PoolOK
  <2> QED BY <1>0, <1>1, <1>5, <2>1 DEF FairTypeOK
<1>7. FairRegionsOK'
  BY <1>1, <1>3 DEF FairInv, FairRegionsOK
<1>8. FairTurnsOK'
  <2>1. \A i \in FRegion : TurnOK(i, region[i], turn[i], rpool, FairTime, clears)
    BY DEF FairInv, FairTurnsOK
  <2> QED BY <1>1, <1>3, <2>1 DEF FairTurnsOK, TurnOK
<1> QED BY <1>3, <1>4, <1>6, <1>7, <1>8 DEF FairInv

\* A tick may turn the page: what the regions had on their books is then history.
LEMMA FairTickKeeps ==
    ASSUME FairInv, FairTick
    PROVE  FairInv'
<1>0. /\ FairTypeOK /\ PoolOK(rpool, FairTime) /\ rpool \in PoolType /\ clears \in Nat /\ time \in 0..PoolTime
      /\ FairTime \in Nat /\ FairTime \in PWindows /\ PoolTime \in Nat /\ region \in [FRegion -> RegionType]
      /\ served \in [PWindows -> Nat] /\ pardoned \in [PWindows -> Nat] /\ rpool.win \in Int /\ GlobalLimit \in Nat
  BY FairTypes, FairWindowOf, FairOptions, PoolFields DEF FairInv, FairTime
<1>1. /\ time < PoolTime /\ time' = time + 1 /\ setup' = setup /\ rpool' = rpool /\ region' = region /\ turn' = turn
      /\ releases' = releases /\ drawn' = drawn /\ clears' = clears
      /\ served' = served /\ pardoned' = pardoned /\ verdict' = verdict
  BY DEF FairTick
<1>2. time' \in 0..PoolTime /\ time <= time'
  BY <1>0, <1>1
<1>3. FairTime' \in Nat /\ FairTime' \in PWindows /\ FairTime <= FairTime'
  <2> DEFINE c == time'
  <2>1. c \in 0..PoolTime /\ time <= c /\ FairTime' = PWindowOf(c)
    BY <1>2 DEF FairTime
  <2> HIDE DEF c
  <2>2. PWindowOf(c) \in Nat /\ PWindowOf(c) \in PWindows /\ PWindowOf(time) <= PWindowOf(c)
    BY <1>0, <2>1, FairWindowOf, FairWindowLater
  <2> QED BY <2>1, <2>2 DEF FairTime
<1> DEFINE d == FairTime'
<1>4. d \in Nat /\ d \in PWindows /\ FairTime <= d
  BY <1>3
<1>40. FairTime' = d /\ Careful' = Careful
  BY <1>1 DEF Careful
<1> HIDE DEF d
<1>5. FairTypeOK'
  BY <1>0, <1>1, <1>2 DEF FairTypeOK
<1>6. PoolOK(rpool, d)
  BY <1>0, <1>4 DEF PoolOK
<1>7. \A i \in FRegion : region[i] \in RegionType /\ region[i].win \in Int /\ region[i].win <= FairTime
  BY <1>0, RegionFields DEF FairInv, FairRegionsOK
<1>8. \A i \in FRegion : region[i].win <= d
  BY <1>0, <1>4, <1>7
<1>9. \A i \in FRegion : TurnOK(i, region[i], turn[i], rpool, d, clears)
  <2> SUFFICES ASSUME NEW i \in FRegion PROVE TurnOK(i, region[i], turn[i], rpool, d, clears)
    OBVIOUS
  <2>1. TurnOK(i, region[i], turn[i], rpool, FairTime, clears)
    BY DEF FairInv, FairTurnsOK
  <2>2. d = FairTime \/ region[i].win # d
    BY <1>0, <1>4, <1>7
  <2> QED BY <2>1, <2>2 DEF TurnOK
<1>10. ASSUME Careful PROVE \A i \in FRegion : Backed(i, region[i], rpool, d) /\ releases[i] = 0
  <2> SUFFICES ASSUME NEW i \in FRegion PROVE Backed(i, region[i], rpool, d) /\ releases[i] = 0
    OBVIOUS
  <2>1. Backed(i, region[i], rpool, FairTime) /\ releases[i] = 0
    BY <1>10 DEF FairInv, FairBacked
  <2>2. d = FairTime \/ region[i].win # d
    BY <1>0, <1>4, <1>7
  <2> QED BY <2>1, <2>2 DEF Backed
<1>11. ASSUME Careful PROVE LedgerOK(served, pardoned, Sum(Uses(region, d), NR), d)
  <2> DEFINE u == Sum(Uses(region, FairTime), NR)
             v == Sum(Uses(region, d), NR)
  <2>1. LedgerOK(served, pardoned, u, FairTime)
    BY <1>11 DEF FairInv, FairLedger
  <2>2. u \in Nat /\ u <= GlobalLimit
    <3>1. \A i \in FRegion : Backed(i, region[i], rpool, FairTime)
      BY <1>11 DEF FairInv, FairBacked
    <3> HIDE DEF FairTime
    <3> QED BY <1>0, <3>1, UsesBounded
  <2>3. v \in Nat
    BY <1>0, <1>4, <1>6, <1>10, <1>11, UsesBounded
  <2>4. CASE d = FairTime
    BY <2>1, <2>4
  <2>5. CASE d # FairTime
    <3> HIDE DEF u, v
    <3> SUFFICES ASSUME NEW w \in PWindows
                 PROVE  /\ w = d => served[w] <= v + pardoned[w]
                        /\ w < d => served[w] <= GlobalLimit + pardoned[w]
                        /\ w > d => served[w] = 0
      BY DEF LedgerOK, v
    <3>1. /\ w = FairTime => served[w] <= u + pardoned[w]
          /\ w < FairTime => served[w] <= GlobalLimit + pardoned[w]
          /\ w > FairTime => served[w] = 0
      BY <2>1 DEF LedgerOK
    <3>2. served[w] \in Nat /\ pardoned[w] \in Nat /\ w \in Nat
      BY <1>0 DEF PWindows
    <3> QED BY ONLY <1>0, <1>4, <2>2, <2>3, <2>5, <3>1, <3>2
  <2> QED BY <2>4, <2>5
<1>12. PoolOK(rpool, FairTime)' /\ FairRegionsOK' /\ FairTurnsOK'
  <2>1. FairTurnsOK'
    BY <1>1, <1>9, <1>40 DEF FairTurnsOK, TurnOK
  <2>2. FairRegionsOK'
    BY <1>1, <1>8, <1>40 DEF FairRegionsOK
  <2>3. PoolOK(rpool', FairTime')
    BY <1>1, <1>6, <1>40
  <2> QED BY <2>1, <2>2, <2>3
<1>13. Careful' => FairBacked' /\ FairLedger'
  BY <1>1, <1>10, <1>11, <1>40 DEF FairBacked, FairLedger
<1> QED BY <1>5, <1>12, <1>13 DEF FairInv
\* No pool, region or check is there to begin with.
LEMMA FairInitKeeps == FairInit => FairInv
<1> SUFFICES ASSUME FairInit PROVE FairInv
  OBVIOUS
<1>0. PoolTime \in Nat /\ GlobalLimit \in Nat /\ NR \in Nat /\ time = 0 /\ time \in 0..PoolTime /\ setup \in PoolPlans
  BY FairOptions DEF FairInit
<1>1. FairTime \in Nat /\ FairTime \in PWindows
  BY <1>0, FairWindowOf DEF FairTime
<1>2. rpool = EmptyPool(-1) /\ rpool \in PoolType /\ rpool.win = -1 /\ Sum(rpool.granted, NR) = 0
  <2>1. rpool = EmptyPool(-1)
    BY DEF FairInit
  <2> QED BY <2>1, EmptyPoolIs
<1>3. \A i \in FRegion : region[i] \in RegionType /\ region[i].win = -1 /\ UsedOf(region[i]) = 0
  <2>1. \A i \in FRegion : region[i] = EmptyRegion(-1)
    BY DEF FairInit
  <2> QED BY <2>1, EmptyRegionIs
<1>4. region \in [FRegion -> RegionType]
  <2>1. region = [i \in FRegion |-> region[i]]
    BY DEF FairInit
  <2> QED BY <1>3, <2>1
<1>5. /\ \A i \in FRegion : turn[i] = NoTurn /\ releases[i] = 0
      /\ turn \in [FRegion -> TurnType] /\ releases \in [FRegion -> Nat]
  BY NoTurnIs DEF FairInit
<1>6. /\ \A w \in PWindows : served[w] = 0 /\ pardoned[w] = 0
      /\ served \in [PWindows -> Nat] /\ pardoned \in [PWindows -> Nat]
  BY DEF FairInit
<1>7. FairTypeOK
  <2>1. drawn \in Nat /\ clears \in Nat /\ verdict \in [region : Nat, user : Nat, cost : Nat, allowed : BOOLEAN]
    BY DEF FairInit, NoVerdict
  <2> QED BY <1>0, <1>2, <1>4, <1>5, <1>6, <2>1 DEF FairTypeOK
<1>8. PoolOK(rpool, FairTime) /\ FairRegionsOK
  BY <1>0, <1>1, <1>2, <1>3 DEF PoolOK, FairRegionsOK
<1>9. FairTurnsOK
  <2>1. NoTurn \in TurnType /\ NoTurn.st = "none" /\ NoTurn.got <= GlobalLimit
    BY <1>0, NoTurnIs
  <2> QED BY <1>5, <2>1 DEF FairTurnsOK, TurnOK
<1>10. FairBacked
  BY <1>1, <1>3, <1>5 DEF FairBacked, Backed
<1>11. FairLedger
  <2> DEFINE u == Sum(Uses(region, FairTime), NR)
  <2>1. u \in Nat
    <3>1. \A i \in FRegion : Backed(i, region[i], rpool, FairTime)
      BY <1>10 DEF FairBacked
    <3> HIDE DEF FairTime
    <3> QED BY <1>1, <1>4, <1>8, <3>1, UsesBounded
  <2> HIDE DEF u
  <2> QED BY <1>0, <1>6, <2>1 DEF FairLedger, LedgerOK, u
<1> QED BY <1>7, <1>8, <1>9, <1>10, <1>11 DEF FairInv

LEMMA FairStepKeeps == FairInv /\ [FairNext]_fairVars => FairInv'
<1> SUFFICES ASSUME FairInv, [FairNext]_fairVars PROVE FairInv'
  OBVIOUS
<1>1. CASE UNCHANGED fairVars
  <2>1. /\ time' = time /\ setup' = setup /\ rpool' = rpool /\ region' = region /\ turn' = turn /\ releases' = releases
        /\ drawn' = drawn /\ clears' = clears /\ served' = served /\ pardoned' = pardoned /\ verdict' = verdict
    BY <1>1 DEF fairVars
  <2>2. FairTime' = FairTime /\ Careful' = Careful /\ FairTypeOK'
    BY <2>1 DEF FairTime, Careful, FairInv, FairTypeOK
  <2>3. PoolOK(rpool', FairTime') /\ FairRegionsOK' /\ FairBacked' = FairBacked /\ FairLedger' = FairLedger
    BY <2>1, <2>2 DEF FairInv, FairRegionsOK, FairBacked, FairLedger
  <2>4. FairTurnsOK'
    BY <2>1, <2>2 DEF FairInv, FairTurnsOK, TurnOK
  <2> QED BY <2>2, <2>3, <2>4 DEF FairInv
<1>2. ASSUME NEW r \in FRegion, NEW u \in FUser, NEW cost \in UserCosts, NEW w \in UserWeights,
             FairCheckSync(r, u, cost, w) \/ FairCheckAsync(r, u, cost, w)
      PROVE  FairInv'
  BY <1>2, SyncKeeps, AsyncKeeps
<1>3. ASSUME NEW r \in FRegion, NEW u \in FUser, ClearUser(r, u) PROVE FairInv'
  BY <1>3, ClearUserKeeps
<1>4. ASSUME NEW r \in FRegion, PoolGrant(r) \/ GrantArrives(r) \/ GrantFails(r) \/ ClearRegion(r) \/ PoolRelease(r)
      PROVE  FairInv'
  BY <1>4, PoolGrantKeeps, GrantArrivesKeeps, GrantFailsKeeps, ClearRegionKeeps, PoolReleaseKeeps
<1>5. CASE FairTick
  BY <1>5, FairTickKeeps
<1> QED BY <1>1, <1>2, <1>3, <1>4, <1>5 DEF FairNext

LEMMA FairInvCaps == FairInv => PoolWithinLimit /\ FederatedCap /\ FairTypeOK
<1> SUFFICES ASSUME FairInv PROVE PoolWithinLimit /\ FederatedCap /\ FairTypeOK
  OBVIOUS
<1>1. PoolWithinLimit /\ FairTypeOK
  BY DEF FairInv, PoolOK, PoolWithinLimit
<1>2. ASSUME Careful, NEW w \in PWindows PROVE served[w] <= GlobalLimit + pardoned[w]
  <2> DEFINE u == Sum(Uses(region, FairTime), NR)
  <2>0. /\ time \in 0..PoolTime /\ FairTime \in Nat /\ region \in [FRegion -> RegionType] /\ PoolOK(rpool, FairTime)
        /\ served \in [PWindows -> Nat] /\ pardoned \in [PWindows -> Nat] /\ GlobalLimit \in Nat
        /\ \A i \in FRegion : Backed(i, region[i], rpool, FairTime)
    BY <1>2, FairTypes, FairWindowOf, FairOptions DEF FairInv, FairTime, FairBacked
  <2>1. u \in Nat /\ u <= GlobalLimit
    <3> HIDE DEF FairTime
    <3> QED BY <2>0, UsesBounded
  <2> HIDE DEF u
  <2>2. /\ w = FairTime => served[w] <= u + pardoned[w]
        /\ w < FairTime => served[w] <= GlobalLimit + pardoned[w]
        /\ w > FairTime => served[w] = 0
    BY <1>2 DEF FairInv, FairLedger, LedgerOK, u
  <2>3. w \in Nat /\ served[w] \in Nat /\ pardoned[w] \in Nat
    BY <2>0 DEF PWindows
  <2> QED BY ONLY <2>0, <2>1, <2>2, <2>3
<1> QED BY <1>1, <1>2 DEF FederatedCap, Careful

\* federatedWeightedFairEscrow(), in both deployments: what a region may admit in a window is
\* within a budget the pool still backs, as long as no grant or release outlives a reset(), and
\* a window has answered no more than its regions book and its resets pardon.
THEOREM FederationInvariant == FairSpec => []FairInv
BY FairInitKeeps, FairStepKeeps, PTL DEF FairSpec

\* grant() and release() of the region pool: the grants of all regions never exceed the limit,
\* whatever weights they report and however rolls and late releases fall between them.
THEOREM PoolNeverOvercommits == FairSpec => []PoolWithinLimit
BY FederationInvariant, FairInvCaps, PTL

\* The lease loop of ensureRegionBudget() and decide(): together the regions admit at most the
\* limit in a window, plus only what a reset() forgave.
THEOREM FederationCapHolds == FairSpec => []FederatedCap
BY FederationInvariant, FairInvCaps, PTL

\* A behaviour of the run is one of the federation.
LEMMA FederationStep == ASSUME [Next]_<<subject, escrowVars, fairVars, sketchVars, denyVars>> PROVE [FairNext]_fairVars
BY DEF Next

\* Both hard caps of the fair escrows, and the ranges of their budgets, grants and counters:
\* weightedFairEscrow() with and without an L2, federatedWeightedFairEscrow() with a pool in the
\* process and in a store.
THEOREM BothCapsHold == Spec => []FairCapsHold
<1>1. Init => FairInv
  BY FairInitKeeps DEF Init
<1>2. FairInv /\ [Next]_<<subject, escrowVars, fairVars, sketchVars, denyVars>> => FairInv'
  BY FairStepKeeps, FederationStep
<1>3. EscrowInv /\ FairInv => FairCapsHold
  BY InvCap, FairInvCaps DEF FairCapsHold, EscrowInv
<1> QED BY <1>1, <1>2, <1>3, RegionInvariant, PTL DEF Spec
----------------------------------------------------------------------------
(* Sketch *)

Tables == [Cells -> 0..MaxCell]
Truths == [Keys -> Nat]
HashOK == hash \in [Rows -> [Keys -> Cols]]
\* Every counter of a key has seen what the key was admitted, and no key was admitted past the limit.
Above(t, m) == \A k \in Keys : m[k] <= SketchLimit /\ \A c \in CellsOf(k) : m[k] <= t[c]
\* A table is the one that a single sketch of the whole stream would be.
Sees(t, m) == \A c \in Cells : t[c] = SmallerOf(MaxCell, Sum(Hits(m, c), NKeys))
SketchInv ==
    /\ HashOK /\ steps \in 0..MaxAdds
    /\ table \in Tables /\ admitted \in Truths /\ Above(table, admitted)
    /\ sketch \in [Peers -> Tables] /\ stream \in [Peers -> Truths]
    /\ \A p \in Peers : Sees(sketch[p], stream[p])
    /\ \A s \in post : s.cells \in Tables /\ s.counts \in Truths /\ Sees(s.cells, s.counts)

LEMMA SketchOptions ==
    /\ NKeys \in Nat /\ MaxCell \in Nat /\ SketchLimit \in Nat /\ MaxAdds \in Nat /\ Counts \subseteq Nat
    /\ Rows # {} /\ Keys = 1..NKeys
BY SketchAssumption DEF Keys

LEMMA CellsOfKey ==
    ASSUME HashOK, NEW k \in Keys
    PROVE  /\ CellsOf(k) \subseteq Cells /\ CellsOf(k) # {}
           /\ \A c \in Cells : c \in CellsOf(k) <=> hash[c[1]][k] = c[2]
<1>1. \A r \in Rows : hash[r][k] \in Cols
  BY DEF HashOK
<1>2. CellsOf(k) \subseteq Cells
  BY <1>1 DEF CellsOf, Cells
<1>3. CellsOf(k) # {}
  BY SketchOptions DEF CellsOf
<1>4. ASSUME NEW c \in Cells PROVE c \in CellsOf(k) <=> hash[c[1]][k] = c[2]
  <2>1. c[1] \in Rows /\ c[2] \in Cols /\ c = <<c[1], c[2]>>
    BY DEF Cells
  <2> QED BY <2>1 DEF CellsOf
<1> QED BY <1>2, <1>3, <1>4

\* The estimate is the least counter of the key.
LEMMA EstimateIs ==
    ASSUME HashOK, NEW t \in Tables, NEW k \in Keys
    PROVE  /\ Estimate(t, k) \in Nat
           /\ \A c \in CellsOf(k) : Estimate(t, k) <= t[c]
           /\ \E c \in CellsOf(k) : Estimate(t, k) = t[c]
<1> DEFINE T == {t[c] : c \in CellsOf(k)}
           e == Min(T)
<1>1. /\ CellsOf(k) # {} /\ \A c \in CellsOf(k) : t[c] \in Nat
  BY CellsOfKey, SketchOptions DEF Tables
<1>2. T \in SUBSET Nat /\ T # {}
  BY <1>1
<1>3. \E x \in T : \A y \in T : x <= y
  <2> HIDE DEF T
  <2> QED BY ONLY <1>2, LeastElement
<1>4. e \in T /\ \A y \in T : e <= y
  <2> HIDE DEF T
  <2> QED BY <1>3 DEF Min
<1>5. Estimate(t, k) = e
  BY DEF Estimate
<1> HIDE DEF e
<1> QED BY <1>1, <1>2, <1>4, <1>5

LEMMA SaturatedIs ==
    ASSUME NEW n \in Nat
    PROVE  /\ Saturated(n) \in 0..MaxCell /\ Saturated(n) <= n
           /\ n <= MaxCell => Saturated(n) = n
           /\ Saturated(n) = SmallerOf(MaxCell, n)
BY SketchOptions DEF Saturated, SmallerOf

\* An update raises the counters of its key by what it counts, or to the target, and lowers none.
LEMMA AddedIs ==
    ASSUME HashOK, NEW t \in Tables, NEW k \in Keys, NEW n \in Nat, SketchLimit <= MaxCell, Fits(t, k, n),
           NEW u, u = Added(t, k, n)
    PROVE  /\ u \in Tables /\ \A c \in Cells : t[c] <= u[c]
           /\ \A c \in CellsOf(k) : Estimate(t, k) + n <= u[c]
<1> DEFINE e == Estimate(t, k)
<1>1. e \in Nat /\ \A c \in CellsOf(k) : e <= t[c]
  BY EstimateIs
<1>2. e + n <= SketchLimit
  BY DEF Fits
<1> HIDE DEF e
<1>3. \A c \in Cells : t[c] \in 0..MaxCell
  BY DEF Tables
<1>4. CellsOf(k) \subseteq Cells /\ MaxCell \in Nat /\ SketchLimit \in Nat
  BY CellsOfKey, SketchOptions
<1>5. e + n <= MaxCell /\ e + n \in Nat
  BY <1>1, <1>2, <1>4
<1>6. CASE careful
  <2>1. u = [c \in Cells |-> IF c \in CellsOf(k) /\ t[c] < Saturated(e + n) THEN Saturated(e + n) ELSE t[c]]
    BY <1>6 DEF Added, AddCareful, e
  <2>2. Saturated(e + n) = e + n
    BY <1>5, SaturatedIs
  <2>3. \A c \in Cells : u[c] = IF c \in CellsOf(k) /\ t[c] < e + n THEN e + n ELSE t[c]
    BY <2>1, <2>2
  <2>4. \A c \in Cells : u[c] \in 0..MaxCell /\ t[c] <= u[c] /\ (c \in CellsOf(k) => e + n <= u[c])
    BY <1>3, <1>4, <1>5, <2>3
  <2>5. u = [c \in Cells |-> u[c]]
    BY <2>1
  <2>6. u \in Tables
    BY <2>4, <2>5 DEF Tables
  <2> QED BY <1>4, <2>4, <2>6 DEF e
<1>7. CASE ~careful
  <2>1. u = [c \in Cells |-> IF c \in CellsOf(k) THEN Saturated(t[c] + n) ELSE t[c]]
    BY <1>7 DEF Added, AddPlain
  <2>2. ASSUME NEW c \in Cells
        PROVE  u[c] \in 0..MaxCell /\ t[c] <= u[c] /\ (c \in CellsOf(k) => e + n <= u[c])
    <3>1. t[c] \in Nat /\ t[c] <= MaxCell /\ u[c] = IF c \in CellsOf(k) THEN Saturated(t[c] + n) ELSE t[c]
      BY <1>3, <1>4, <2>1
    <3>2. CASE c \in CellsOf(k)
      <4>1. u[c] = SmallerOf(MaxCell, t[c] + n) /\ e <= t[c]
        BY <1>1, <3>1, <3>2, SaturatedIs
      <4> QED BY <1>4, <1>5, <1>1, <3>1, <4>1 DEF SmallerOf
    <3>3. CASE c \notin CellsOf(k)
      BY <1>3, <3>1, <3>3
    <3> QED BY <3>2, <3>3
  <2>3. u = [c \in Cells |-> u[c]]
    BY <2>1
  <2>4. u \in Tables
    BY <2>2, <2>3 DEF Tables
  <2> QED BY <1>4, <2>2, <2>4 DEF e
<1> QED BY <1>6, <1>7

LEMMA AddedAbove ==
    ASSUME HashOK, NEW t \in Tables, NEW m \in Truths, Above(t, m), NEW k \in Keys, NEW n \in Nat, SketchLimit <= MaxCell,
           Fits(t, k, n), NEW u, u = Added(t, k, n), NEW a, a = [m EXCEPT ![k] = @ + n]
    PROVE  u \in Tables /\ a \in Truths /\ Above(u, a)
<1> DEFINE e == Estimate(t, k)
<1>1. /\ u \in Tables /\ \A c \in Cells : t[c] <= u[c]
      /\ \A c \in CellsOf(k) : e + n <= u[c]
  BY AddedIs
<1>2. e \in Nat /\ (\E c \in CellsOf(k) : e = t[c]) /\ e + n <= SketchLimit
  BY EstimateIs DEF Fits
<1> HIDE DEF e
<1>3. a \in Truths /\ a[k] = m[k] + n /\ m[k] \in Nat /\ \A j \in Keys : j # k => a[j] = m[j]
  BY DEF Truths
<1>4. m[k] <= e
  BY <1>2 DEF Above
<1>5. SketchLimit \in Nat
  BY SketchOptions
<1>6. ASSUME NEW j \in Keys, NEW c \in CellsOf(j) PROVE a[j] <= SketchLimit /\ a[j] <= u[c]
  <2>1. c \in Cells
    BY <1>6, CellsOfKey
  <2>2. t[c] \in Nat /\ u[c] \in Nat /\ t[c] <= u[c]
    BY <1>1, <2>1, SketchOptions DEF Tables
  <2>3. CASE j = k
    BY <1>1, <1>2, <1>3, <1>4, <1>5, <2>2, <2>3, <1>6
  <2>4. CASE j # k
    <3>1. a[j] = m[j] /\ m[j] \in Nat /\ m[j] <= SketchLimit /\ m[j] <= t[c]
      BY <1>3, <1>6, <2>4 DEF Above, Truths
    <3> QED BY <2>2, <3>1
  <2> QED BY <2>3, <2>4
<1>7. \A j \in Keys : \E c \in CellsOf(j) : TRUE
  BY CellsOfKey
<1>8. Above(u, a)
  BY <1>6, <1>7 DEF Above
<1> QED BY <1>1, <1>3, <1>8
\* What falls on a counter, when a key is counted once more and when two streams are joined.
LEMMA HitsAre ==
    ASSUME HashOK, NEW m \in Truths, NEW c \in Cells
    PROVE  /\ Sum(Hits(m, c), NKeys) \in Nat
           /\ \A k \in Keys : Hits(m, c)[k] \in Nat /\ Hits(m, c)[k] = IF hash[c[1]][k] = c[2] THEN m[k] ELSE 0
<1> DEFINE f == Hits(m, c)
<1>1. \A k \in Keys : f[k] = (IF hash[c[1]][k] = c[2] THEN m[k] ELSE 0) /\ m[k] \in Nat
  BY DEF Hits, Truths
<1>2. \A k \in Keys : f[k] \in Nat
  BY <1>1
<1> HIDE DEF f
<1>3. NKeys \in Nat /\ \A k \in 1..NKeys : f[k] \in Nat
  BY <1>2, SketchOptions
<1>4. Sum(f, NKeys) \in Nat
  BY ONLY <1>3, SumNat
<1> QED BY <1>1, <1>2, <1>4 DEF f

LEMMA NothingSeen ==
    ASSUME HashOK
    PROVE  Empty \in Tables /\ Nothing \in Truths /\ Sees(Empty, Nothing)
<1>1. Empty \in Tables /\ Nothing \in Truths
  BY SketchOptions DEF Tables, Truths, Empty, Nothing
<1>2. ASSUME NEW c \in Cells PROVE Empty[c] = SmallerOf(MaxCell, Sum(Hits(Nothing, c), NKeys))
  <2> DEFINE f == Hits(Nothing, c)
  <2>1. NKeys \in Nat /\ \A k \in 1..NKeys : f[k] = 0
    BY SketchOptions DEF Hits, Nothing
  <2> HIDE DEF f
  <2>2. Sum(f, NKeys) = 0
    BY ONLY <2>1, SumZero
  <2> QED BY <2>2, SketchOptions DEF f, Empty, SmallerOf
<1> QED BY <1>1, <1>2 DEF Sees

LEMMA AddSeen ==
    ASSUME HashOK, NEW t \in Tables, NEW m \in Truths, Sees(t, m), NEW k \in Keys, NEW n \in Nat,
           NEW u, u = AddPlain(t, k, n), NEW a, a = [m EXCEPT ![k] = @ + n]
    PROVE  u \in Tables /\ a \in Truths /\ Sees(u, a)
<1>1. a \in Truths /\ a[k] = m[k] + n /\ m[k] \in Nat /\ \A j \in Keys : j # k => a[j] = m[j]
  BY DEF Truths
<1>2. ASSUME NEW c \in Cells PROVE u[c] \in 0..MaxCell /\ u[c] = SmallerOf(MaxCell, Sum(Hits(a, c), NKeys))
  <2> DEFINE f == Hits(m, c)
             g == Hits(a, c)
             on == hash[c[1]][k] = c[2]
  <2>1. /\ \A j \in Keys : f[j] \in Nat /\ g[j] \in Nat
        /\ \A j \in Keys : j # k => g[j] = f[j]
        /\ on => g[k] = f[k] + n
        /\ ~on => g[k] = f[k]
        /\ Sum(f, NKeys) \in Nat
    <3>1. \A j \in Keys : f[j] = IF hash[c[1]][j] = c[2] THEN m[j] ELSE 0
      BY DEF Hits
    <3>2. \A j \in Keys : g[j] = IF hash[c[1]][j] = c[2] THEN a[j] ELSE 0
      BY DEF Hits
    <3>3. Sum(f, NKeys) \in Nat /\ \A j \in Keys : f[j] \in Nat
      BY HitsAre
    <3>4. \A j \in Keys : g[j] \in Nat
      BY <1>1, HitsAre
    <3> HIDE DEF f, g
    <3>5. \A j \in Keys : j # k => g[j] = f[j]
      BY <1>1, <3>1, <3>2
    <3>6. (on => g[k] = f[k] + n) /\ (~on => g[k] = f[k])
      BY <1>1, <3>1, <3>2
    <3> QED BY <3>3, <3>4, <3>5, <3>6
  <2>2. t[c] = SmallerOf(MaxCell, Sum(f, NKeys)) /\ t[c] \in 0..MaxCell
    BY DEF Sees, Tables
  <2>3. u[c] = IF on THEN Saturated(t[c] + n) ELSE t[c]
    BY CellsOfKey DEF AddPlain
  <2>4. MaxCell \in Nat /\ NKeys \in Nat
    BY SketchOptions
  <2> HIDE DEF f, g, on
  <2>5. Sum(g, NKeys) = Sum(f, NKeys) - f[k] + g[k]
    <3>1. /\ \A j \in 1..NKeys : f[j] \in Int /\ g[j] \in Int
          /\ \A j \in 1..NKeys : j # k => f[j] = g[j]
          /\ NKeys \in Nat /\ k \in 1..NKeys
      BY <2>1, SketchOptions
    <3> QED BY ONLY <3>1, SumUpdate
  <2>6. f[k] \in Nat
    BY <2>1
  <2>7. CASE on
    <3>1. Sum(g, NKeys) = Sum(f, NKeys) + n
      BY <2>1, <2>5, <2>6, <2>7
    <3>2. u[c] \in 0..MaxCell /\ u[c] = SmallerOf(MaxCell, t[c] + n)
      BY <2>2, <2>3, <2>4, <2>7, SaturatedIs
    <3> QED BY <2>1, <2>2, <2>4, <3>1, <3>2 DEF SmallerOf, g
  <2>8. CASE ~on
    <3>1. Sum(g, NKeys) = Sum(f, NKeys)
      BY <2>1, <2>5, <2>6, <2>8
    <3> QED BY <2>2, <2>3, <2>8, <3>1 DEF g
  <2> QED BY <2>7, <2>8
<1>3. u = [c \in Cells |-> u[c]]
  BY DEF AddPlain
<1>4. u \in Tables
  BY <1>2, <1>3 DEF Tables
<1> QED BY <1>1, <1>2, <1>4 DEF Sees

\* A merge is counter for counter the sketch of both streams: saturation loses nothing more.
LEMMA MergeSeen ==
    ASSUME HashOK, NEW t \in Tables, NEW m \in Truths, Sees(t, m), NEW s \in Tables, NEW l \in Truths, Sees(s, l),
           NEW u, u = Merged(t, s), NEW a, a = [k \in Keys |-> m[k] + l[k]]
    PROVE  u \in Tables /\ a \in Truths /\ Sees(u, a)
<1>1. a \in Truths /\ \A k \in Keys : a[k] = m[k] + l[k] /\ m[k] \in Nat /\ l[k] \in Nat
  BY DEF Truths
<1>2. ASSUME NEW c \in Cells PROVE u[c] \in 0..MaxCell /\ u[c] = SmallerOf(MaxCell, Sum(Hits(a, c), NKeys))
  <2> DEFINE f == Hits(m, c)
             g == Hits(l, c)
             h == Hits(a, c)
             x == Sum(f, NKeys)
             y == Sum(g, NKeys)
             z == Sum(h, NKeys)
  <2>1. x \in Nat /\ y \in Nat /\ \A k \in Keys : f[k] \in Nat /\ g[k] \in Nat /\ h[k] = f[k] + g[k]
    <3>1. x \in Nat /\ y \in Nat /\ \A k \in Keys : f[k] \in Nat /\ g[k] \in Nat
      BY HitsAre
    <3>2. ASSUME NEW k \in Keys PROVE h[k] = f[k] + g[k]
      BY <1>1 DEF Hits
    <3> QED BY <3>1, <3>2
  <2>2. t[c] = SmallerOf(MaxCell, x) /\ s[c] = SmallerOf(MaxCell, y) /\ t[c] \in 0..MaxCell /\ s[c] \in 0..MaxCell
    BY DEF Sees, Tables
  <2>3. u[c] = Saturated(t[c] + s[c])
    BY DEF Merged
  <2>4. MaxCell \in Nat /\ NKeys \in Nat
    BY SketchOptions
  <2> HIDE DEF f, g, h
  <2>5. z = x + y
    <3>1. NKeys \in Nat /\ \A k \in 1..NKeys : f[k] \in Int /\ g[k] \in Int /\ h[k] = f[k] + g[k]
      BY <2>1, SketchOptions
    <3> QED BY ONLY <3>1, SumPlus
  <2>6. Sum(Hits(a, c), NKeys) = z
    BY DEF h
  <2> HIDE DEF x, y, z
  <2>7. u[c] \in 0..MaxCell /\ u[c] = SmallerOf(MaxCell, t[c] + s[c])
    BY <2>2, <2>3, <2>4, SaturatedIs
  <2> QED BY <2>1, <2>2, <2>4, <2>5, <2>6, <2>7 DEF SmallerOf
<1>3. u = [c \in Cells |-> u[c]]
  BY DEF Merged
<1>4. u \in Tables
  BY <1>2, <1>3 DEF Tables
<1> QED BY <1>1, <1>2, <1>4 DEF Sees

LEMMA SketchInitKeeps == SketchInit => SketchInv
<1> SUFFICES ASSUME SketchInit PROVE SketchInv
  OBVIOUS
<1>1. HashOK /\ steps \in 0..MaxAdds /\ table = Empty /\ admitted = Nothing /\ post = {}
  BY SketchOptions DEF SketchInit, HashOK
<1>2. Empty \in Tables /\ Nothing \in Truths /\ Sees(Empty, Nothing)
  BY <1>1, NothingSeen
<1>3. Above(Empty, Nothing)
  <2>1. ASSUME NEW k \in Keys, NEW c \in CellsOf(k) PROVE Nothing[k] <= Empty[c]
    BY <1>1, <2>1, CellsOfKey DEF Nothing, Empty
  <2> QED BY <2>1, SketchOptions DEF Above, Nothing
<1>4. /\ sketch \in [Peers -> Tables] /\ stream \in [Peers -> Truths]
      /\ \A p \in Peers : sketch[p] = Empty /\ stream[p] = Nothing
  BY <1>2 DEF SketchInit
<1> QED BY <1>1, <1>2, <1>3, <1>4 DEF SketchInv

\* What the limiter does: its table covers what it admitted, the peers stand still.
LEMMA LimiterKeeps ==
    ASSUME SketchInv, SketchLimit <= MaxCell, LimiterNext
    PROVE  SketchInv'
<1> DEFINE Rest == /\ sketch \in [Peers -> Tables] /\ stream \in [Peers -> Truths]
                   /\ \A p \in Peers : Sees(sketch[p], stream[p])
                   /\ \A s \in post : s.cells \in Tables /\ s.counts \in Truths /\ Sees(s.cells, s.counts)
<1>0. HashOK /\ Rest /\ table \in Tables /\ admitted \in Truths /\ Above(table, admitted) /\ steps \in 0..MaxAdds
  BY DEF SketchInv
<1>1. hash' = hash /\ careful' = careful /\ sketch' = sketch /\ stream' = stream /\ post' = post
  BY DEF LimiterNext, CheckSketch, ResetSketch, SketchTick
<1>2. /\ HashOK' /\ Rest'
      /\ table' \in Tables /\ admitted' \in Truths /\ Above(table', admitted') /\ steps' \in 0..MaxAdds => SketchInv'
  BY <1>0, <1>1 DEF SketchInv, HashOK, Above, CellsOf, Sees, Hits
<1> HIDE DEF Rest
<1>3. Empty \in Tables /\ Nothing \in Truths /\ Above(Empty, Nothing)
  <2>1. ASSUME NEW k \in Keys, NEW c \in CellsOf(k) PROVE Nothing[k] <= Empty[c]
    BY <1>0, <2>1, CellsOfKey DEF Nothing, Empty
  <2> QED BY <1>0, <2>1, NothingSeen, SketchOptions DEF Above, Nothing
<1>4. ASSUME NEW k \in Keys, NEW n \in Counts, CheckSketch(k, n)
      PROVE  table' \in Tables /\ admitted' \in Truths /\ Above(table', admitted') /\ steps' \in 0..MaxAdds
  <2> DEFINE t == IF Rolls THEN Empty ELSE table
             m == IF Rolls THEN Nothing ELSE admitted
  <2>1. t \in Tables /\ m \in Truths /\ Above(t, m)
    BY <1>0, <1>3
  <2>2. /\ steps < MaxAdds /\ steps' = steps + 1
        /\ table' = IF Fits(t, k, n) THEN Added(t, k, n) ELSE t
        /\ admitted' = IF Fits(t, k, n) THEN [m EXCEPT ![k] = @ + n] ELSE m
    BY <1>4 DEF CheckSketch
  <2> HIDE DEF t, m
  <2>3. steps' \in 0..MaxAdds /\ n \in Nat
    BY <1>0, <2>2, SketchOptions
  <2>4. CASE Fits(t, k, n)
    <3> DEFINE u == table'
               a == admitted'
    <3>1. u = Added(t, k, n) /\ a = [m EXCEPT ![k] = @ + n]
      BY <2>2, <2>4
    <3> HIDE DEF u, a
    <3>2. u \in Tables /\ a \in Truths /\ Above(u, a)
      BY <1>0, <2>1, <2>3, <2>4, <3>1, AddedAbove
    <3> QED BY <2>3, <3>2 DEF u, a
  <2>5. CASE ~Fits(t, k, n)
    BY <2>1, <2>2, <2>3, <2>5
  <2> QED BY <2>4, <2>5
<1>5. CASE ResetSketch
  BY <1>0, <1>2, <1>3, <1>5 DEF ResetSketch
<1>6. CASE SketchTick
  BY <1>0, <1>2, <1>6 DEF SketchTick
<1>7. ASSUME NEW k \in Keys, NEW n \in Counts, CheckSketch(k, n) PROVE SketchInv'
  BY <1>2, <1>4, <1>7
<1> QED BY <1>5, <1>6, <1>7 DEF LimiterNext
\* What the mergeable form does: each table remains the sketch of its stream, and so does every
\* snapshot, however late it comes; the limiter stands still.
LEMMA MergeKeeps ==
    ASSUME SketchInv, MergeNext
    PROVE  SketchInv'
<1> DEFINE Right(t, m) == t \in Tables /\ m \in Truths /\ Sees(t, m)
           AllRight(k, m) == /\ k \in [Peers -> Tables] /\ m \in [Peers -> Truths]
                             /\ \A p \in Peers : Right(k[p], m[p])
           PostRight(b) == \A s \in b : Right(s.cells, s.counts)
<1>1. HashOK /\ steps \in 0..MaxAdds /\ AllRight(sketch, stream) /\ PostRight(post)
  BY DEF SketchInv
<1>2. hash' = hash /\ table' = table /\ admitted' = admitted
  BY DEF MergeNext, AddAt, Ship, MergeAt, ClearAt
<1>3. (steps' \in 0..MaxAdds /\ AllRight(sketch, stream)' /\ PostRight(post)') => SketchInv'
  BY <1>2 DEF SketchInv, HashOK, Above, CellsOf, Sees, Hits
<1>4. (AllRight(sketch', stream') <=> AllRight(sketch, stream)') /\ (PostRight(post') <=> PostRight(post)')
  BY <1>2 DEF Sees, Hits
<1> HIDE DEF AllRight, PostRight, Right
<1>5. ASSUME NEW p \in Peers, NEW t, NEW m, Right(t, m), sketch' = [sketch EXCEPT ![p] = t], stream' = [stream EXCEPT ![p] = m]
      PROVE  AllRight(sketch', stream')
  BY <1>1, <1>5 DEF AllRight, Right
<1>6. steps < MaxAdds /\ steps' = steps + 1 => steps' \in 0..MaxAdds
  BY <1>1, SketchOptions
<1>7. ASSUME NEW p \in Peers PROVE sketch[p] \in Tables /\ stream[p] \in Truths /\ Sees(sketch[p], stream[p])
  BY <1>1 DEF AllRight, Right
<1>8. ASSUME NEW p \in Peers, NEW k \in Keys, NEW n \in Counts, AddAt(p, k, n) PROVE SketchInv'
  <2> DEFINE t == AddPlain(sketch[p], k, n)
             m == [stream[p] EXCEPT ![k] = @ + n]
  <2>1. /\ steps < MaxAdds /\ steps' = steps + 1 /\ post' = post
        /\ sketch' = [sketch EXCEPT ![p] = t] /\ stream' = [stream EXCEPT ![p] = m]
    BY <1>8 DEF AddAt
  <2>2. Right(t, m)
    BY <1>1, <1>7, SketchOptions, AddSeen DEF Right
  <2> HIDE DEF t, m
  <2>3. AllRight(sketch', stream')
    BY <1>5, <2>1, <2>2
  <2> QED BY <1>1, <1>3, <1>4, <1>6, <2>1, <2>3
<1>9. ASSUME NEW p \in Peers, Ship(p) PROVE SketchInv'
  <2> DEFINE e == [cells |-> sketch[p], counts |-> stream[p]]
  <2>1. /\ steps < MaxAdds /\ steps' = steps + 1 /\ sketch' = sketch /\ stream' = stream
        /\ post' = post \cup {e}
    BY <1>9 DEF Ship
  <2>2. Right(e.cells, e.counts)
    BY <1>7 DEF Right
  <2> HIDE DEF e
  <2>3. PostRight(post')
    BY <1>1, <2>1, <2>2 DEF PostRight
  <2> QED BY <1>1, <1>3, <1>4, <1>6, <2>1, <2>3
<1>10. ASSUME NEW p \in Peers, NEW s \in post, MergeAt(p, s) PROVE SketchInv'
  <2> DEFINE t == Merged(sketch[p], s.cells)
             m == [k \in Keys |-> stream[p][k] + s.counts[k]]
  <2>1. /\ steps < MaxAdds /\ steps' = steps + 1 /\ post' = post
        /\ sketch' = [sketch EXCEPT ![p] = t] /\ stream' = [stream EXCEPT ![p] = m]
    BY <1>10 DEF MergeAt
  <2>2. s.cells \in Tables /\ s.counts \in Truths /\ Sees(s.cells, s.counts)
    BY <1>1, <1>10 DEF PostRight, Right
  <2>3. Right(t, m)
    BY <1>1, <1>7, <2>2, MergeSeen DEF Right
  <2> HIDE DEF t, m
  <2>4. AllRight(sketch', stream')
    BY <1>5, <2>1, <2>3
  <2> QED BY <1>1, <1>3, <1>4, <1>6, <2>1, <2>4
<1>11. ASSUME NEW p \in Peers, ClearAt(p) PROVE SketchInv'
  <2>1. /\ steps' = steps /\ post' = post
        /\ sketch' = [sketch EXCEPT ![p] = Empty] /\ stream' = [stream EXCEPT ![p] = Nothing]
    BY <1>11 DEF ClearAt
  <2>2. Right(Empty, Nothing)
    BY <1>1, NothingSeen DEF Right
  <2>3. AllRight(sketch', stream')
    BY <1>5, <2>1, <2>2
  <2> QED BY <1>1, <1>3, <1>4, <2>1, <2>3
<1> QED BY <1>8, <1>9, <1>10, <1>11 DEF MergeNext

LEMMA SketchInvSafe ==
    ASSUME SketchInv
    PROVE  SketchTypeOK /\ SketchNeverUnder
<1>1. /\ HashOK /\ table \in Tables /\ admitted \in Truths /\ Above(table, admitted)
      /\ sketch \in [Peers -> Tables] /\ steps \in 0..MaxAdds
  BY DEF SketchInv
<1>2. ASSUME NEW k \in Keys PROVE Estimate(table, k) >= admitted[k] /\ admitted[k] <= SketchLimit
  <2> DEFINE e == Estimate(table, k)
  <2>1. e \in Nat /\ \E c \in CellsOf(k) : e = table[c]
    BY <1>1, EstimateIs
  <2> HIDE DEF e
  <2>2. admitted[k] \in Nat /\ admitted[k] <= SketchLimit /\ \A c \in CellsOf(k) : admitted[k] <= table[c]
    BY <1>1 DEF Above, Truths
  <2>3. e >= admitted[k]
    BY <2>1, <2>2
  <2> QED BY <2>2, <2>3 DEF e
<1>3. \A p \in Peers, c \in Cells : sketch[p][c] = SmallerOf(MaxCell, Sum(Hits(stream[p], c), NKeys))
  BY DEF SketchInv, Sees
<1>4. SketchTypeOK
  BY <1>1 DEF SketchTypeOK, Tables
<1> QED BY <1>2, <1>3, <1>4 DEF SketchNeverUnder----------------------------------------------------------------------------
(* CachedDeny *)

Denial == [key : DenyKeys, until : Int, cost : Nat]
CheckType ==
    [st : {"new", "asking", "cached", "allowed", "denied", "refused", "failed"},
     key : DenyKeys \cup {"none"}, cost : Nat, at : Nat, wait : Int]
UsedType == [DenyKeys -> [w : Nat, n : 0..DenyLimit]]
\* What a check caches when its denial comes back.
DenialOf(q) == [key |-> q.key, until |-> Until(q), cost |-> q.cost]
\* At time t, with these counts and these keys whose count was thrown away, L2 would repeat the denial.
Repeats(t, us, gone, e) ==
    /\ t < e.until => e.key \in gone \/ (IF us[e.key].w = WindowNo(t) THEN us[e.key].n ELSE 0) + e.cost > DenyLimit
    /\ e.until <= (WindowNo(t) + 1) * DenyWindow
\* A denial on its way back is already one L2 would repeat.
OnItsWay(t, us, gone, q) ==
    q.st \in {"asking", "denied"} => /\ q.key \in DenyKeys /\ q.at <= t
                                     /\ q.st = "denied" => Repeats(t, us, gone, DenialOf(q))
OnePerKey(s) == \A i, j \in DOMAIN s : s[i].key = s[j].key => i = j
KeptRight(s, t, us, gone) ==
    /\ s \in Seq(Denial) /\ Len(s) <= MaxDenials /\ OnePerKey(s)
    /\ \A i \in DOMAIN s : Repeats(t, us, gone, s[i])
DenyInv ==
    /\ now \in 0..DenySpan /\ used \in UsedType
    /\ KeptRight(kept, now, used, unmade)
    /\ chk \in [Checks -> CheckType] /\ \A c \in Checks : OnItsWay(now, used, unmade, chk[c])

LEMMA DenyOptions ==
    DenyLimit \in Nat /\ DenySpan \in Nat /\ DenyWindow \in Nat \ {0} /\ MaxDenials \in Nat \ {0} /\ DenyCosts \subseteq Nat
BY DenyAssumption

\* The window of a time, and where it ends.
LEMMA WindowIs ==
    ASSUME NEW t \in Nat
    PROVE  WindowNo(t) \in Nat /\ WindowNo(t) * DenyWindow <= t /\ t < (WindowNo(t) + 1) * DenyWindow
<1> DEFINE d == DenyWindow
           p == t \div d
<1>1. d \in Nat \ {0}
  BY DenyOptions
<1> HIDE DEF d
<1>2. p \in Nat /\ d * p <= t /\ t < d * p + d
  BY <1>1
<1> HIDE DEF p
<1>3. d * p = p * d /\ (p + 1) * d = d * p + d
  BY <1>1, <1>2
<1>4. WindowNo(t) = p
  BY DEF WindowNo, p, d
<1> QED BY <1>2, <1>3, <1>4 DEF d

LEMMA WindowEndsLater ==
    ASSUME NEW t \in Nat, NEW v \in Nat, t <= v
    PROVE  /\ WindowNo(t) <= WindowNo(v)
           /\ (WindowNo(t) + 1) * DenyWindow <= (WindowNo(v) + 1) * DenyWindow
           /\ v < (WindowNo(t) + 1) * DenyWindow => WindowNo(v) = WindowNo(t)
<1> DEFINE p == WindowNo(t)
           q == WindowNo(v)
           d == DenyWindow
<1>1. d \in Nat \ {0} /\ p \in Nat /\ q \in Nat /\ q * d <= v
  BY DenyOptions, WindowIs
<1>2. p <= q
  BY DenyOptions, DivMonotone DEF WindowNo
<1> HIDE DEF p, q, d
<1>3. (p + 1) * d <= (q + 1) * d
  BY <1>1, <1>2
<1>4. ASSUME v < (p + 1) * d PROVE q = p
  <2>1. SUFFICES ASSUME p + 1 <= q PROVE FALSE
    BY <1>1, <1>2
  <2>2. (p + 1) * d <= q * d
    BY <1>1, <2>1
  <2>3. (p + 1) * d \in Nat /\ q * d \in Nat /\ v \in Nat
    BY <1>1
  <2> QED BY <1>1, <1>4, <2>2, <2>3
<1> QED BY <1>2, <1>3, <1>4 DEF p, q, d

\* Deleting a key leaves the other denials as they are.
LEMMA WithoutKept ==
    ASSUME NEW s, NEW t, NEW us, NEW gone, KeptRight(s, t, us, gone), NEW k, NEW z, z = Without(s, k)
    PROVE  KeptRight(z, t, us, gone)
<1>1. /\ s \in Seq(Denial) /\ Len(s) \in Nat /\ DOMAIN s = 1..Len(s) /\ Len(s) <= MaxDenials
      /\ \A i \in 1..Len(s) : s[i] \in Denial
  BY DEF KeptRight
<1> DEFINE places == {i \in DOMAIN s : s[i].key = k}
           place == CHOOSE i \in places : TRUE
<1>2. CASE places = {}
  <2>1. z = s
    BY <1>2 DEF Without
  <2> QED BY <2>1
<1>3. CASE places # {}
  <2>1. place \in 1..Len(s)
    BY <1>1, <1>3
  <2>2. z = [i \in 1..(Len(s) - 1) |-> IF i < place THEN s[i] ELSE s[i + 1]]
    BY <1>3 DEF Without
  <2> HIDE DEF places, place
  <2> DEFINE n == Len(s) - 1
             From(i) == IF i < place THEN i ELSE i + 1
  <2>3. n \in Nat
    BY <1>1, <2>1
  <2>4. \A i \in 1..n : z[i] = s[From(i)] /\ From(i) \in 1..Len(s)
    BY <1>1, <2>1, <2>2
  <2>5. \A i, j \in 1..n : From(i) = From(j) => i = j
    BY <2>1, <1>1
  <2>6. z \in [1..n -> Denial]
    BY <1>1, <2>2, <2>4
  <2>7. z \in Seq(Denial) /\ Len(z) = n /\ DOMAIN z = 1..n
    <3> HIDE DEF n, From
    <3> QED BY <2>3, <2>6
  <2>8. n <= MaxDenials
    BY <1>1, DenyOptions
  <2> HIDE DEF n, From
  <2>9. OnePerKey(z)
    BY <1>1, <2>4, <2>5, <2>7 DEF KeptRight, OnePerKey
  <2>10. \A i \in DOMAIN z : Repeats(t, us, gone, z[i])
    BY <1>1, <2>4, <2>7 DEF KeptRight
  <2> QED BY <2>7, <2>8, <2>9, <2>10 DEF KeptRight
<1> QED BY <1>2, <1>3

\* evict() leaves room for one more.
LEMMA EvictedKept ==
    ASSUME NEW t, NEW us, NEW gone, KeptRight(kept, t, us, gone), NEW z, z = Evicted
    PROVE  KeptRight(z, t, us, gone) /\ Len(z) < MaxDenials
<1>1. /\ kept \in Seq(Denial) /\ Len(kept) \in Nat /\ DOMAIN kept = 1..Len(kept) /\ Len(kept) <= MaxDenials
      /\ MaxDenials \in Nat \ {0}
  BY DenyOptions DEF KeptRight
<1>2. CASE Len(kept) >= MaxDenials
  <2>1. z = Tail(kept) /\ kept # <<>>
    BY <1>1, <1>2 DEF Evicted
  <2>2. /\ z \in Seq(Denial) /\ Len(z) = Len(kept) - 1 /\ DOMAIN z = 1..(Len(kept) - 1)
        /\ \A i \in 1..(Len(kept) - 1) : z[i] = kept[i + 1]
    <3>1. z \in Seq(Denial) /\ Len(z) = Len(kept) - 1
      BY ONLY <1>1, <2>1, HeadTailProperties
    <3>2. \A i \in 1..Len(z) : z[i] = kept[i + 1]
      BY ONLY <1>1, <2>1, HeadTailProperties
    <3> QED BY <3>1, <3>2
  <2>3. \A i \in 1..(Len(kept) - 1) : i + 1 \in DOMAIN kept
    BY <1>1
  <2>4. ASSUME NEW i \in DOMAIN z, NEW j \in DOMAIN z, z[i].key = z[j].key PROVE i = j
    <3>1. i \in Int /\ j \in Int /\ kept[i + 1].key = kept[j + 1].key /\ i + 1 \in DOMAIN kept /\ j + 1 \in DOMAIN kept
      BY <1>1, <2>2, <2>3, <2>4
    <3>2. i + 1 = j + 1
      BY <3>1 DEF KeptRight, OnePerKey
    <3> QED BY <3>1, <3>2
  <2>5. \A i \in DOMAIN z : Repeats(t, us, gone, z[i])
    BY <2>2, <2>3 DEF KeptRight
  <2> QED BY <1>1, <2>2, <2>4, <2>5 DEF KeptRight, OnePerKey
<1>3. CASE Len(kept) < MaxDenials
  BY <1>1, <1>3 DEF Evicted
<1> QED BY <1>1, <1>2, <1>3

\* A denial takes the place of the one of its key, or the last.
LEMMA SetKept ==
    ASSUME NEW s, NEW t, NEW us, NEW gone, KeptRight(s, t, us, gone), Len(s) < MaxDenials,
           NEW e \in Denial, Repeats(t, us, gone, e), NEW z, z = Set(s, e)
    PROVE  KeptRight(z, t, us, gone)
<1>1. /\ s \in Seq(Denial) /\ Len(s) \in Nat /\ DOMAIN s = 1..Len(s) /\ MaxDenials \in Nat
      /\ \A i \in 1..Len(s) : s[i] \in Denial
  BY DenyOptions DEF KeptRight
<1>2. CASE \E i \in DOMAIN s : s[i].key = e.key
  <2>1. z = [i \in 1..Len(s) |-> IF s[i].key = e.key THEN e ELSE s[i]]
    BY <1>1, <1>2 DEF Set
  <2>2. \A i \in 1..Len(s) : z[i].key = s[i].key /\ (z[i] = e \/ z[i] = s[i])
    BY <2>1
  <2>3. z \in [1..Len(s) -> Denial]
    BY <1>1, <2>1
  <2>4. z \in Seq(Denial) /\ Len(z) = Len(s) /\ DOMAIN z = 1..Len(s)
    BY <1>1, <2>3
  <2>5. OnePerKey(z)
    BY <1>1, <2>2, <2>4 DEF KeptRight, OnePerKey
  <2>6. \A i \in DOMAIN z : Repeats(t, us, gone, z[i])
    BY <1>1, <2>2, <2>4 DEF KeptRight
  <2> QED BY <1>1, <2>4, <2>5, <2>6, SMTT(30) DEF KeptRight
<1>3. CASE ~\E i \in DOMAIN s : s[i].key = e.key
  <2>1. z = Append(s, e)
    BY <1>3 DEF Set
  <2>2. /\ z \in Seq(Denial) /\ Len(z) = Len(s) + 1 /\ DOMAIN z = 1..(Len(s) + 1)
        /\ z[Len(s) + 1] = e /\ \A i \in 1..Len(s) : z[i] = s[i]
    BY <1>1, <2>1
  <2>3. \A i \in 1..(Len(s) + 1) : i = Len(s) + 1 \/ i \in 1..Len(s)
    BY <1>1
  <2>4. OnePerKey(z)
    BY <1>1, <1>3, <2>2, <2>3 DEF KeptRight, OnePerKey
  <2>5. \A i \in DOMAIN z : Repeats(t, us, gone, z[i])
    BY <1>1, <2>2, <2>3 DEF KeptRight
  <2> QED BY <1>1, <2>2, <2>4, <2>5 DEF KeptRight
<1> QED BY <1>2, <1>3
\* A step after which L2 would still repeat every denial, and which leaves all checks but one alone.
DenyMoves(c, q) ==
    /\ now' \in 0..DenySpan /\ now <= now' /\ used' \in UsedType
    /\ \A e \in Denial : Repeats(now, used, unmade, e) => Repeats(now', used', unmade', e)
    /\ KeptRight(kept', now', used', unmade')
    /\ chk' = [chk EXCEPT ![c] = q] /\ q \in CheckType /\ OnItsWay(now', used', unmade', q)

LEMMA DenialIs ==
    ASSUME NEW q \in CheckType, q.key \in DenyKeys, NEW e, e = DenialOf(q)
    PROVE  e \in Denial /\ e.key = q.key /\ e.until = q.at + q.wait /\ e.cost = q.cost
BY DEF DenialOf, Until, Denial, CheckType

LEMMA StaysOnItsWay ==
    ASSUME NEW t \in Int, NEW us, NEW gone, NEW v \in Int, NEW ws, NEW left, t <= v,
           \A e \in Denial : Repeats(t, us, gone, e) => Repeats(v, ws, left, e),
           NEW b \in CheckType, OnItsWay(t, us, gone, b)
    PROVE  OnItsWay(v, ws, left, b)
<1> DEFINE e == DenialOf(b)
<1>1. ASSUME b.st \in {"asking", "denied"} PROVE b.key \in DenyKeys /\ b.at <= v
  <2>1. b.at \in Int /\ b.key \in DenyKeys /\ b.at <= t
    BY <1>1 DEF OnItsWay, CheckType
  <2> QED BY <2>1
<1>2. ASSUME b.st = "denied" PROVE Repeats(v, ws, left, e)
  <2>1. b.key \in DenyKeys /\ Repeats(t, us, gone, e)
    BY <1>2 DEF OnItsWay
  <2>2. e \in Denial
    BY <2>1, DenialIs
  <2> HIDE DEF e
  <2> QED BY <2>1, <2>2
<1> QED BY <1>1, <1>2 DEF OnItsWay

LEMMA DenyMovesKeep ==
    ASSUME DenyInv, NEW c \in Checks, NEW q, DenyMoves(c, q)
    PROVE  DenyInv'
<1>1. chk \in [Checks -> CheckType] /\ now \in Int /\ now' \in Int
  BY DenyOptions DEF DenyInv, DenyMoves
<1>2. /\ chk' \in [Checks -> CheckType] /\ chk'[c] = q
      /\ \A x \in Checks : x # c => chk'[x] = chk[x]
  BY <1>1 DEF DenyMoves
<1>3. \A x \in Checks : x # c => OnItsWay(now', used', unmade', chk[x])
  BY <1>1, StaysOnItsWay DEF DenyMoves, DenyInv
<1>4. \A x \in Checks : OnItsWay(now', used', unmade', chk'[x])
  BY <1>2, <1>3 DEF DenyMoves
<1> QED BY <1>2, <1>4 DEF DenyMoves, DenyInv

\* A step that leaves all checks alone.
DenyRests ==
    /\ now' \in 0..DenySpan /\ now <= now' /\ used' \in UsedType /\ chk' = chk
    /\ \A e \in Denial : Repeats(now, used, unmade, e) => Repeats(now', used', unmade', e)
    /\ KeptRight(kept', now', used', unmade')

LEMMA DenyRestsKeep ==
    ASSUME DenyInv, DenyRests
    PROVE  DenyInv'
<1>1. chk \in [Checks -> CheckType] /\ now \in Int /\ now' \in Int
  BY DenyOptions DEF DenyInv, DenyRests
<1>2. \A x \in Checks : OnItsWay(now', used', unmade', chk[x])
  BY <1>1, StaysOnItsWay DEF DenyRests, DenyInv
<1> QED BY <1>1, <1>2 DEF DenyRests, DenyInv

\* What is right of the kept denials stays so after a step that repeats them all.
LEMMA KeptStays ==
    ASSUME DenyInv, NEW s, NEW t, NEW us, NEW gone, KeptRight(s, now, used, unmade),
           \A e \in Denial : Repeats(now, used, unmade, e) => Repeats(t, us, gone, e)
    PROVE  KeptRight(s, t, us, gone)
<1>1. s \in Seq(Denial) /\ \A i \in DOMAIN s : s[i] \in Denial
  BY DEF KeptRight
<1> QED BY <1>1 DEF KeptRight

LEMMA EndedIs ==
    ASSUME NEW st \in {"cached", "allowed", "refused", "failed"}, NEW t, NEW us, NEW gone
    PROVE  Ended(st) \in CheckType /\ OnItsWay(t, us, gone, Ended(st))
BY DEF Ended, Ahead, CheckType, OnItsWay

\* L2 would still repeat a denial when its clock stands still, and its key's count has not shrunk or was thrown away.
LEMMA StillRepeats ==
    ASSUME DenyInv, NEW us \in UsedType, NEW gone, unmade \subseteq gone,
           \A k \in DenyKeys : k \in gone \/ (used[k].w = WindowNo(now) => us[k].w = used[k].w /\ used[k].n <= us[k].n)
    PROVE  \A e \in Denial : Repeats(now, used, unmade, e) => Repeats(now, us, gone, e)
<1> SUFFICES ASSUME NEW e \in Denial, Repeats(now, used, unmade, e) PROVE Repeats(now, us, gone, e)
  OBVIOUS
<1> DEFINE k == e.key
<1>1. /\ k \in DenyKeys /\ e.cost \in Nat /\ used[k].n \in Nat /\ us[k].n \in Nat /\ DenyLimit \in Nat
  BY DenyOptions DEF Denial, DenyInv, UsedType
<1>2. SUFFICES ASSUME now < e.until, k \notin gone
               PROVE  (IF us[k].w = WindowNo(now) THEN us[k].n ELSE 0) + e.cost > DenyLimit
  BY DEF Repeats
<1>3. (IF used[k].w = WindowNo(now) THEN used[k].n ELSE 0) + e.cost > DenyLimit
  BY <1>2 DEF Repeats
<1>4. used[k].w = WindowNo(now) => us[k].w = used[k].w /\ used[k].n <= us[k].n
  BY <1>1, <1>2
<1> HIDE DEF k
<1>5. CASE used[k].w = WindowNo(now)
  BY <1>1, <1>3, <1>4, <1>5
<1>6. CASE used[k].w # WindowNo(now)
  BY <1>1, <1>3, <1>6
<1> QED BY <1>5, <1>6

LEMMA DenyInitKeeps == DenyInit => DenyInv
<1> SUFFICES ASSUME DenyInit PROVE DenyInv
  OBVIOUS
<1>1. now \in 0..DenySpan /\ used \in UsedType
  BY DenyOptions DEF DenyInit, UsedType
<1>2. KeptRight(kept, now, used, unmade)
  <2>1. kept = <<>>
    BY DEF DenyInit
  <2>2. kept \in Seq(Denial) /\ Len(kept) = 0 /\ DOMAIN kept = {}
    BY <2>1
  <2> QED BY <2>2, DenyOptions DEF KeptRight, OnePerKey
<1>3. Ahead \in CheckType /\ chk = [c \in Checks |-> Ahead]
  BY DEF DenyInit, Ahead, CheckType
<1>4. OnItsWay(now, used, unmade, Ahead)
  BY DEF OnItsWay, Ahead
<1> QED BY <1>1, <1>2, <1>3, <1>4 DEF DenyInv
\* The actions of a check, one by one.
LEMMA CachedCheckKeeps ==
    ASSUME DenyInv, NEW c \in Checks, NEW k \in DenyKeys, NEW cost \in DenyCosts, Check(c, k, cost)
    PROVE  DenyInv'
<1>1. /\ now \in 0..DenySpan /\ used \in UsedType /\ KeptRight(kept, now, used, unmade)
      /\ now' = now /\ used' = used /\ unmade' = unmade /\ now \in Nat /\ cost \in Nat
  BY DenyOptions DEF DenyInv, Check
<1>2. CASE Blocks(k)
  <2>1. chk' = [chk EXCEPT ![c] = Ended("cached")] /\ kept' = kept
    BY <1>2 DEF Check
  <2>2. Ended("cached") \in CheckType /\ OnItsWay(now', used', unmade', Ended("cached"))
    BY EndedIs
  <2>3. DenyMoves(c, Ended("cached"))
    BY <1>1, <2>1, <2>2 DEF DenyMoves
  <2> QED BY <2>3, DenyMovesKeep
<1>3. CASE ~Blocks(k)
  <2> DEFINE q == [st |-> "asking", key |-> k, cost |-> cost, at |-> now, wait |-> 0]
  <2>1. chk' = [chk EXCEPT ![c] = q] /\ kept' = Without(kept, k)
    BY <1>3 DEF Check
  <2>2. q \in CheckType /\ OnItsWay(now, used, unmade, q)
    BY <1>1 DEF CheckType, OnItsWay
  <2> HIDE DEF q
  <2>3. KeptRight(kept', now, used, unmade)
    BY <1>1, <2>1, WithoutKept
  <2>4. DenyMoves(c, q)
    BY <1>1, <2>1, <2>2, <2>3 DEF DenyMoves
  <2> QED BY <2>4, DenyMovesKeep
<1> QED BY <1>2, <1>3

\* A denial and how long it says to wait.
Refusal(q, w) == [q EXCEPT !.st = "denied", !.wait = w]
\* L2 answers at the time of the check or at its own: either way a denial is good until that window ends.
LEMMA ApplyKeeps ==
    ASSUME DenyInv, NEW c \in Checks, Apply(c)
    PROVE  DenyInv'
<1> DEFINE q == chk[c]
           t == DecidedAt(q)
           k == q.key
           n == UnitsAt(k, t) + q.cost
           p == WindowNo(t)
<1>1. /\ now \in 0..DenySpan /\ now \in Nat /\ used \in UsedType /\ KeptRight(kept, now, used, unmade)
      /\ now' = now /\ kept' = kept
  BY DenyOptions DEF DenyInv, Apply
<1>2. q \in CheckType /\ q.st = "asking" /\ k \in DenyKeys /\ q.cost \in Nat /\ q.at \in Nat /\ q.at <= now
  BY DEF DenyInv, Apply, OnItsWay, CheckType
<1>3. t \in Nat /\ t <= now /\ q.at <= t /\ p \in Nat /\ (t = now \/ t = q.at)
  BY <1>1, <1>2, WindowIs DEF DecidedAt
<1>4. used[k].w \in Nat /\ used[k].n \in Nat /\ DenyLimit \in Nat
  BY <1>1, <1>2, DenyOptions DEF UsedType
<1>5. UnitsAt(k, t) = IF used[k].w = p THEN used[k].n ELSE 0
  BY DEF UnitsAt
<1>6. n \in Nat
  BY <1>2, <1>4, <1>5
<1>7. CASE n <= DenyLimit
  <2> DEFINE us == [used EXCEPT ![k] = [w |-> p, n |-> n]]
             e == Ended("allowed")
  <2>1. /\ used' = us /\ chk' = [chk EXCEPT ![c] = e]
        /\ unmade' = IF p < used[k].w THEN unmade \cup {k} ELSE unmade
    BY <1>7 DEF Apply
  <2>2. us \in UsedType
    BY <1>1, <1>2, <1>3, <1>4, <1>6, <1>7 DEF UsedType
  <2>3. us[k].w = p /\ us[k].n = n /\ \A j \in DenyKeys : j # k => us[j] = used[j]
    BY <1>1, <1>2 DEF UsedType
  <2>4. unmade \subseteq unmade' /\ (p < used[k].w => k \in unmade')
    BY <2>1
  <2>5. used[k].w = WindowNo(now) /\ ~(p < used[k].w) => us[k].w = used[k].w /\ used[k].n <= us[k].n
    <3>1. SUFFICES ASSUME used[k].w = WindowNo(now), ~(p < used[k].w) PROVE us[k].w = used[k].w /\ used[k].n <= us[k].n
      OBVIOUS
    <3>2. p <= WindowNo(now)
      BY <1>1, <1>3, WindowEndsLater
    <3>3. p = used[k].w
      BY <1>3, <1>4, <3>1, <3>2
    <3>4. n = used[k].n + q.cost
      BY <1>5, <3>3
    <3> HIDE DEF us, p, n, k, q
    <3> QED BY <1>2, <1>4, <2>3, <3>3, <3>4
  <2> HIDE DEF us, p, n, k, q, t
  <2>6. \A j \in DenyKeys : j \in unmade' \/ (used[j].w = WindowNo(now) => us[j].w = used[j].w /\ used[j].n <= us[j].n)
    <3>1. ASSUME NEW j \in DenyKeys, j # k PROVE us[j].w = used[j].w /\ used[j].n <= us[j].n
      <4>1. us[j] = used[j] /\ used[j].n \in Int
        BY <1>1, <2>3, <3>1, DenyOptions DEF UsedType
      <4> QED BY <4>1
    <3> QED BY <2>4, <2>5, <3>1
  <2>7. \A d \in Denial : Repeats(now, used, unmade, d) => Repeats(now, us, unmade', d)
    BY <2>2, <2>4, <2>6, StillRepeats
  <2>8. KeptRight(kept, now, us, unmade')
    BY <1>1, <2>7, KeptStays
  <2>9. e \in CheckType /\ OnItsWay(now', used', unmade', e)
    BY EndedIs
  <2> HIDE DEF e
  <2>10. DenyMoves(c, e)
    BY <1>1, <2>1, <2>2, <2>7, <2>8, <2>9 DEF DenyMoves
  <2> QED BY <2>10, DenyMovesKeep
<1>8. CASE ~(n <= DenyLimit)
  <2> DEFINE z == (p + 1) * DenyWindow
             w == z - t
             b == Refusal(q, w)
             e == DenialOf(b)
  <2>1. used' = used /\ unmade' = unmade /\ chk' = [chk EXCEPT ![c] = b]
    BY <1>8 DEF Apply, Refusal
  <2>2. z \in Nat /\ w \in Int
    BY <1>3, DenyOptions
  <2>0. b = Refusal(q, w) /\ w = z - t /\ n = UnitsAt(k, t) + q.cost /\ k = q.key
    OBVIOUS
  <2> HIDE DEF z, b, w, q, k, n, t, p
  <2>3. /\ b \in CheckType /\ b.st = "denied" /\ b.key = q.key /\ b.cost = q.cost /\ b.at = q.at /\ b.wait = w
    BY ONLY <1>2, <2>0, <2>2 DEF Refusal, CheckType
  <2>4. b.key \in DenyKeys /\ k = q.key
    BY <1>2, <2>0, <2>3
  <2>5. e \in Denial /\ e.key = b.key /\ e.until = b.at + b.wait /\ e.cost = b.cost
    BY ONLY <2>3, <2>4, DenialIs DEF e
  <2>6. e \in Denial /\ e.key = k /\ e.until = q.at + (z - t) /\ e.cost = q.cost
    BY ONLY <2>0, <2>3, <2>4, <2>5
  <2> HIDE DEF e
  <2>7. z <= (WindowNo(now) + 1) * DenyWindow /\ (now < z => WindowNo(now) = p)
    BY <1>1, <1>3, WindowEndsLater DEF z, p
  <2> DEFINE y == (WindowNo(now) + 1) * DenyWindow
  <2>8. y \in Nat
    BY <1>1, WindowIs, DenyOptions
  <2> HIDE DEF y
  <2>9. e.until <= z /\ e.until \in Int
    BY <1>2, <1>3, <2>2, <2>6
  <2>10. e.until <= y
    BY <2>2, <2>7, <2>8, <2>9 DEF y
  <2>11. ASSUME now < e.until PROVE (IF used[k].w = WindowNo(now) THEN used[k].n ELSE 0) + e.cost > DenyLimit
    <3>1. now < z
      BY <1>1, <2>2, <2>9, <2>11
    <3>2. WindowNo(now) = p
      BY <2>7, <3>1
    <3>3. (IF used[k].w = p THEN used[k].n ELSE 0) + q.cost > DenyLimit
      BY <1>2, <1>4, <1>5, <1>8, <2>0
    <3> QED BY <2>6, <3>2, <3>3
  <2>12. Repeats(now, used, unmade, e)
    BY <2>6, <2>10, <2>11 DEF Repeats, y, k
  <2>13. OnItsWay(now, used, unmade, b)
    BY <1>2, <2>3, <2>4, <2>12 DEF OnItsWay, e
  <2>14. DenyMoves(c, b)
    BY <1>1, <2>1, <2>3, <2>13 DEF DenyMoves
  <2> QED BY <2>14, DenyMovesKeep
<1> QED BY <1>7, <1>8

\* The denial that came back takes its place, and the oldest leaves a full cache.
LEMMA DeniedKeeps ==
    ASSUME DenyInv, NEW c \in Checks, Denied(c)
    PROVE  DenyInv'
<1> DEFINE q == chk[c]
           e == DenialOf(q)
           b == Ended("refused")
           z == Evicted
<1>1. /\ now \in 0..DenySpan /\ now \in Nat /\ used \in UsedType /\ KeptRight(kept, now, used, unmade)
      /\ now' = now /\ used' = used /\ unmade' = unmade /\ chk' = [chk EXCEPT ![c] = b]
  BY DenyOptions DEF DenyInv, Denied
<1>2. kept' = Set(z, e)
  BY DEF Denied, DenialOf
<1>3. q \in CheckType /\ q.key \in DenyKeys /\ Repeats(now, used, unmade, e)
  BY DEF DenyInv, Denied, OnItsWay
<1>4. e \in Denial
  BY <1>3, DenialIs
<1>5. b \in CheckType /\ OnItsWay(now, used, unmade, b)
  BY EndedIs
<1>6. KeptRight(z, now, used, unmade) /\ Len(z) < MaxDenials
  BY <1>1, EvictedKept
<1> HIDE DEF e, b, q, z
<1>7. KeptRight(kept', now, used, unmade)
  BY <1>2, <1>3, <1>4, <1>6, SetKept
<1>8. DenyMoves(c, b)
  BY <1>1, <1>5, <1>7 DEF DenyMoves
<1> QED BY <1>8, DenyMovesKeep
LEMMA ApplyFailsKeeps ==
    ASSUME DenyInv, NEW c \in Checks, ApplyFails(c)
    PROVE  DenyInv'
<1> DEFINE b == Ended("failed")
<1>1. /\ now \in 0..DenySpan /\ now \in Nat /\ used \in UsedType /\ KeptRight(kept, now, used, unmade)
      /\ now' = now /\ used' = used /\ unmade' = unmade /\ kept' = kept /\ chk' = [chk EXCEPT ![c] = b]
  BY DenyOptions DEF DenyInv, ApplyFails
<1>2. b \in CheckType /\ OnItsWay(now, used, unmade, b)
  BY EndedIs
<1> HIDE DEF b
<1>3. DenyMoves(c, b)
  BY <1>1, <1>2 DEF DenyMoves
<1> QED BY <1>3, DenyMovesKeep

\* A reset deletes the cached denial at once and the count later: what that throws away is remembered.
LEMMA ResetBeginsKeeps ==
    ASSUME DenyInv, NEW k \in DenyKeys, ResetBegins(k)
    PROVE  DenyInv'
<1>1. /\ now \in 0..DenySpan /\ now \in Nat /\ used \in UsedType /\ KeptRight(kept, now, used, unmade)
      /\ now' = now /\ used' = used /\ unmade' = unmade /\ chk' = chk /\ kept' = Without(kept, k)
  BY DenyOptions DEF DenyInv, ResetBegins
<1>2. KeptRight(kept', now, used, unmade)
  BY <1>1, WithoutKept
<1>3. DenyRests
  BY <1>1, <1>2 DEF DenyRests
<1> QED BY <1>3, DenyRestsKeep

\* The count of a key is thrown away: by a reset, which is remembered, or when its window is over.
LEMMA CountGoes ==
    ASSUME DenyInv, NEW k \in DenyKeys, NEW us, us = [used EXCEPT ![k].n = 0], NEW gone, unmade \subseteq gone,
           k \in gone \/ used[k].n = 0 \/ used[k].w # WindowNo(now),
           now' = now, used' = us, unmade' = gone, kept' = kept, chk' = chk
    PROVE  DenyInv'
<1>1. now \in 0..DenySpan /\ now \in Nat /\ used \in UsedType /\ KeptRight(kept, now, used, unmade)
  BY DenyOptions DEF DenyInv
<1>2. us \in UsedType /\ us[k].n = 0 /\ us[k].w = used[k].w /\ \A j \in DenyKeys : j # k => us[j] = used[j]
  BY <1>1, DenyOptions DEF UsedType
<1>3. \A j \in DenyKeys : j \in gone \/ (used[j].w = WindowNo(now) => us[j].w = used[j].w /\ used[j].n <= us[j].n)
  <2>1. ASSUME NEW j \in DenyKeys, j # k PROVE us[j].w = used[j].w /\ used[j].n <= us[j].n
    <3>1. us[j].w = used[j].w /\ us[j].n = used[j].n
      BY <1>2, <2>1
    <3>2. used[j].n \in Int
      BY <1>1, DenyOptions DEF UsedType
    <3> QED BY ONLY <3>1, <3>2
  <2>2. used[k].n = 0 => used[k].n <= us[k].n
    BY <1>2
  <2> QED BY <1>2, <2>1, <2>2
<1>4. \A e \in Denial : Repeats(now, used, unmade, e) => Repeats(now, us, gone, e)
  BY <1>2, <1>3, StillRepeats
<1>5. KeptRight(kept, now, us, gone)
  BY <1>1, <1>4, KeptStays
<1>6. now' = now /\ used' = us /\ unmade' = gone /\ kept' = kept /\ chk' = chk
  OBVIOUS
<1>7. DenyRests
  BY ONLY <1>1, <1>2, <1>4, <1>5, <1>6 DEF DenyRests
<1> QED BY <1>7, DenyRestsKeep

LEMMA ResetLandsKeeps ==
    ASSUME DenyInv, NEW k \in DenyKeys, ResetLands(k)
    PROVE  DenyInv'
<1> DEFINE us == [used EXCEPT ![k].n = 0]
           gone == IF used[k].n > 0 THEN unmade \cup {k} ELSE unmade
<1>1. now' = now /\ used' = us /\ unmade' = gone /\ kept' = kept /\ chk' = chk
  BY DEF ResetLands
<1>2. used[k].n \in Nat
  BY DenyOptions DEF DenyInv, UsedType
<1>3. unmade \subseteq gone /\ (k \in gone \/ used[k].n = 0)
  BY <1>2
<1> HIDE DEF gone
<1> QED BY <1>1, <1>3, CountGoes

LEMMA RowExpiresKeeps ==
    ASSUME DenyInv, NEW k \in DenyKeys, RowExpires(k)
    PROVE  DenyInv'
<1> DEFINE us == [used EXCEPT ![k].n = 0]
<1>1. now' = now /\ used' = us /\ unmade' = unmade /\ kept' = kept /\ chk' = chk
  BY DEF RowExpires
<1>2. now \in Nat /\ used[k].w \in Nat /\ used[k].w < WindowNo(now)
  BY DenyOptions DEF DenyInv, UsedType, RowExpires
<1>3. WindowNo(now) \in Nat
  BY <1>2, WindowIs
<1>4. used[k].w # WindowNo(now)
  BY <1>2, <1>3
<1> QED BY <1>1, <1>4, CountGoes

\* In the same window nothing changes for L2; with the next one every denial has run out.
LEMMA DenyTickKeeps ==
    ASSUME DenyInv, DenyTick
    PROVE  DenyInv'
<1> DEFINE p == WindowNo(now)
           q == WindowNo(now + 1)
           y == (p + 1) * DenyWindow
           z == (q + 1) * DenyWindow
<1>1. /\ now \in 0..DenySpan /\ now \in Nat /\ used \in UsedType /\ KeptRight(kept, now, used, unmade)
      /\ now < DenySpan /\ now' = now + 1 /\ used' = used /\ kept' = kept /\ chk' = chk
      /\ unmade' = IF p = q THEN unmade ELSE {}
  BY DenyOptions DEF DenyInv, DenyTick
<1>2. now + 1 \in 0..DenySpan /\ now + 1 \in Nat /\ now <= now + 1
  BY <1>1, DenyOptions
<1>3. p \in Nat /\ q \in Nat /\ y <= z /\ (now + 1 < y => q = p)
  BY <1>1, <1>2, WindowIs, WindowEndsLater
<1>4. y \in Nat /\ z \in Nat
  BY <1>3, DenyOptions
<1> HIDE DEF p, q, y, z
<1>5. ASSUME NEW e \in Denial, Repeats(now, used, unmade, e) PROVE Repeats(now', used', unmade', e)
  <2>1. e.until \in Int /\ e.until <= y
    BY <1>5 DEF Repeats, Denial, y, p
  <2>2. e.until <= z
    BY <1>3, <1>4, <2>1
  <2>3. ASSUME now + 1 < e.until PROVE q = p /\ now < e.until
    BY <1>1, <1>3, <1>4, <2>1, <2>3
  <2>4. ASSUME now + 1 < e.until PROVE e.key \in unmade' \/ (IF used[e.key].w = q THEN used[e.key].n ELSE 0) + e.cost > DenyLimit
    <3>1. q = p /\ now < e.until
      BY <2>3, <2>4
    <3>2. e.key \in unmade \/ (IF used[e.key].w = p THEN used[e.key].n ELSE 0) + e.cost > DenyLimit
      BY <1>5, <3>1 DEF Repeats, p
    <3> QED BY <1>1, <3>1, <3>2
  <2> QED BY <1>1, <2>2, <2>4 DEF Repeats, z, q
<1>6. KeptRight(kept', now', used', unmade')
  BY <1>1, <1>5, KeptStays
<1>7. DenyRests
  BY <1>1, <1>2, <1>5, <1>6 DEF DenyRests
<1> QED BY <1>7, DenyRestsKeep

LEMMA DenyStepKeeps == DenyInv /\ [DenyNext]_denyVars => DenyInv'
<1> SUFFICES ASSUME DenyInv, [DenyNext]_denyVars PROVE DenyInv'
  OBVIOUS
<1>1. CASE UNCHANGED denyVars
  BY <1>1 DEF denyVars, DenyInv
<1>2. CASE DenyNext
  BY <1>2, CachedCheckKeeps, ApplyKeeps, DeniedKeeps, ApplyFailsKeeps, ResetBeginsKeeps, ResetLandsKeeps,
     RowExpiresKeeps, DenyTickKeeps DEF DenyNext
<1> QED BY <1>1, <1>2

LEMMA DenyInvSafe ==
    ASSUME DenyInv
    PROVE  DenyTypeOK /\ DenialsHonest
<1>1. /\ now \in 0..DenySpan /\ used \in UsedType /\ kept \in Seq(Denial) /\ Len(kept) <= MaxDenials /\ OnePerKey(kept)
      /\ \A i \in DOMAIN kept : Repeats(now, used, unmade, kept[i])
  BY DEF DenyInv, KeptRight
<1>2. DenyTypeOK
  BY <1>1 DEF DenyTypeOK, UsedType, OnePerKey
<1>3. DenialsHonest
  BY <1>1 DEF DenialsHonest, Repeats, UnitsAt
<1> QED BY <1>2, <1>3

LEMMA SketchStepKeeps ==
    ASSUME SketchInv, SketchLimit <= MaxCell, [LimiterNext \/ MergeNext]_sketchVars
    PROVE  SketchInv'
<1>1. CASE UNCHANGED sketchVars
  BY <1>1 DEF sketchVars, SketchInv, HashOK, Above, CellsOf, Sees, Hits
<1> QED BY <1>1, LimiterKeeps, MergeKeeps

\* checkSync of the sketch limiter, mergeSnapshot, and the check of the cached-deny mode: with a limit the
\* counters can hold, a key is never estimated below what it was admitted nor admitted past the limit, a
\* merge is the sketch of all it merged, and a cached denial is one L2 would repeat.
THEOREM ApproximationsHold == SketchLimit <= MaxCell => (Spec => []ApproximationsSafe)
<1> SUFFICES ASSUME SketchLimit <= MaxCell PROVE Spec => []ApproximationsSafe
  OBVIOUS
<1>1. Init => SketchInv /\ DenyInv
  BY SketchInitKeeps, DenyInitKeeps DEF Init
<1>2. SketchInv /\ DenyInv /\ [Next]_<<subject, escrowVars, fairVars, sketchVars, denyVars>> => SketchInv' /\ DenyInv'
  <2> SUFFICES ASSUME SketchInv, DenyInv, [Next]_<<subject, escrowVars, fairVars, sketchVars, denyVars>>
               PROVE  SketchInv' /\ DenyInv'
    OBVIOUS
  <2>1. [LimiterNext \/ MergeNext]_sketchVars /\ [DenyNext]_denyVars
    BY DEF Next
  <2> QED BY <2>1, SketchStepKeeps, DenyStepKeeps
<1>3. SketchInv /\ DenyInv => ApproximationsSafe
  BY SketchInvSafe, DenyInvSafe DEF ApproximationsSafe
<1> QED BY <1>1, <1>2, <1>3, PTL DEF Spec
=============================================================================
