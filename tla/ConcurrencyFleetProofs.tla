---------------------- MODULE ConcurrencyFleetProofs ----------------------
(*****************************************************************************)
(* Theorems about ConcurrencyFleet for every fleet, aggregate, allocation and *)
(* bound: its types, the cap on committed shares, self-fencing, and the loads *)
(* of all nodes under the acknowledged handoff.                               *)
(*****************************************************************************)
EXTENDS ConcurrencyFleet, SumTheorems, TLAPS

\* Why the grants stay within the limit: a record that is gone carries nothing over, a live
\* one has reported a limit, and the floor of a record is never below its share.
RecordInv ==
    \A n \in Node :
        /\ IF reg[n].live THEN reg[n].lLocal \in Limits ELSE reg[n] = NoRecord
        /\ Handoff => reg[n].share <= reg[n].unackedHigh
        /\ \A b \in beats[n] : b.seq > 0

----------------------------------------------------------------------------
(* The coordinator *)

\* The sets of nodes the coordinator counts are finite.
LEMMA LiveFinite ==
  ASSUME NEW r, NEW S \in SUBSET Node
  PROVE  IsFiniteSet(S) /\ Cardinality(S) \in Nat /\ (S # {} => Cardinality(S) >= 1)
<1>1. IsFiniteSet(Node)
  BY FleetAssumption, FS_Interval DEF Node
<1>2. IsFiniteSet(S)
  BY <1>1, FS_Subset
<1> QED BY <1>2, FS_CardinalityType, FS_EmptySet

\* The lower median of the limits reported by the live nodes exists: it is the least value
\* that more than half of them do not exceed (aggregateOf, "median").
LEMMA MedianExists ==
  ASSUME NEW r \in [Node -> RecordType], Live(r) # {}, \A m \in Live(r) : r[m].lLocal \in Limits
  PROVE  \E v \in {r[m].lLocal : m \in Live(r)} :
            /\ Cardinality({m \in Live(r) : r[m].lLocal < v}) <= (Cardinality(Live(r)) - 1) \div 2
            /\ (Cardinality(Live(r)) - 1) \div 2 < Cardinality({m \in Live(r) : r[m].lLocal <= v})
<1> DEFINE UpTo(v) == Cardinality({m \in Live(r) : r[m].lLocal <= v})
           Below(v) == Cardinality({m \in Live(r) : r[m].lLocal < v})
           k == (Cardinality(Live(r)) - 1) \div 2
           T == {v \in Nat : k < UpTo(v)}
<1>1. Live(r) \subseteq Node /\ \A m \in Live(r) : r[m].lLocal \in Nat /\ r[m].lLocal <= MaxLimit
  BY FleetAssumption DEF Live, RecordType
<1>2. Cardinality(Live(r)) \in Nat /\ Cardinality(Live(r)) >= 1
  BY <1>1, LiveFinite
<1>3. k \in Nat /\ k < Cardinality(Live(r))
  BY <1>2
<1>4. MaxLimit \in T
  <2>1. {m \in Live(r) : r[m].lLocal <= MaxLimit} = Live(r)
    BY <1>1
  <2> QED BY <1>3, <2>1, FleetAssumption
<1>5. \A v : Below(v) \in Nat /\ UpTo(v) \in Nat
  <2> SUFFICES ASSUME NEW v PROVE Below(v) \in Nat /\ UpTo(v) \in Nat
    OBVIOUS
  <2>1. {m \in Live(r) : r[m].lLocal <= v} \in SUBSET Node /\ {m \in Live(r) : r[m].lLocal < v} \in SUBSET Node
    BY <1>1
  <2> QED BY <2>1, LiveFinite
<1>6. PICK v \in T : \A u \in T : v <= u
  <2>1. T \in SUBSET Nat /\ T # {}
    BY <1>4
  <2> HIDE DEF T
  <2> QED BY <2>1, LeastElement
<1>7. Below(v) <= k
  <2>1. CASE v = 0
    <3>1. {m \in Live(r) : r[m].lLocal < v} = {}
      BY <1>1, <2>1
    <3>2. Below(v) = 0
      BY <3>1, FS_EmptySet
    <3> QED BY <1>3, <3>2
  <2>2. CASE v # 0
    <3>1. v - 1 \in Nat /\ v - 1 \notin T
      BY <1>6, <2>2
    <3>2. ~(k < UpTo(v - 1))
      BY <3>1
    <3>3. {m \in Live(r) : r[m].lLocal < v} = {m \in Live(r) : r[m].lLocal <= v - 1}
      BY <1>1
    <3>4. Below(v) = UpTo(v - 1)
      BY <3>3
    <3> HIDE DEF k, UpTo, Below
    <3> QED BY <1>3, <1>5, <3>2, <3>4
  <2> QED BY <2>1, <2>2
<1>8. k < UpTo(v)
  OBVIOUS
<1>9. v \in {r[m].lLocal : m \in Live(r)}
  <2> SUFFICES ASSUME v \notin {r[m].lLocal : m \in Live(r)} PROVE FALSE
    OBVIOUS
  <2>1. {m \in Live(r) : r[m].lLocal < v} = {m \in Live(r) : r[m].lLocal <= v}
    BY <1>1
  <2>2. Below(v) = UpTo(v)
    BY <2>1
  <2> HIDE DEF k, UpTo, Below
  <2> QED BY <1>3, <1>5, <1>7, <1>8, <2>2
<1> QED BY <1>7, <1>8, <1>9

\* Every aggregate (min, mean, median) of reported limits is one of the configured limits,
\* hence at most MaxLimit (aggregateOf).
LEMMA AggregateIsALimit ==
  ASSUME NEW r \in [Node -> RecordType], Live(r) # {}, \A m \in Live(r) : r[m].lLocal \in Limits
  PROVE  AggregateOf(r) \in Limits
<1> DEFINE locals == {r[m].lLocal : m \in Live(r)}
<1>1. locals \subseteq Limits /\ locals # {} /\ locals \subseteq Nat
  <2>1. locals \subseteq Limits
    OBVIOUS
  <2>2. locals # {}
    OBVIOUS
  <2>3. Limits \subseteq Nat
    BY FleetAssumption
  <2> QED BY <2>1, <2>2, <2>3
<1>2. CASE Aggregate = "min"
  <2>1. \E v \in locals : \A u \in locals : v <= u
    BY <1>1, LeastElement
  <2>2. AggregateOf(r) = CHOOSE v \in locals : \A u \in locals : v <= u
    BY <1>2 DEF AggregateOf
  <2>3. AggregateOf(r) \in locals
    BY <2>1, <2>2, Zenon
  <2> QED BY <1>1, <2>3
<1>3. CASE Aggregate # "min"
  <2> DEFINE P(v) == /\ Cardinality({m \in Live(r) : r[m].lLocal < v}) <= (Cardinality(Live(r)) - 1) \div 2
                     /\ (Cardinality(Live(r)) - 1) \div 2 < Cardinality({m \in Live(r) : r[m].lLocal <= v})
  <2>1. \E v \in locals : P(v)
    BY MedianExists
  <2>2. AggregateOf(r) = CHOOSE v \in locals : P(v)
    BY <1>3 DEF AggregateOf
  <2> HIDE DEF P
  <2>3. AggregateOf(r) \in locals
    BY <2>1, <2>2, Zenon
  <2> QED BY <1>1, <2>3
<1> QED BY <1>2, <1>3

\* An equal part of a budget is an integer (allocate, "equal").
LEMMA PartInt ==
  ASSUME NEW b \in Nat, NEW m \in Nat, m >= 1, NEW i \in Nat
  PROVE  Part(b, m, i) \in Int
BY DEF Part

\* The target share of a live node is an integer under either allocation policy (allocate).
LEMMA TargetInt ==
  ASSUME NEW r \in [Node -> RecordType], NEW n \in Node, r[n].live, NEW l \in Nat
  PROVE  TargetFor(r, n, l) \in Int
<1>1. Live(r) \in SUBSET Node /\ Hungry(r) \in SUBSET Live(r) /\ n \in Live(r)
  BY DEF Live, Hungry
<1>2. /\ Cardinality(Live(r)) \in Nat /\ Cardinality(Live(r)) >= 1
      /\ Cardinality(Hungry(r)) \in Nat /\ (n \in Hungry(r) => Cardinality(Hungry(r)) >= 1)
  BY <1>1, LiveFinite
<1>3. RankIn(Live(r), n) \in Nat /\ RankIn(Hungry(r), n) \in Nat
  <2>1. {m \in Live(r) : m < n} \in SUBSET Node /\ {m \in Hungry(r) : m < n} \in SUBSET Node
    BY <1>1
  <2> QED BY <2>1, LiveFinite DEF RankIn
<1>4. ReleasedBudget(r, l) \in Nat
  <2> DEFINE f == [m \in Node |-> IF m \in Live(r) \ Hungry(r) THEN r[m].inflight + 1 ELSE 0]
  <2>1. \A i \in 1..N : f[i] \in Int
    BY DEF Node, RecordType
  <2> HIDE DEF f
  <2>2. Sum(f, N) \in Int
    BY <2>1, SumInt, FleetAssumption
  <2>3. Larger(0, l - Sum(f, N)) \in Nat
    BY <2>2 DEF Larger
  <2> QED BY <2>3 DEF ReleasedBudget, f
<1>5. r[n].inflight \in Nat
  BY DEF RecordType
<1>6. Part(l, Cardinality(Live(r)), RankIn(Live(r), n)) \in Int
  BY <1>2, <1>3, PartInt
<1>7. n \in Hungry(r) => Part(ReleasedBudget(r, l), Cardinality(Hungry(r)), RankIn(Hungry(r), n)) \in Int
  BY <1>2, <1>3, <1>4, PartInt
<1> QED BY <1>5, <1>6, <1>7 DEF TargetFor, Larger

\* applyHeartbeat() up to the grant: the records after step 2.
Listed(r, n, b, t) == EvictExpired([r EXCEPT ![n] = Upsert(@, b)], n, t)

\* A limit is a natural of at most MaxLimit.
LEMMA LimitsNat == Limits \subseteq Nat /\ \A l \in Limits : l <= MaxLimit
BY FleetAssumption

\* applyHeartbeat step 1: the record a report leaves behind, field by field. A stale report
\* still writes the limit and the expiry, never the in-flight count.
LEMMA Upserted ==
  ASSUME NEW rec \in RecordType, NEW b \in BeatType
  PROVE  LET u == Upsert(rec, b)
         IN  /\ u \in RecordType /\ u.live /\ u.lLocal = b.lLocal /\ u.expiresAt = b.expiresAt
             /\ u.inflight = (IF Fresh(rec, b) THEN b.inflight ELSE rec.inflight)
             /\ u.maxSeq = (IF Handoff THEN Larger(rec.maxSeq, b.seq) ELSE 0)
             /\ u.share = rec.share /\ u.committedGen = rec.committedGen /\ u.unackedHigh = rec.unackedHigh
<1> DEFINE i == IF Fresh(rec, b) THEN b.inflight ELSE rec.inflight
           q == IF Handoff THEN Larger(rec.maxSeq, b.seq) ELSE 0
           u == Upsert(rec, b)
<1>1. b.lLocal \in Nat /\ b.expiresAt \in Nat
  <2>1. b.lLocal \in Limits /\ b.expiresAt \in Nat
    BY DEF BeatType
  <2> QED BY <2>1, LimitsNat
<1>2. i \in Nat /\ q \in Nat
  BY DEF BeatType, RecordType, Larger
<1>3. u = [rec EXCEPT !.live = TRUE, !.lLocal = b.lLocal, !.expiresAt = b.expiresAt,
                      !.inflight = i, !.maxSeq = q]
  BY DEF Upsert
<1> HIDE DEF u, i, q
<1>4. /\ u \in RecordType
      /\ u.live /\ u.lLocal = b.lLocal /\ u.expiresAt = b.expiresAt /\ u.inflight = i /\ u.maxSeq = q
      /\ u.share = rec.share /\ u.committedGen = rec.committedGen /\ u.unackedHigh = rec.unackedHigh
  BY <1>1, <1>2, <1>3 DEF RecordType
<1> QED BY <1>4 DEF u, i, q

\* applyHeartbeat step 2: the sender's record is kept, and any other whose expiry has passed
\* is gone.
LEMMA ListedRecords ==
  ASSUME NEW r \in [Node -> RecordType], NEW n \in Node, NEW b \in BeatType, NEW t \in Nat
  PROVE  /\ Listed(r, n, b, t) \in [Node -> RecordType]
         /\ Listed(r, n, b, t)[n] = Upsert(r[n], b)
         /\ \A m \in Node : m # n =>
               Listed(r, n, b, t)[m] = IF r[m].live /\ r[m].expiresAt < t THEN NoRecord ELSE r[m]
<1>1. Upsert(r[n], b) \in RecordType
  BY Upserted
<1>2. NoRecord \in RecordType
  BY DEF NoRecord, RecordType
<1>3. Listed(r, n, b, t) = [m \in Node |-> IF m # n /\ r[m].live /\ r[m].expiresAt < t THEN NoRecord
                                            ELSE IF m = n THEN Upsert(r[n], b) ELSE r[m]]
  BY DEF Listed, EvictExpired
<1> QED BY <1>1, <1>2, <1>3

\* What is set aside for a record covers the load it reported (reserve).
LEMMA ReserveNat == ASSUME NEW rec \in RecordType PROVE Reserve(rec) \in Nat /\ Reserve(rec) >= rec.inflight
BY DEF Reserve, RecordType, Larger

\* What is set aside for the other live nodes is a natural (applyHeartbeat step 4).
LEMMA OtherReservedInt ==
  ASSUME NEW r \in [Node -> RecordType], NEW n
  PROVE  OtherReserved(r, n) \in Nat
<1> DEFINE f == [m \in Node |-> IF m # n /\ r[m].live THEN Reserve(r[m]) ELSE 0]
<1>1. \A i \in 1..N : f[i] \in Nat
  BY ReserveNat DEF Node
<1> HIDE DEF f
<1>2. Sum(f, N) \in Nat
  BY <1>1, SumNat, FleetAssumption
<1> QED BY <1>2 DEF OtherReserved, f

\* applyHeartbeat steps 3-5: a grant is never negative, and with what is set aside for the
\* others it stays within MaxLimit, unless it is 0.
LEMMA GrantCapped ==
  ASSUME NEW r \in [Node -> RecordType], NEW n \in Node, r[n].live, \A m \in Live(r) : r[m].lLocal \in Limits
  PROVE  /\ Grant(r, n) \in Nat
         /\ Grant(r, n) = 0 \/ Grant(r, n) + OtherReserved(r, n) <= MaxLimit
<1> DEFINE l == AggregateOf(r)
           o == OtherReserved(r, n)
           target == TargetFor(r, n, l)
<1>1. Live(r) # {}
  BY DEF Live
<1>2. l \in Nat /\ l <= MaxLimit
  <2>1. l \in Limits
    BY <1>1, AggregateIsALimit
  <2> HIDE DEF l
  <2> QED BY <2>1, FleetAssumption
<1>3. o \in Nat
  BY OtherReservedInt
<1>4. target \in Int
  BY <1>2, TargetInt
<1>5. Grant(r, n) = Larger(0, Smaller(target, l - o))
  BY DEF Grant
<1> HIDE DEF l, o, target
<1>6. Larger(0, Smaller(target, l - o)) \in Nat
  BY <1>2, <1>3, <1>4 DEF Larger, Smaller
<1>7. Larger(0, Smaller(target, l - o)) = 0 \/ Larger(0, Smaller(target, l - o)) + o <= MaxLimit
  BY <1>2, <1>3, <1>4, FleetAssumption DEF Larger, Smaller
<1> QED BY <1>5, <1>6, <1>7 DEF o

\* What is set aside for the others does not depend on the node's own record.
LEMMA OtherReservedElsewhere ==
  ASSUME NEW r \in [Node -> RecordType], NEW q \in [Node -> RecordType], NEW n,
         \A m \in Node : m # n => r[m] = q[m]
  PROVE  OtherReserved(r, n) = OtherReserved(q, n)
<1>1. [m \in Node |-> IF m # n /\ r[m].live THEN Reserve(r[m]) ELSE 0]
        = [m \in Node |-> IF m # n /\ q[m].live THEN Reserve(q[m]) ELSE 0]
  OBVIOUS
<1> QED BY <1>1 DEF OtherReserved

NextGen(rec, s) == IF s = rec.share THEN rec.committedGen ELSE rec.committedGen + 1
NextFloor(rec, s, b) == IF b.appliedGen >= NextGen(rec, s) THEN s ELSE Larger(rec.unackedHigh, s)

\* applyHeartbeat step 6: the record after the grant s is committed. A changed share takes
\* the next generation; the floor is the share once its generation is acknowledged.
LEMMA CommittedRecord ==
  ASSUME NEW rec \in RecordType, NEW s \in Nat, NEW b \in BeatType
  PROVE  /\ Committed(rec, s, b) \in RecordType
         /\ Committed(rec, s, b).live = rec.live /\ Committed(rec, s, b).lLocal = rec.lLocal
         /\ Committed(rec, s, b).inflight = rec.inflight /\ Committed(rec, s, b).maxSeq = rec.maxSeq
         /\ Committed(rec, s, b).expiresAt = rec.expiresAt /\ Committed(rec, s, b).share = s
         /\ Handoff => /\ Committed(rec, s, b).committedGen = NextGen(rec, s)
                       /\ Committed(rec, s, b).unackedHigh = NextFloor(rec, s, b)
<1> DEFINE c == Committed(rec, s, b)
<1>1. CASE ~Handoff
  <2>1. c = [rec EXCEPT !.share = s]
    BY <1>1 DEF Committed
  <2> HIDE DEF c
  <2>2. /\ c \in RecordType
        /\ c.live = rec.live /\ c.lLocal = rec.lLocal /\ c.inflight = rec.inflight
        /\ c.expiresAt = rec.expiresAt /\ c.maxSeq = rec.maxSeq /\ c.share = s
    BY <2>1 DEF RecordType
  <2> QED BY <1>1, <2>2 DEF c
<1>2. CASE Handoff
  <2> DEFINE g == NextGen(rec, s)
             h == NextFloor(rec, s, b)
  <2>1. c = [rec EXCEPT !.share = s, !.committedGen = g, !.unackedHigh = h]
    BY <1>2 DEF Committed, NextGen, NextFloor
  <2>2. g \in Nat
    BY DEF NextGen, RecordType
  <2>3. h \in Nat
    BY DEF NextFloor, RecordType, Larger
  <2> HIDE DEF g, h, c
  <2>4. /\ c \in RecordType
        /\ c.live = rec.live /\ c.lLocal = rec.lLocal /\ c.inflight = rec.inflight
        /\ c.expiresAt = rec.expiresAt /\ c.maxSeq = rec.maxSeq
        /\ c.share = s /\ c.committedGen = g /\ c.unackedHigh = h
    BY <2>1, <2>2, <2>3 DEF RecordType
  <2> QED BY <2>4 DEF g, h, c
<1> QED BY <1>1, <1>2

\* What a heartbeat does to the registry.
HeartbeatEffect(r, q, n, b, t) ==
    /\ q \in [Node -> RecordType]
    /\ \A m \in Node : m # n => q[m] = IF r[m].live /\ r[m].expiresAt < t THEN NoRecord ELSE r[m]
    /\ q[n].live /\ q[n].lLocal = b.lLocal /\ q[n].expiresAt = b.expiresAt
    /\ q[n].maxSeq = IF Handoff THEN Larger(r[n].maxSeq, b.seq) ELSE 0
    /\ Fresh(r[n], b) =>
          /\ q[n].inflight = b.inflight
          /\ q[n].share = 0 \/ q[n].share + OtherReserved(q, n) <= MaxLimit
          /\ Handoff => /\ q[n].committedGen = NextGen(r[n], q[n].share)
                        /\ q[n].unackedHigh = NextFloor(r[n], q[n].share, b)
    /\ ~Fresh(r[n], b) =>
          /\ q[n].inflight = r[n].inflight /\ q[n].share = r[n].share
          /\ q[n].committedGen = r[n].committedGen /\ q[n].unackedHigh = r[n].unackedHigh

\* applyHeartbeat() as a whole has the effect stated above.
LEMMA HeartbeatApplied ==
  ASSUME NEW r \in [Node -> RecordType], NEW n \in Node, NEW b \in BeatType, NEW t \in Nat,
         \A m \in Live(r) : r[m].lLocal \in Limits
  PROVE  HeartbeatEffect(r, ApplyHeartbeat(r, n, b, t), n, b, t)
<1> DEFINE r1 == Listed(r, n, b, t)
           q == ApplyHeartbeat(r, n, b, t)
           u == Upsert(r[n], b)
<1>1. /\ r1 \in [Node -> RecordType]
      /\ r1[n] = u
      /\ \A m \in Node : m # n => r1[m] = IF r[m].live /\ r[m].expiresAt < t THEN NoRecord ELSE r[m]
  BY ListedRecords
<1>2. q = IF Fresh(r[n], b) THEN [r1 EXCEPT ![n] = Committed(@, Grant(r1, n), b)] ELSE r1
  BY DEF ApplyHeartbeat, Listed
<1>3. /\ u \in RecordType /\ u.live /\ u.lLocal = b.lLocal /\ u.expiresAt = b.expiresAt
      /\ u.inflight = (IF Fresh(r[n], b) THEN b.inflight ELSE r[n].inflight)
      /\ u.maxSeq = (IF Handoff THEN Larger(r[n].maxSeq, b.seq) ELSE 0)
      /\ u.share = r[n].share /\ u.committedGen = r[n].committedGen /\ u.unackedHigh = r[n].unackedHigh
  BY Upserted
<1>4. \A m \in Live(r1) : r1[m].lLocal \in Limits
  <2> SUFFICES ASSUME NEW m \in Node, r1[m].live PROVE r1[m].lLocal \in Limits
    BY DEF Live
  <2>1. CASE m = n
    BY <1>1, <1>3, <2>1 DEF BeatType
  <2>2. CASE m # n
    <3>1. r1[m] = r[m] /\ r[m].live
      BY <1>1, <2>2 DEF NoRecord
    <3> QED BY <3>1 DEF Live
  <2> QED BY <2>1, <2>2
<1> HIDE DEF r1, u
<1>5. Grant(r1, n) \in Nat /\ (Grant(r1, n) = 0 \/ Grant(r1, n) + OtherReserved(r1, n) <= MaxLimit)
  BY <1>1, <1>3, <1>4, GrantCapped
<1>6. CASE Fresh(r[n], b)
  <2> DEFINE c == Committed(u, Grant(r1, n), b)
  <2>1. q = [r1 EXCEPT ![n] = c]
    BY <1>1, <1>2, <1>6
  <2>2. /\ c \in RecordType
        /\ c.live = u.live /\ c.lLocal = u.lLocal /\ c.inflight = u.inflight
        /\ c.expiresAt = u.expiresAt /\ c.maxSeq = u.maxSeq /\ c.share = Grant(r1, n)
        /\ Handoff => c.committedGen = NextGen(u, Grant(r1, n)) /\ c.unackedHigh = NextFloor(u, Grant(r1, n), b)
    <3>1. u \in RecordType /\ Grant(r1, n) \in Nat
      BY <1>3, <1>5
    <3> QED BY <3>1, CommittedRecord
  <2>c. /\ NextGen(u, Grant(r1, n)) = NextGen(r[n], Grant(r1, n))
        /\ NextFloor(u, Grant(r1, n), b) = NextFloor(r[n], Grant(r1, n), b)
    BY <1>3 DEF NextGen, NextFloor
  <2> HIDE DEF c, q
  <2>3. q \in [Node -> RecordType] /\ q[n] = c /\ \A m \in Node : m # n => q[m] = r1[m]
    BY <1>1, <2>1, <2>2
  <2>4. OtherReserved(q, n) = OtherReserved(r1, n)
    BY <1>1, <2>3, OtherReservedElsewhere
  <2>5. HeartbeatEffect(r, q, n, b, t)
    BY ZenonT(60), <1>1, <1>3, <1>5, <1>6, <2>2, <2>c, <2>3, <2>4 DEF HeartbeatEffect
  <2> QED BY <2>5 DEF q
<1>7. CASE ~Fresh(r[n], b)
  <2>1. q = r1
    BY SMTT(30), <1>2, <1>7
  <2> HIDE DEF q
  <2>2. HeartbeatEffect(r, q, n, b, t)
    BY SMTT(30), <1>1, <1>3, <1>7, <2>1 DEF HeartbeatEffect
  <2> QED BY <2>2 DEF q
<1> QED BY <1>6, <1>7

----------------------------------------------------------------------------
(* Types *)

\* Each assignment the guard's operations make keeps its type.
LEMMA GuardEdits ==
  ASSUME NEW g \in GuardType
  PROVE  /\ \A i \in Nat : [g EXCEPT !.inflight = i] \in GuardType
         /\ \A i \in Nat, l \in Limits : [g EXCEPT !.inflight = i, !.limit = l] \in GuardType
         /\ \A i \in Nat : [g EXCEPT !.heartbeatSeq = i] \in GuardType
         /\ \A p \in {"open", "closed", "down"} : [g EXCEPT !.phase = p] \in GuardType
         /\ \A i \in Nat : [g EXCEPT !.phase = "down", !.inflight = i] \in GuardType
         /\ \A e \in Nat : [g EXCEPT !.leaseExpiresAt = e, !.everLeased = TRUE] \in GuardType
         /\ \A q \in Nat, s \in Nat, a \in Nat : [g EXCEPT !.appliedSeq = q, !.share = s, !.appliedGen = a] \in GuardType
         /\ \A q \in Nat, s \in Nat : [g EXCEPT !.appliedSeq = q, !.share = s] \in GuardType
BY DEF GuardType

\* A call keeps its type when it is answered or rejects.
LEMMA BeatEdits ==
  ASSUME NEW b \in BeatType
  PROVE  /\ [b EXCEPT !.st = "failed"] \in BeatType
         /\ \A s \in Nat, g \in Nat : [b EXCEPT !.st = "replied", !.share = s, !.gen = g] \in BeatType
BY DEF BeatType

\* A delivered call b, answered from the record q.
AnswerTo(b, q) == [b EXCEPT !.st = "replied", !.share = q.share, !.gen = q.committedGen]

\* The answer carries the call's number and expiry and the record's share and generation.
LEMMA AnswerFields ==
  ASSUME NEW b \in BeatType, NEW q \in RecordType
  PROVE  /\ AnswerTo(b, q) \in BeatType /\ AnswerTo(b, q).seq = b.seq /\ AnswerTo(b, q).st = "replied"
         /\ AnswerTo(b, q).expiresAt = b.expiresAt /\ AnswerTo(b, q).share = q.share /\ AnswerTo(b, q).gen = q.committedGen
BY DEF AnswerTo, BeatType, RecordType

\* TypeOK, for one node.
LEMMA Typed ==
  ASSUME TypeOK, NEW n \in Node
  PROVE  /\ reg[n] \in RecordType /\ guard[n] \in GuardType /\ now \in Nat
         /\ \A b \in beats[n] : b \in BeatType
BY FleetAssumption DEF TypeOK

\* A delivered call applies applyHeartbeat() at a coordinator clock at most MaxSkew ahead.
LEMMA Delivered ==
  ASSUME TypeOK, RecordInv, NEW n \in Node, NEW b \in beats[n], Deliver(n, b)
  PROVE  \E d \in 0..MaxSkew : HeartbeatEffect(reg, reg', n, b, now + d)
<1>1. PICK d \in 0..MaxSkew : reg' = ApplyHeartbeat(reg, n, b, now + d)
  BY DEF Deliver
<1>2. now + d \in Nat
  <2>1. MaxSkew \in Nat /\ now \in Nat
    BY FleetAssumption, Typed
  <2> QED BY <2>1
<1>3. b \in BeatType /\ reg \in [Node -> RecordType]
  BY Typed DEF TypeOK
<1>4. \A m \in Live(reg) : reg[m].lLocal \in Limits
  BY DEF RecordInv, Live
<1>5. HeartbeatEffect(reg, ApplyHeartbeat(reg, n, b, now + d), n, b, now + d)
  BY <1>2, <1>3, <1>4, HeartbeatApplied
<1> QED BY <1>1, <1>5

\* runHeartbeat(), answered: the lease is renewed; the grant is applied unless a later call
\* was answered before (mySeq < appliedSeq).
LEMMA RepliedGuard ==
  ASSUME TypeOK, NEW n \in Node, NEW b \in beats[n], Reply(n, b)
  PROVE  \E h \in GuardType :
            /\ guard' = [guard EXCEPT ![n] = h]
            /\ h.phase = guard[n].phase /\ h.inflight = guard[n].inflight /\ h.limit = guard[n].limit
            /\ h.heartbeatSeq = guard[n].heartbeatSeq
            /\ h.leaseExpiresAt = b.expiresAt /\ h.everLeased
            /\ IF NotOvertaken(guard[n], b)
               THEN /\ h.appliedSeq = b.seq /\ h.share = b.share
                    /\ h.appliedGen = IF Handoff THEN b.gen ELSE guard[n].appliedGen
               ELSE h.appliedSeq = guard[n].appliedSeq /\ h.share = guard[n].share /\ h.appliedGen = guard[n].appliedGen
<1> DEFINE g == guard[n]
           renewed == [g EXCEPT !.leaseExpiresAt = b.expiresAt, !.everLeased = TRUE]
           gen == IF Handoff THEN b.gen ELSE renewed.appliedGen
           applied == [renewed EXCEPT !.appliedSeq = b.seq, !.share = b.share, !.appliedGen = gen]
           h == IF NotOvertaken(g, b) THEN applied ELSE renewed
<1>1. g \in GuardType /\ b.expiresAt \in Nat /\ b.seq \in Nat /\ b.share \in Nat /\ b.gen \in Nat
  BY Typed DEF BeatType
<1>2. guard' = [guard EXCEPT ![n] = h]
  BY DEF Reply, TypeOK
<1> HIDE DEF g
<1>3. /\ renewed \in GuardType
      /\ renewed.phase = g.phase /\ renewed.inflight = g.inflight /\ renewed.limit = g.limit
      /\ renewed.heartbeatSeq = g.heartbeatSeq /\ renewed.leaseExpiresAt = b.expiresAt /\ renewed.everLeased
      /\ renewed.appliedSeq = g.appliedSeq /\ renewed.share = g.share /\ renewed.appliedGen = g.appliedGen
  BY <1>1 DEF GuardType
<1> HIDE DEF renewed
<1>4. gen \in Nat /\ gen = IF Handoff THEN b.gen ELSE g.appliedGen
  BY <1>1, <1>3 DEF GuardType
<1> HIDE DEF gen
<1>5. /\ applied \in GuardType
      /\ applied.phase = g.phase /\ applied.inflight = g.inflight /\ applied.limit = g.limit
      /\ applied.heartbeatSeq = g.heartbeatSeq /\ applied.leaseExpiresAt = b.expiresAt /\ applied.everLeased
      /\ applied.appliedSeq = b.seq /\ applied.share = b.share /\ applied.appliedGen = gen
  BY <1>1, <1>3, <1>4 DEF GuardType
<1> HIDE DEF applied
<1>6. CASE NotOvertaken(g, b)
  BY <1>2, <1>4, <1>5, <1>6 DEF g
<1>7. CASE ~NotOvertaken(g, b)
  BY <1>2, <1>3, <1>7 DEF g
<1> QED BY <1>6, <1>7

\* runHeartbeat(), rejected: unless overtaken, fail-closed drops the share to 0 and
\* fail-open raises it to the local limit.
LEMMA RejectedGuard ==
  ASSUME TypeOK, NEW n \in Node, NEW b \in beats[n], Outage(n, b)
  PROVE  \E h \in GuardType :
            /\ guard' = [guard EXCEPT ![n] = h]
            /\ h.phase = guard[n].phase /\ h.inflight = guard[n].inflight /\ h.limit = guard[n].limit
            /\ h.heartbeatSeq = guard[n].heartbeatSeq /\ h.appliedGen = guard[n].appliedGen
            /\ h.leaseExpiresAt = guard[n].leaseExpiresAt /\ h.everLeased = guard[n].everLeased
            /\ IF NotOvertaken(guard[n], b)
               THEN h.appliedSeq = b.seq /\ h.share = IF FailClosed THEN 0 ELSE guard[n].limit
               ELSE h = guard[n]
<1> DEFINE g == guard[n]
           s == IF FailClosed THEN 0 ELSE g.limit
           out == [g EXCEPT !.appliedSeq = b.seq, !.share = s]
<1>1. g \in GuardType /\ b.seq \in Nat /\ s \in Nat
  BY Typed, LimitsNat DEF BeatType, GuardType
<1>2. guard' = [guard EXCEPT ![n] = IF NotOvertaken(g, b) THEN out ELSE g]
  BY DEF Outage, TypeOK
<1> HIDE DEF g, s
<1>3. /\ out \in GuardType
      /\ out.phase = g.phase /\ out.inflight = g.inflight /\ out.limit = g.limit
      /\ out.heartbeatSeq = g.heartbeatSeq /\ out.leaseExpiresAt = g.leaseExpiresAt /\ out.everLeased = g.everLeased
      /\ out.appliedSeq = b.seq /\ out.share = s /\ out.appliedGen = g.appliedGen
  BY <1>1 DEF GuardType
<1> HIDE DEF out
<1>4. CASE NotOvertaken(g, b)
  BY <1>2, <1>3, <1>4 DEF g, s
<1>5. CASE ~NotOvertaken(g, b)
  BY <1>1, <1>2, <1>5 DEF g
<1> QED BY <1>4, <1>5

\* An idle fleet is well typed and its records well formed.
LEMMA TypeInit == Init => TypeOK /\ RecordInv
<1> SUFFICES ASSUME Init PROVE TypeOK /\ RecordInv
  OBVIOUS
<1>1. \A l \in Limits : NewGuard(l) \in GuardType
  BY LimitsNat DEF NewGuard, GuardType
<1>2. guard \in [Node -> GuardType]
  BY <1>1 DEF Init
<1>3. NoRecord \in RecordType /\ ~NoRecord.live /\ NoRecord.share = 0 /\ NoRecord.unackedHigh = 0
  BY DEF NoRecord, RecordType
<1>4. TypeOK
  BY <1>2, <1>3, FleetAssumption DEF Init, TypeOK
<1>5. RecordInv
  BY <1>3 DEF Init, RecordInv
<1> QED BY <1>4, <1>5

\* Every step of the fleet keeps the types.
LEMMA TypeStep == TypeOK /\ RecordInv /\ [Next]_vars => TypeOK'
<1> SUFFICES ASSUME TypeOK, RecordInv, [Next]_vars PROVE TypeOK'
  OBVIOUS
<1> USE Typed
<1>1. ASSUME NEW n \in Node, Acquire(n) PROVE TypeOK'
  <2>1. [guard[n] EXCEPT !.inflight = guard[n].inflight + 1] \in GuardType
    <3>1. guard[n].inflight + 1 \in Nat
      BY DEF GuardType
    <3> QED BY <3>1, GuardEdits
  <2>2. guard' = [guard EXCEPT ![n] = [guard[n] EXCEPT !.inflight = guard[n].inflight + 1]]
    BY <1>1 DEF Acquire, TypeOK
  <2> QED BY <1>1, <2>1, <2>2 DEF Acquire, TypeOK
<1>2. ASSUME NEW n \in Node, Release(n) PROVE TypeOK'
  <2>1. PICK l \in Limits : guard' = [guard EXCEPT ![n].inflight = @ - 1, ![n].limit = l]
    BY <1>2 DEF Release
  <2>2. guard[n].inflight - 1 \in Nat
    BY <1>2 DEF Release, GuardType
  <2>3. [guard[n] EXCEPT !.inflight = guard[n].inflight - 1, !.limit = l] \in GuardType
    BY <2>2, GuardEdits
  <2>4. guard' = [guard EXCEPT ![n] = [guard[n] EXCEPT !.inflight = guard[n].inflight - 1, !.limit = l]]
    BY <2>1 DEF TypeOK
  <2> QED BY <1>2, <2>3, <2>4 DEF Release, TypeOK
<1>3. ASSUME NEW n \in Node, Beat(n) PROVE TypeOK'
  <2> DEFINE g == guard[n]
             c == [seq |-> g.heartbeatSeq + 1, lLocal |-> g.limit, inflight |-> g.inflight, expiresAt |-> now + LeaseTtl,
                   appliedGen |-> g.appliedGen, st |-> "sent", share |-> 0, gen |-> 0]
  <2>1. g.heartbeatSeq + 1 \in Nat /\ now + LeaseTtl \in Nat
    BY SMTT(30), FleetAssumption DEF GuardType
  <2>2. [g EXCEPT !.heartbeatSeq = g.heartbeatSeq + 1] \in GuardType
    BY <2>1, GuardEdits
  <2>3. c \in BeatType
    BY <2>1 DEF BeatType, GuardType
  <2>4. guard' = [guard EXCEPT ![n] = [g EXCEPT !.heartbeatSeq = g.heartbeatSeq + 1]]
    BY <1>3 DEF Beat, TypeOK
  <2>5. beats' = [beats EXCEPT ![n] = @ \cup {c}]
    BY <1>3 DEF Beat
  <2> HIDE DEF c, g
  <2>6. guard' \in [Node -> GuardType] /\ beats' \in [Node -> SUBSET BeatType]
    BY <2>2, <2>3, <2>4, <2>5 DEF TypeOK
  <2> QED BY <1>3, <2>6 DEF Beat, TypeOK
<1>4. ASSUME NEW n \in Node, Close(n) PROVE TypeOK'
  <2>1. [guard[n] EXCEPT !.phase = "closed"] \in GuardType
    BY GuardEdits
  <2>2. guard' = [guard EXCEPT ![n] = [guard[n] EXCEPT !.phase = "closed"]]
    BY <1>4 DEF Close, TypeOK
  <2> QED BY <1>4, <2>1, <2>2 DEF Close, TypeOK
<1>5. ASSUME NEW n \in Node, Crash(n) PROVE TypeOK'
  <2>1. [guard[n] EXCEPT !.phase = "down", !.inflight = 0] \in GuardType
    BY GuardEdits
  <2>2. guard' = [guard EXCEPT ![n] = [guard[n] EXCEPT !.phase = "down", !.inflight = 0]]
    BY <1>5 DEF Crash, TypeOK
  <2>3. guard' \in [Node -> GuardType]
    BY <2>1, <2>2 DEF TypeOK
  <2>4. beats' \in [Node -> SUBSET BeatType]
    BY <1>5 DEF Crash, TypeOK
  <2> QED BY <1>5, <2>3, <2>4 DEF Crash, TypeOK
<1>6. ASSUME NEW n \in Node, LeaveTakesEffect(n) PROVE TypeOK'
  <2>1. NoRecord \in RecordType
    BY DEF NoRecord, RecordType
  <2> QED BY <1>6, <2>1 DEF LeaveTakesEffect, TypeOK
<1>7. ASSUME NEW n \in Node, LeaveFails(n) PROVE TypeOK'
  BY <1>7 DEF LeaveFails, TypeOK
<1>8. ASSUME NEW n \in Node, NEW b \in beats[n], Deliver(n, b) PROVE TypeOK'
  <2>1. PICK d \in 0..MaxSkew : HeartbeatEffect(reg, reg', n, b, now + d)
    BY <1>8, Delivered
  <2>2. reg' \in [Node -> RecordType]
    BY <2>1 DEF HeartbeatEffect
  <2>3. reg'[n].share \in Nat /\ reg'[n].committedGen \in Nat
    BY <2>2 DEF RecordType
  <2>4. [b EXCEPT !.st = "replied", !.share = reg'[n].share, !.gen = reg'[n].committedGen] \in BeatType
    BY <2>3, BeatEdits
  <2>5. beats' \in [Node -> SUBSET BeatType]
    BY <1>8, <2>4 DEF Deliver, TypeOK
  <2> QED BY <1>8, <2>2, <2>5 DEF Deliver, TypeOK
<1>9. ASSUME NEW n \in Node, NEW b \in beats[n], LoseCall(n, b) PROVE TypeOK'
  <2>1. [b EXCEPT !.st = "failed"] \in BeatType
    BY BeatEdits
  <2> QED BY <1>9, <2>1 DEF LoseCall, TypeOK
<1>10. ASSUME NEW n \in Node, NEW b \in beats[n], Reply(n, b) PROVE TypeOK'
  <2> DEFINE renewed == [guard[n] EXCEPT !.leaseExpiresAt = b.expiresAt, !.everLeased = TRUE]
             applied == [renewed EXCEPT !.appliedSeq = b.seq, !.share = b.share,
                                        !.appliedGen = IF Handoff THEN b.gen ELSE @]
  <2>1. b.expiresAt \in Nat /\ b.seq \in Nat /\ b.share \in Nat /\ b.gen \in Nat
    BY DEF BeatType
  <2>2. renewed \in GuardType
    BY Zenon, <2>1, GuardEdits
  <2>3. applied \in GuardType
    <3> HIDE DEF renewed
    <3>1. (IF Handoff THEN b.gen ELSE renewed.appliedGen) \in Nat
      BY <2>1, <2>2 DEF GuardType
    <3> QED BY <2>1, <2>2, <3>1, GuardEdits
  <2>4. guard' = [guard EXCEPT ![n] = IF NotOvertaken(guard[n], b) THEN applied ELSE renewed]
    BY <1>10 DEF Reply, TypeOK
  <2> HIDE DEF renewed, applied
  <2>5. guard' \in [Node -> GuardType]
    BY <2>2, <2>3, <2>4 DEF TypeOK
  <2>6. beats' \in [Node -> SUBSET BeatType]
    BY <1>10 DEF Reply, TypeOK
  <2> QED BY <1>10, <2>5, <2>6 DEF Reply, TypeOK
<1>11. ASSUME NEW n \in Node, NEW b \in beats[n], Outage(n, b) PROVE TypeOK'
  <2> DEFINE s == IF FailClosed THEN 0 ELSE guard[n].limit
             out == [guard[n] EXCEPT !.appliedSeq = b.seq, !.share = s]
  <2>1. b.seq \in Nat /\ s \in Nat
    BY LimitsNat DEF BeatType, GuardType
  <2>2. out \in GuardType
    BY <2>1, GuardEdits
  <2>3. guard' = [guard EXCEPT ![n] = IF NotOvertaken(guard[n], b) THEN out ELSE guard[n]]
    BY <1>11 DEF Outage, TypeOK
  <2> HIDE DEF out
  <2>4. guard' \in [Node -> GuardType]
    BY <2>2, <2>3 DEF TypeOK
  <2>5. beats' \in [Node -> SUBSET BeatType]
    BY <1>11 DEF Outage, TypeOK
  <2> QED BY <1>11, <2>4, <2>5 DEF Outage, TypeOK
<1>12. CASE Tick
  BY <1>12, FleetAssumption DEF Tick, TypeOK
<1>13. CASE UNCHANGED vars
  BY <1>13 DEF vars, TypeOK
<1> QED
  BY <1>1, <1>2, <1>3, <1>4, <1>5, <1>6, <1>7, <1>8, <1>9, <1>10, <1>11, <1>12, <1>13 DEF Next

\* Every step of the fleet keeps the records well formed.
LEMMA RecordStep == TypeOK /\ RecordInv /\ [Next]_vars => RecordInv'
<1> SUFFICES ASSUME TypeOK, RecordInv, [Next]_vars PROVE RecordInv'
  OBVIOUS
<1> DEFINE R(rec) == /\ IF rec.live THEN rec.lLocal \in Limits ELSE rec = NoRecord
                     /\ Handoff => rec.share <= rec.unackedHigh
<1>1. \A n \in Node : R(reg[n]) /\ \A b \in beats[n] : b.seq > 0
  BY DEF RecordInv
<1>2. R(NoRecord)
  BY DEF NoRecord
<1>3. CASE UNCHANGED <<reg, beats>>
  BY <1>3 DEF RecordInv
<1>4. ASSUME NEW n \in Node, Beat(n) PROVE RecordInv'
  <2>1. guard[n].heartbeatSeq + 1 > 0
    BY Typed DEF GuardType
  <2>2. reg' = reg /\ \A m \in Node : \A b \in beats'[m] : b \in beats[m] \/ b.seq = guard[n].heartbeatSeq + 1
    BY <1>4 DEF Beat, TypeOK
  <2> QED BY <1>1, <2>1, <2>2 DEF RecordInv
<1>5. ASSUME NEW n \in Node, Crash(n) PROVE RecordInv'
  <2>1. reg' = reg /\ \A m \in Node : beats'[m] \subseteq beats[m]
    BY <1>5 DEF Crash, TypeOK
  <2> QED BY <1>1, <2>1 DEF RecordInv
<1>6. ASSUME NEW n \in Node, LeaveTakesEffect(n) PROVE RecordInv'
  <2>1. beats' = beats /\ \A m \in Node : reg'[m] = reg[m] \/ reg'[m] = NoRecord
    BY <1>6 DEF LeaveTakesEffect, TypeOK
  <2>2. \A m \in Node : R(reg'[m])
    BY <1>1, <1>2, <2>1
  <2> QED BY <1>1, <2>1, <2>2 DEF RecordInv
<1>7. ASSUME NEW n \in Node, NEW b \in beats[n], Deliver(n, b) PROVE RecordInv'
  <2>1. PICK d \in 0..MaxSkew : HeartbeatEffect(reg, reg', n, b, now + d)
    BY <1>7, Delivered
  <2>2. \A m \in Node : m # n => R(reg'[m])
    <3>1. \A m \in Node : m # n => reg'[m] = reg[m] \/ reg'[m] = NoRecord
      BY <2>1 DEF HeartbeatEffect
    <3> HIDE DEF R
    <3> QED BY <1>1, <1>2, <3>1
  <2>3. reg'[n].live /\ reg'[n].lLocal \in Limits
    BY <2>1, Typed DEF HeartbeatEffect, BeatType
  <2>4. Handoff => reg'[n].share <= reg'[n].unackedHigh
    <3>1. reg[n] \in RecordType /\ reg'[n] \in RecordType
      BY <2>1 DEF HeartbeatEffect, TypeOK
    <3>2. CASE Fresh(reg[n], b)
      <4>1. Handoff => reg'[n].unackedHigh = NextFloor(reg[n], reg'[n].share, b)
        BY <2>1, <3>2 DEF HeartbeatEffect
      <4> QED BY <3>1, <4>1 DEF NextFloor, RecordType, Larger
    <3>3. CASE ~Fresh(reg[n], b)
      BY <1>1, <2>1, <3>1, <3>3 DEF HeartbeatEffect
    <3> QED BY <3>2, <3>3
  <2>5. \A m \in Node : \A c \in beats'[m] : c.seq > 0
    <3>1. [b EXCEPT !.st = "replied", !.share = reg'[n].share, !.gen = reg'[n].committedGen].seq = b.seq
      BY Typed DEF BeatType
    <3>2. \A m \in Node : \A c \in beats'[m] : c \in beats[m] \/
             c = [b EXCEPT !.st = "replied", !.share = reg'[n].share, !.gen = reg'[n].committedGen]
      BY <1>7 DEF Deliver, TypeOK
    <3> QED BY <1>1, <3>1, <3>2
  <2> QED BY <2>2, <2>3, <2>4, <2>5 DEF RecordInv
<1>8. ASSUME NEW n \in Node, NEW b \in beats[n], LoseCall(n, b) PROVE RecordInv'
  <2>1. [b EXCEPT !.st = "failed"].seq = b.seq
    BY Typed DEF BeatType
  <2>2. reg' = reg /\ \A m \in Node : \A c \in beats'[m] : c \in beats[m] \/ c = [b EXCEPT !.st = "failed"]
    BY <1>8 DEF LoseCall, TypeOK
  <2> QED BY <1>1, <2>1, <2>2 DEF RecordInv
<1>9. ASSUME NEW n \in Node, NEW b \in beats[n], Reply(n, b) \/ Outage(n, b) PROVE RecordInv'
  <2>1. reg' = reg /\ \A m \in Node : beats'[m] \subseteq beats[m]
    BY <1>9 DEF Reply, Outage, TypeOK
  <2> QED BY <1>1, <2>1 DEF RecordInv
<1> QED
  <2>1. CASE Next
    BY <1>3, <1>4, <1>5, <1>6, <1>7, <1>8, <1>9, <2>1 DEF Next, Acquire, Release, Close, LeaveFails, Tick
  <2>2. CASE UNCHANGED vars
    BY <1>3, <2>2 DEF vars
  <2> QED BY <2>1, <2>2

\* TypeOK for every fleet: a grant is never negative, whatever the registry holds, and
\* no release() drives the in-flight count below 0 (applyHeartbeat, release).
THEOREM FleetTypeCorrect == Spec => []TypeOK
<1>1. Init => TypeOK /\ RecordInv
  BY TypeInit
<1>2. TypeOK /\ RecordInv /\ [Next]_vars => TypeOK' /\ RecordInv'
  BY TypeStep, RecordStep
<1> QED BY <1>1, <1>2, PTL DEF Spec

----------------------------------------------------------------------------
(* GlobalCap *)

\* Every step keeps the shares of the live records within the largest limit: only a fresh
\* heartbeat raises a share, and its grant is capped by what the others are set aside.
LEMMA GlobalCapStep == TypeOK /\ RecordInv /\ GlobalCap /\ [Next]_vars => GlobalCap'
<1> SUFFICES ASSUME TypeOK, RecordInv, GlobalCap, [Next]_vars PROVE GlobalCap'
  OBVIOUS
<1> DEFINE f == [n \in Node |-> IF reg[n].live THEN reg[n].share ELSE 0]
           h == [n \in Node |-> IF reg'[n].live THEN reg'[n].share ELSE 0]
<1>1. N \in Nat /\ MaxLimit \in Nat /\ Node = 1..N
  BY FleetAssumption DEF Node
<1>2. TypeOK' /\ RecordInv'
  BY TypeStep, RecordStep
<1>3. \A i \in 1..N : f[i] \in Nat /\ h[i] \in Nat
  BY <1>1, <1>2 DEF TypeOK, RecordType
<1>4. Sum(f, N) \in Nat /\ Sum(h, N) \in Nat
  <2> HIDE DEF f, h
  <2> QED BY <1>1, <1>3, SumNat
<1>5. Sum(f, N) <= MaxLimit
  BY DEF GlobalCap, GrantedShares
<1>6. ASSUME \A i \in 1..N : h[i] <= f[i] PROVE GlobalCap'
  <2> HIDE DEF f, h
  <2>1. Sum(h, N) <= Sum(f, N)
    BY <1>1, <1>3, <1>6, SumMonotone
  <2>2. Sum(h, N) <= MaxLimit
    BY <1>1, <1>4, <1>5, <2>1
  <2> QED BY <2>2 DEF GlobalCap, GrantedShares, h
<1>7. ASSUME NEW n \in Node, LeaveTakesEffect(n) PROVE GlobalCap'
  <2>1. \A i \in 1..N : reg'[i] = reg[i] \/ reg'[i] = NoRecord
    BY <1>1, <1>7 DEF LeaveTakesEffect, TypeOK
  <2>2. \A i \in 1..N : h[i] <= f[i]
    BY <1>1, <1>3, <2>1 DEF NoRecord
  <2> QED BY <1>6, <2>2
<1>8. ASSUME NEW n \in Node, NEW b \in beats[n], Deliver(n, b) PROVE GlobalCap'
  <2>1. PICK d \in 0..MaxSkew : HeartbeatEffect(reg, reg', n, b, now + d)
    BY <1>8, Delivered
  <2>2. \A i \in 1..N : i # n => reg'[i] = reg[i] \/ reg'[i] = NoRecord
    BY <1>1, <2>1 DEF HeartbeatEffect
  <2>3. \A i \in 1..N : i # n => h[i] <= f[i]
    BY <1>1, <1>3, <2>2 DEF NoRecord
  <2>4. CASE reg'[n].share = 0 \/ ~Fresh(reg[n], b)
    <3>1. h[n] <= f[n]
      <4>1. CASE reg'[n].share = 0
        BY <1>1, <1>3, <4>1
      <4>2. CASE ~Fresh(reg[n], b)
        <5>1. reg'[n].share = reg[n].share
          BY <2>1, <4>2 DEF HeartbeatEffect
        <5>2. ~reg[n].live => reg[n].share = 0
          BY DEF RecordInv, NoRecord
        <5> QED BY <1>1, <1>3, <5>1, <5>2
      <4> QED BY <2>4, <4>1, <4>2
    <3> HIDE DEF f, h
    <3> QED BY <1>6, <2>3, <3>1
  <2>5. CASE reg'[n].share # 0 /\ Fresh(reg[n], b)
    <3> DEFINE o == [m \in Node |-> IF m # n /\ reg'[m].live THEN Reserve(reg'[m]) ELSE 0]
               z == [m \in Node |-> IF m = n THEN 0 ELSE h[m]]
    <3>1. reg'[n].share + OtherReserved(reg', n) <= MaxLimit
      BY <2>1, <2>5 DEF HeartbeatEffect
    <3>2. \A i \in 1..N : z[i] \in Int /\ o[i] \in Int /\ z[i] <= o[i]
      <4> SUFFICES ASSUME NEW i \in Node PROVE z[i] \in Int /\ o[i] \in Int /\ z[i] <= o[i]
        BY <1>1
      <4>1. reg'[i] \in RecordType /\ (Handoff => reg'[i].share <= reg'[i].unackedHigh)
        BY <1>2 DEF TypeOK, RecordInv
      <4>2. Reserve(reg'[i]) \in Nat /\ reg'[i].share <= Reserve(reg'[i])
        BY <4>1 DEF Reserve, Larger, RecordType
      <4> QED BY <4>1, <4>2 DEF RecordType
    <3>3. Sum(o, N) = OtherReserved(reg', n)
      BY DEF OtherReserved
    <3>4. h[n] = reg'[n].share /\ z[n] = 0 /\ \A i \in 1..N : i # n => z[i] = h[i]
      BY <1>1, <2>1 DEF HeartbeatEffect
    <3> HIDE DEF f, h, o, z
    <3>5. Sum(z, N) <= Sum(o, N) /\ Sum(z, N) \in Int /\ Sum(o, N) \in Int
      BY <1>1, <3>2, SumMonotone, SumInt
    <3>6. Sum(h, N) = Sum(z, N) - z[n] + h[n]
      <4>1. \A i \in 1..N : z[i] \in Int /\ h[i] \in Int
        BY <1>3, <3>2
      <4>2. n \in 1..N /\ N \in Nat
        BY <1>1
      <4>3. \A i \in 1..N : i # n => z[i] = h[i]
        BY <3>4
      <4> QED BY ONLY <4>1, <4>2, <4>3, SumUpdate
    <3>7. h[n] \in Nat
      BY <1>1, <1>3
    <3>8. Sum(h, N) <= MaxLimit
      BY <1>1, <3>1, <3>3, <3>4, <3>5, <3>6, <3>7
    <3> QED BY <3>8 DEF GlobalCap, GrantedShares, h
  <2> QED BY <2>1, <2>4, <2>5
<1>9. CASE UNCHANGED reg
  BY <1>9 DEF GlobalCap, GrantedShares
<1> QED
  <2>1. CASE Next
    BY Zenon, <1>7, <1>8, <1>9, <2>1 DEF Next, Acquire, Release, Beat, Close, Crash, LeaveFails, LoseCall, Reply, Outage, Tick
  <2>2. CASE UNCHANGED vars
    BY <1>9, <2>2 DEF vars
  <2> QED BY <2>1, <2>2

\* GlobalCap for every fleet, aggregate and allocation, with or without handoff: whatever
\* heartbeats, losses, evictions, departures and crashes interleave, the shares of the
\* live records never add up to more than the largest limit (applyHeartbeat steps 3-6).
THEOREM FleetGlobalCap == Spec => []GlobalCap
<1>1. Init => TypeOK /\ RecordInv /\ GlobalCap
  <2> SUFFICES ASSUME Init PROVE GlobalCap
    BY TypeInit
  <2> DEFINE f == [n \in Node |-> IF reg[n].live THEN reg[n].share ELSE 0]
             z == [n \in Node |-> 0]
  <2>1. N \in Nat /\ MaxLimit \in Nat /\ Node = 1..N
    BY FleetAssumption DEF Node
  <2>2. \A i \in 1..N : f[i] = 0
    BY <2>1 DEF Init, NoRecord
  <2> HIDE DEF f
  <2>3. Sum(f, N) = 0
    BY <2>1, <2>2, SumZero
  <2> QED BY <2>1, <2>3 DEF GlobalCap, GrantedShares, f
<1>2. TypeOK /\ RecordInv /\ GlobalCap /\ [Next]_vars => TypeOK' /\ RecordInv' /\ GlobalCap'
  BY TypeStep, RecordStep, GlobalCapStep
<1> QED BY <1>1, <1>2, PTL DEF Spec
----------------------------------------------------------------------------
(* FenceBeforeReclaim *)

\* An expiry e is past its fencing deadline, or the coordinator still holds it.
Backed(t, rec, e) == t >= e - FenceMargin \/ (rec.live /\ e <= rec.expiresAt)

\* Where calls may overtake each other, one at most is under way (see Fencing).
AtMostOne(S) == \A a, b \in S : a = b

\* One open node: the lease its guard holds, and every lease still on its way to it, is the
\* coordinator's or past its deadline; an expiry already recorded is no later than one still
\* on its way to the coordinator, so a heartbeat never shortens a lease.
LeaseBacked(t, rec, g, B) ==
    /\ IsFiniteSet(B) /\ (~InOrder => AtMostOne(B))
    /\ g.share > 0 => g.everLeased
    /\ g.everLeased => Backed(t, rec, g.leaseExpiresAt)
    /\ rec.live => rec.expiresAt <= t + LeaseTtl
    /\ \A b \in B : /\ b.seq <= g.heartbeatSeq /\ b.expiresAt <= t + LeaseTtl
                    /\ b.st = "replied" => Backed(t, rec, b.expiresAt)
                    /\ b.st = "sent" /\ rec.live => rec.expiresAt <= b.expiresAt
    /\ \A b, c \in B : b.st = "sent" /\ c.st = "sent" /\ b.seq <= c.seq => b.expiresAt <= c.expiresAt

\* Every node that is open is backed; a node that is leaving is not open.
FenceInv ==
    /\ \A n \in leaving : guard[n].phase # "open"
    /\ \A n \in Node : guard[n].phase = "open" => LeaseBacked(now, reg[n], guard[n], beats[n])

\* Self-fencing presumes fail-closed, a margin that covers the skew, and heartbeats that
\* reach the coordinator in the order in which they are issued.
Fencing == FailClosed /\ SelfFence /\ MaxSkew <= FenceMargin /\ (InOrder \/ MaxInFlight <= 1)

\* One node whose guard moves without issuing or losing a call.
LEMMA LeaseKept ==
  ASSUME NEW t, NEW rec, NEW g, NEW h, NEW B, NEW C \in SUBSET B, LeaseBacked(t, rec, g, B),
         h.heartbeatSeq = g.heartbeatSeq, h.share > 0 => h.everLeased,
         h.everLeased => Backed(t, rec, h.leaseExpiresAt)
  PROVE  LeaseBacked(t, rec, h, C)
<1>1. IsFiniteSet(C) /\ (~InOrder => AtMostOne(C))
  BY FS_Subset DEF LeaseBacked, AtMostOne
<1> QED BY <1>1 DEF LeaseBacked

\* runHeartbeat(): the new call's expiry is the latest of all (report.expiresAt).
LEMMA LeaseIssued ==
  ASSUME NEW t \in Nat, NEW rec, NEW g \in GuardType, NEW h \in GuardType, NEW B \in SUBSET BeatType, NEW c \in BeatType,
         LeaseBacked(t, rec, g, B), ~InOrder => Cardinality(B) < 1,
         h.heartbeatSeq = g.heartbeatSeq + 1, h.share = g.share, h.everLeased = g.everLeased,
         h.leaseExpiresAt = g.leaseExpiresAt,
         c.seq = h.heartbeatSeq, c.st = "sent", c.expiresAt = t + LeaseTtl
  PROVE  LeaseBacked(t, rec, h, B \cup {c})
<1> DEFINE C == B \cup {c}
<1>1. IsFiniteSet(B) /\ \A b \in B : b.seq <= g.heartbeatSeq /\ b.expiresAt <= t + LeaseTtl /\ b.seq \in Nat
  BY DEF LeaseBacked, BeatType
<1>2. g.heartbeatSeq \in Nat /\ t + LeaseTtl \in Nat /\ c.seq \in Nat
  BY FleetAssumption DEF GuardType, BeatType
<1>3. IsFiniteSet(C)
  BY <1>1, FS_AddElement
<1>4. ~InOrder => AtMostOne(C)
  <2> SUFFICES ASSUME ~InOrder PROVE AtMostOne(C)
    OBVIOUS
  <2>1. Cardinality(B) \in Nat /\ Cardinality(B) < 1
    BY <1>1, FS_CardinalityType
  <2>2. B = {}
    BY <1>1, <2>1, FS_EmptySet
  <2> QED BY <2>2 DEF AtMostOne
<1>5. \A b \in C : b.seq <= h.heartbeatSeq /\ b.expiresAt <= t + LeaseTtl
  BY <1>1, <1>2
<1>6. \A b \in B : c.seq > b.seq
  BY <1>1, <1>2
<1>7. ASSUME NEW b \in C, NEW d \in C, b.st = "sent", d.st = "sent", b.seq <= d.seq
      PROVE  b.expiresAt <= d.expiresAt
  <2>1. CASE d = c
    BY <1>5, <2>1
  <2>2. CASE b = c /\ d # c
    BY <1>1, <1>2, <1>6, <1>7, <2>2
  <2>3. CASE b # c /\ d # c
    BY <1>7, <2>3 DEF LeaseBacked
  <2> QED BY <2>1, <2>2, <2>3
<1>8. \A b \in C : /\ b.st = "replied" => Backed(t, rec, b.expiresAt)
                   /\ b.st = "sent" /\ rec.live => rec.expiresAt <= b.expiresAt
  BY DEF LeaseBacked
<1> HIDE DEF C
<1>9. LeaseBacked(t, rec, h, C)
  BY <1>3, <1>4, <1>5, <1>7, <1>8 DEF LeaseBacked
<1> QED BY <1>9 DEF C

\* A call that rejects leaves the lease as it was.
LEMMA LeaseLost ==
  ASSUME NEW t, NEW rec, NEW g, NEW B \in SUBSET BeatType, NEW b \in B, NEW c \in BeatType,
         LeaseBacked(t, rec, g, B), c.seq = b.seq, c.expiresAt = b.expiresAt, c.st = "failed"
  PROVE  LeaseBacked(t, rec, g, (B \ {b}) \cup {c})
<1> DEFINE C == (B \ {b}) \cup {c}
<1>1. IsFiniteSet(C)
  <2>1. IsFiniteSet(B)
    BY DEF LeaseBacked
  <2> QED BY <2>1, FS_RemoveElement, FS_AddElement
<1>2. ~InOrder => AtMostOne(C)
  BY DEF LeaseBacked, AtMostOne
<1>3. \A x \in C : x = c \/ x \in B
  OBVIOUS
<1> HIDE DEF C
<1>4. LeaseBacked(t, rec, g, C)
  BY <1>1, <1>2, <1>3 DEF LeaseBacked
<1> QED BY <1>4 DEF C

\* The coordinator takes a heartbeat: no later expiry is replaced by an earlier one.
LEMMA LeaseRenewed ==
  ASSUME NEW t \in Nat, NEW rec \in RecordType, NEW q \in RecordType, NEW g, NEW B \in SUBSET BeatType,
         NEW b \in B, NEW c \in BeatType,
         LeaseBacked(t, rec, g, B), b.st = "sent", g.leaseExpiresAt \in Nat,
         \A x \in B : x.st = "sent" => b.seq <= x.seq,
         q.live, q.expiresAt = b.expiresAt,
         c.seq = b.seq, c.expiresAt = b.expiresAt, c.st = "replied"
  PROVE  LeaseBacked(t, q, g, (B \ {b}) \cup {c})
<1> DEFINE C == (B \ {b}) \cup {c}
<1>1. IsFiniteSet(C)
  <2>1. IsFiniteSet(B)
    BY DEF LeaseBacked
  <2> QED BY <2>1, FS_RemoveElement, FS_AddElement
<1>2. ~InOrder => AtMostOne(C)
  BY DEF LeaseBacked, AtMostOne
<1>3. \A x \in C : x = c \/ x \in B
  OBVIOUS
<1>4. b.expiresAt \in Nat /\ rec.expiresAt \in Nat /\ b.expiresAt <= t + LeaseTtl /\ (rec.live => rec.expiresAt <= b.expiresAt)
  BY DEF LeaseBacked, BeatType, RecordType
<1>5. \A e \in Nat : Backed(t, rec, e) => Backed(t, q, e)
  BY <1>4 DEF Backed
<1>6. Backed(t, q, b.expiresAt)
  BY <1>4 DEF Backed
<1>7. \A x \in B : /\ x.st = "replied" => Backed(t, q, x.expiresAt)
                   /\ x.st = "sent" => b.expiresAt <= x.expiresAt
  <2>1. \A x \in B : x.expiresAt \in Nat
    BY DEF BeatType
  <2> QED BY <1>5, <2>1 DEF LeaseBacked
<1>8. g.everLeased => Backed(t, q, g.leaseExpiresAt)
  BY <1>5 DEF LeaseBacked
<1> HIDE DEF C
<1>9. LeaseBacked(t, q, g, C)
  BY <1>1, <1>2, <1>3, <1>4, <1>6, <1>7, <1>8 DEF LeaseBacked
<1> QED BY <1>9 DEF C

\* Another node's heartbeat evicts the record only once its expiry is past its deadline.
LEMMA LeaseEvicted ==
  ASSUME NEW t \in Nat, NEW d \in 0..MaxSkew, NEW rec \in RecordType, NEW g \in GuardType, NEW B \in SUBSET BeatType,
         Fencing, LeaseBacked(t, rec, g, B), rec.expiresAt < t + d
  PROVE  LeaseBacked(t, NoRecord, g, B)
<1>1. d \in Nat /\ d <= FenceMargin /\ FenceMargin \in Nat
  BY FleetAssumption DEF Fencing
<1>2. \A e \in Nat : Backed(t, rec, e) => Backed(t, NoRecord, e)
  BY <1>1 DEF Backed, RecordType
<1>3. g.leaseExpiresAt \in Nat /\ \A b \in B : b.expiresAt \in Nat
  BY DEF GuardType, BeatType
<1>4. ~NoRecord.live
  BY DEF NoRecord
<1> QED BY <1>2, <1>3, <1>4 DEF LeaseBacked

\* Time passing backs a lease as before, or moves it past its fencing deadline.
LEMMA LeaseAges ==
  ASSUME NEW t \in Nat, NEW rec \in RecordType, NEW g \in GuardType, NEW B \in SUBSET BeatType, LeaseBacked(t, rec, g, B)
  PROVE  LeaseBacked(t + 1, rec, g, B)
<1>1. \A e \in Nat : Backed(t, rec, e) => Backed(t + 1, rec, e)
  BY FleetAssumption DEF Backed
<1>2. g.leaseExpiresAt \in Nat /\ \A b \in B : b.expiresAt \in Nat
  BY DEF GuardType, BeatType
<1>3. \A e \in Nat : e <= t + LeaseTtl => e <= (t + 1) + LeaseTtl
  BY FleetAssumption
<1>4. rec.expiresAt \in Nat
  BY DEF RecordType
<1> QED BY <1>1, <1>2, <1>3, <1>4 DEF LeaseBacked
\* No lease is out at the start.
LEMMA FenceInit == Fencing /\ Init => FenceInv
<1> SUFFICES ASSUME Fencing, Init PROVE FenceInv
  OBVIOUS
<1>1. ASSUME NEW n \in Node PROVE LeaseBacked(now, reg[n], guard[n], beats[n])
  <2>1. PICK l \in Limits : guard[n] = NewGuard(l)
    BY DEF Init
  <2>2. guard[n].share = 0 /\ guard[n].everLeased = FALSE
    BY <2>1 DEF NewGuard, Fencing
  <2>3. beats[n] = {} /\ ~reg[n].live
    BY DEF Init, NoRecord
  <2> QED BY <2>2, <2>3, FS_EmptySet DEF LeaseBacked, AtMostOne
<1> QED BY <1>1 DEF FenceInv, Init

\* Every step keeps every lease backed.
LEMMA FenceStep == Fencing /\ TypeOK /\ RecordInv /\ FenceInv /\ [Next]_vars => FenceInv'
<1> SUFFICES ASSUME Fencing, TypeOK, RecordInv, FenceInv, [Next]_vars PROVE FenceInv'
  OBVIOUS
<1> DEFINE L(n) == LeaseBacked(now, reg[n], guard[n], beats[n])
<1>1. TypeOK'
  BY TypeStep
<1>2. \A n \in Node : /\ reg[n] \in RecordType /\ guard[n] \in GuardType /\ beats[n] \in SUBSET BeatType
                      /\ reg'[n] \in RecordType /\ guard'[n] \in GuardType /\ beats'[n] \in SUBSET BeatType
  BY <1>1 DEF TypeOK
<1>3. now \in Nat /\ \A n \in Node : guard[n].phase = "open" => L(n)
  BY Typed DEF FenceInv, TypeOK
<1>4. ASSUME NEW n \in Node, UNCHANGED now, leaving' \subseteq leaving, reg' = reg,
             \A m \in Node : guard'[m].phase = guard[m].phase,
             \A m \in Node : m # n => guard'[m] = guard[m] /\ beats'[m] = beats[m],
             L(n) => LeaseBacked(now, reg[n], guard'[n], beats'[n])
      PROVE  FenceInv'
  BY <1>3, <1>4 DEF FenceInv, TypeOK
<1>5. ASSUME NEW n \in Node, Acquire(n) \/ Release(n) PROVE FenceInv'
  <2> DEFINE g == guard[n]
             h == guard'[n]
  <2>1. /\ h.phase = g.phase /\ h.heartbeatSeq = g.heartbeatSeq /\ h.share = g.share /\ h.everLeased = g.everLeased
        /\ h.leaseExpiresAt = g.leaseExpiresAt
        /\ \A m \in Node : m # n => guard'[m] = guard[m]
    <3>1. CASE Acquire(n)
      BY <1>2, <3>1 DEF Acquire, TypeOK, GuardType
    <3>2. CASE Release(n)
      <4>1. PICK l \in Limits : guard' = [guard EXCEPT ![n].inflight = @ - 1, ![n].limit = l]
        BY <3>2 DEF Release
      <4> QED BY <1>2, <4>1 DEF TypeOK, GuardType
    <3> QED BY <1>5, <3>1, <3>2
  <2>2. reg' = reg /\ beats' = beats /\ now' = now /\ leaving' = leaving
    BY <1>5 DEF Acquire, Release
  <2>3. L(n) => LeaseBacked(now, reg[n], h, beats[n])
    <3> HIDE DEF h
    <3> QED BY <2>1, LeaseKept DEF LeaseBacked, h
  <2> QED BY <1>4, <2>1, <2>2, <2>3
<1>6. ASSUME NEW n \in Node, Beat(n) PROVE FenceInv'
  <2> DEFINE g == guard[n]
             h == guard'[n]
             c == [seq |-> g.heartbeatSeq + 1, lLocal |-> g.limit, inflight |-> g.inflight, expiresAt |-> now + LeaseTtl,
                   appliedGen |-> g.appliedGen, st |-> "sent", share |-> 0, gen |-> 0]
  <2>1. /\ h.phase = g.phase /\ h.heartbeatSeq = g.heartbeatSeq + 1 /\ h.share = g.share /\ h.everLeased = g.everLeased
        /\ h.leaseExpiresAt = g.leaseExpiresAt
        /\ \A m \in Node : m # n => guard'[m] = guard[m]
    BY <1>2, <1>6 DEF Beat, TypeOK, GuardType
  <2>2. /\ reg' = reg /\ now' = now /\ leaving' = leaving
        /\ beats'[n] = beats[n] \cup {c} /\ \A m \in Node : m # n => beats'[m] = beats[m]
        /\ Cardinality(beats[n]) < MaxInFlight
    BY <1>6 DEF Beat, TypeOK
  <2>3. L(n) /\ ~InOrder => Cardinality(beats[n]) < 1
    <3> SUFFICES ASSUME L(n), ~InOrder PROVE Cardinality(beats[n]) < 1
      OBVIOUS
    <3>1. Cardinality(beats[n]) \in Nat
      BY FS_CardinalityType DEF LeaseBacked
    <3>2. MaxInFlight <= 1 /\ MaxInFlight \in Nat
      BY FleetAssumption DEF Fencing
    <3> QED BY <2>2, <3>1, <3>2
  <2>4. c \in BeatType /\ c.st = "sent" /\ c.seq = h.heartbeatSeq /\ c.expiresAt = now + LeaseTtl
    BY <1>2, <2>1, <2>2
  <2>5. L(n) => LeaseBacked(now, reg[n], h, beats[n] \cup {c})
    <3> HIDE DEF h, c
    <3> QED BY <1>2, <1>3, <2>1, <2>3, <2>4, LeaseIssued DEF h
  <2> QED BY ZenonT(60), <1>4, <2>1, <2>2, <2>5
<1>7. ASSUME NEW n \in Node, Close(n) \/ Crash(n) PROVE FenceInv'
  <2>1. guard'[n].phase # "open" /\ \A m \in Node : m # n => guard'[m] = guard[m] /\ beats'[m] = beats[m]
    <3>1. CASE Close(n)
      BY <1>2, <3>1 DEF Close, TypeOK, GuardType
    <3>2. CASE Crash(n)
      BY <1>2, <3>2 DEF Crash, TypeOK, GuardType
    <3> QED BY <1>7, <3>1, <3>2
  <2>2. reg' = reg /\ now' = now /\ leaving' \subseteq leaving \cup {n}
    BY <1>7 DEF Close, Crash
  <2> QED BY <1>3, <2>1, <2>2 DEF FenceInv, TypeOK
<1>8. ASSUME NEW n \in Node, LeaveTakesEffect(n) PROVE FenceInv'
  <2>1. guard[n].phase # "open"
    BY <1>8 DEF LeaveTakesEffect, FenceInv
  <2>2. /\ guard' = guard /\ beats' = beats /\ now' = now /\ leaving' \subseteq leaving
        /\ \A m \in Node : m # n => reg'[m] = reg[m]
    BY <1>8 DEF LeaveTakesEffect, TypeOK
  <2> QED BY <1>3, <2>1, <2>2 DEF FenceInv
<1>9. ASSUME NEW n \in Node, NEW b \in beats[n], Deliver(n, b) PROVE FenceInv'
  <2> DEFINE c == [b EXCEPT !.st = "replied", !.share = reg'[n].share, !.gen = reg'[n].committedGen]
             q == reg'[n]
  <2>1. PICK d \in 0..MaxSkew : HeartbeatEffect(reg, reg', n, b, now + d)
    BY <1>9, Delivered
  <2>2. c \in BeatType /\ c.st = "replied" /\ c.seq = b.seq /\ c.expiresAt = b.expiresAt
    BY ZenonT(60), <1>2, AnswerFields DEF AnswerTo
  <2>3. /\ guard' = guard /\ now' = now /\ leaving' = leaving
        /\ beats'[n] = (beats[n] \ {b}) \cup {c} /\ \A m \in Node : m # n => beats'[m] = beats[m]
    BY <1>9 DEF Deliver, TypeOK
  <2>4. b.st = "sent" /\ q.live /\ q.expiresAt = b.expiresAt
    BY <1>9, <2>1 DEF Deliver, HeartbeatEffect
  <2>5. L(n) => \A x \in beats[n] : x.st = "sent" => b.seq <= x.seq
    <3>1. CASE InOrder
      BY <1>9, <3>1 DEF Deliver
    <3>2. CASE ~InOrder
      <4>1. L(n) => \A x \in beats[n] : x = b
        BY <3>2 DEF LeaseBacked, AtMostOne
      <4>2. b.seq <= b.seq
        BY <1>2 DEF BeatType
      <4> QED BY <4>1, <4>2
    <3> QED BY <3>1, <3>2
  <2> HIDE DEF c, q
  <2>6. L(n) => LeaseBacked(now, q, guard[n], (beats[n] \ {b}) \cup {c})
    <3>1. guard[n].leaseExpiresAt \in Nat /\ q \in RecordType
      BY <1>2 DEF GuardType, q
    <3> QED BY <1>2, <1>3, <2>2, <2>4, <2>5, <3>1, LeaseRenewed
  <2>7. ASSUME NEW m \in Node, m # n, L(m) PROVE LeaseBacked(now, reg'[m], guard[m], beats[m])
    <3>1. CASE reg[m].live /\ reg[m].expiresAt < now + d
      <4>1. reg'[m] = NoRecord
        BY <2>1, <2>7, <3>1 DEF HeartbeatEffect
      <4> QED BY <1>2, <1>3, <2>7, <3>1, <4>1, LeaseEvicted
    <3>2. CASE ~(reg[m].live /\ reg[m].expiresAt < now + d)
      BY <2>1, <2>7, <3>2 DEF HeartbeatEffect
    <3> QED BY <3>1, <3>2
  <2> QED BY <1>3, <2>3, <2>6, <2>7 DEF FenceInv, q
<1>10. ASSUME NEW n \in Node, NEW b \in beats[n], LoseCall(n, b) PROVE FenceInv'
  <2> DEFINE c == [b EXCEPT !.st = "failed"]
  <2>1. c \in BeatType /\ c.st = "failed" /\ c.seq = b.seq /\ c.expiresAt = b.expiresAt
    BY <1>2 DEF BeatType
  <2>2. /\ guard' = guard /\ reg' = reg /\ now' = now /\ leaving' = leaving
        /\ beats'[n] = (beats[n] \ {b}) \cup {c} /\ \A m \in Node : m # n => beats'[m] = beats[m]
    BY <1>10 DEF LoseCall, TypeOK
  <2> HIDE DEF c
  <2>3. L(n) => LeaseBacked(now, reg[n], guard[n], (beats[n] \ {b}) \cup {c})
    BY <1>2, <2>1, LeaseLost
  <2> QED BY <1>4, <2>2, <2>3
<1>11. ASSUME NEW n \in Node, NEW b \in beats[n], Reply(n, b) \/ Outage(n, b) PROVE FenceInv'
  <2> DEFINE g == guard[n]
             h == guard'[n]
  <2>1. /\ reg' = reg /\ now' = now /\ leaving' = leaving
        /\ beats'[n] = beats[n] \ {b} /\ \A m \in Node : m # n => beats'[m] = beats[m] /\ guard'[m] = guard[m]
    BY <1>11 DEF Reply, Outage, TypeOK
  <2>2. /\ h.phase = g.phase /\ h.heartbeatSeq = g.heartbeatSeq
        /\ \/ b.st = "replied" /\ h.everLeased /\ h.leaseExpiresAt = b.expiresAt
           \/ /\ h.everLeased = g.everLeased /\ h.leaseExpiresAt = g.leaseExpiresAt
              /\ h.share = g.share \/ h.share = 0
    <3>1. CASE Reply(n, b)
      <4>1. b.st = "replied"
        BY <3>1 DEF Reply
      <4>2. \E k \in GuardType : /\ guard' = [guard EXCEPT ![n] = k]
                                 /\ k.phase = g.phase /\ k.heartbeatSeq = g.heartbeatSeq
                                 /\ k.everLeased /\ k.leaseExpiresAt = b.expiresAt
        BY <3>1, RepliedGuard
      <4> QED BY <4>1, <4>2 DEF TypeOK
    <3>2. CASE Outage(n, b)
      <4>1. \E k \in GuardType : /\ guard' = [guard EXCEPT ![n] = k]
                                 /\ k.phase = g.phase /\ k.heartbeatSeq = g.heartbeatSeq
                                 /\ k.everLeased = g.everLeased /\ k.leaseExpiresAt = g.leaseExpiresAt
                                 /\ k.share = 0 \/ k = g
        BY <3>2, RejectedGuard DEF Fencing
      <4> QED BY <4>1 DEF TypeOK
    <3> QED BY <1>11, <3>1, <3>2
  <2>3. L(n) => LeaseBacked(now, reg[n], h, beats[n] \ {b})
    <3> SUFFICES ASSUME L(n) PROVE LeaseBacked(now, reg[n], h, beats[n] \ {b})
      OBVIOUS
    <3> HIDE DEF h
    <3>1. /\ h.share > 0 => h.everLeased
          /\ h.everLeased => Backed(now, reg[n], h.leaseExpiresAt)
      <4>1. /\ g.share > 0 => g.everLeased
            /\ g.everLeased => Backed(now, reg[n], g.leaseExpiresAt)
            /\ b.st = "replied" => Backed(now, reg[n], b.expiresAt)
        BY DEF LeaseBacked
      <4> QED BY <2>2, <4>1
    <3> QED BY <2>2, <3>1, LeaseKept
  <2>4. \A m \in Node : guard'[m].phase = guard[m].phase
    BY <2>1, <2>2
  <2> QED BY <1>4, <2>1, <2>3, <2>4
<1>12. CASE Tick
  <2>1. now' = now + 1 /\ reg' = reg /\ guard' = guard /\ beats' = beats /\ leaving' = leaving
    BY <1>12 DEF Tick
  <2>2. \A n \in Node : L(n) => LeaseBacked(now + 1, reg[n], guard[n], beats[n])
    BY <1>2, <1>3, LeaseAges
  <2> QED BY <1>3, <2>1, <2>2 DEF FenceInv
<1>13. CASE UNCHANGED <<now, reg, guard, beats>> /\ leaving' \subseteq leaving
  BY <1>3, <1>13 DEF FenceInv
<1> QED
  <2>1. CASE Next
    <3>1. ASSUME NEW n \in Node, LeaveFails(n) PROVE FenceInv'
      BY <1>13, <3>1 DEF LeaveFails
    <3> QED BY <1>5, <1>6, <1>7, <1>8, <1>9, <1>10, <1>11, <1>12, <2>1, <3>1 DEF Next
  <2>2. CASE UNCHANGED vars
    BY <1>13, <2>2 DEF vars
  <2> QED BY <2>1, <2>2

\* A backed lease that is not past its fencing deadline has a live record, and a guard past
\* its deadline does not admit (checkFence).
LEMMA FenceSuffices == Fencing /\ TypeOK /\ FenceInv => FenceBeforeReclaim
<1> SUFFICES ASSUME Fencing, TypeOK, FenceInv, NEW n \in Node, Admitting(n) PROVE reg[n].live
  BY DEF FenceBeforeReclaim
<1>1. guard[n].share \in Nat /\ guard[n].limit \in Nat /\ guard[n].leaseExpiresAt \in Nat /\ now \in Nat /\ FenceMargin \in Nat
  BY Typed, LimitsNat, FleetAssumption DEF GuardType
<1>2. ~Fenced(guard[n]) /\ guard[n].share > 0
  BY <1>1 DEF Admitting, Ceiling, Smaller
<1>3. LeaseBacked(now, reg[n], guard[n], beats[n])
  BY DEF FenceInv, Admitting
<1>4. guard[n].everLeased /\ Backed(now, reg[n], guard[n].leaseExpiresAt)
  BY <1>2, <1>3 DEF LeaseBacked
<1>5. ~(now >= guard[n].leaseExpiresAt - FenceMargin)
  BY <1>2, <1>4 DEF Fenced, Fencing
<1> QED BY <1>4, <1>5 DEF Backed

\* Self-fencing for every fleet: with a margin that covers the clock skew and heartbeats that
\* arrive in order, a guard that still admits always has a live record at the coordinator
\* (checkFence, applyHeartbeat step 2, close).
THEOREM FencesBeforeReclaim ==
  ASSUME Fencing
  PROVE  Spec => []FenceBeforeReclaim
<1>1. Init => TypeOK /\ RecordInv /\ FenceInv
  BY TypeInit, FenceInit
<1>2. TypeOK /\ RecordInv /\ FenceInv /\ [Next]_vars => TypeOK' /\ RecordInv' /\ FenceInv'
  BY TypeStep, RecordStep, FenceStep
<1>3. TypeOK /\ FenceInv => FenceBeforeReclaim
  BY FenceSuffices
<1> QED BY <1>1, <1>2, <1>3, PTL DEF Spec
----------------------------------------------------------------------------
(* The acknowledged handoff: the loads of all nodes never add up to more than *)
(* the largest limit, at any instant, however heartbeats, admissions and      *)
(* losses interleave. A node's ceiling and load are covered by what the       *)
(* coordinator sets aside for it, Reserve(rec), and what is set aside stays   *)
(* within the limit.                                                          *)
(* The inductive invariant *)

\* A node that has stopped and drained: nothing it reports matters any more.
Gone(n) == guard[n].phase # "open" /\ guard[n].inflight = 0

\* A running node keeps its record: its lease is renewed in time, and it drains before
\* its leave() lands.
KeepsRecords == \A n \in Node : reg[n].live /\ ~Gone(n) => reg'[n].live

\* Of the calls B of a node: those the coordinator has not taken yet, those it has answered,
\* and those it will still apply to the record rec.
Sent(B) == {b \in B : b.st = "sent"}
Answered(B) == {b \in B : b.st = "replied"}
Pending(rec, B) == {b \in Sent(B) : b.seq > rec.maxSeq}
AtMostTwo(S) == \A a, b, c \in S : a = b \/ b = c \/ a = c

\* The calls are numbered apart, and no reply is numbered past the record. In order, calls
\* reach the coordinator as they are issued; otherwise at most two are under way.
SeqsOrdered(rec, g, B) ==
    /\ IsFiniteSet(B)
    /\ \A b \in B : b.seq <= g.heartbeatSeq
    /\ \A b, c \in B : b.seq = c.seq => b = c
    /\ \A c \in Answered(B) : c.seq <= rec.maxSeq
    /\ InOrder => \A b \in Sent(B), c \in Answered(B) : c.seq < b.seq
    /\ ~InOrder => AtMostTwo(B)

\* Generations never run backwards: a node has applied none the coordinator has not issued,
\* a call acknowledges none its node has not applied, later calls carry newer ones, and a
\* reply that may still be applied is no older than what the node applied last. A reply
\* numbered above a call still under way carries the newest generation.
GensOrdered(rec, g, B) ==
    /\ g.appliedGen <= rec.committedGen
    /\ \A b \in Pending(rec, B) : b.appliedGen <= g.appliedGen
    /\ \A b, c \in Pending(rec, B) : b.seq < c.seq => b.appliedGen <= c.appliedGen
    /\ \A b \in Answered(B) : b.gen <= rec.committedGen /\ (b.seq >= g.appliedSeq => g.appliedGen <= b.gen)
    /\ \A b, c \in Answered(B) : b.seq < c.seq => b.gen <= c.gen
    /\ \A b \in Sent(B), c \in Answered(B) : b.seq < c.seq => c.gen = rec.committedGen

\* The share a node admits against, or may come to, lies below the floor of its record; at
\* the newest generation it lies below the newest share.
SharesCovered(rec, g, B) ==
    /\ rec.share <= rec.unackedHigh /\ g.share <= rec.unackedHigh
    /\ g.appliedGen = rec.committedGen => g.share <= rec.share
    /\ \A b \in Answered(B) : b.seq >= g.appliedSeq =>
          b.share <= rec.unackedHigh /\ (b.gen = rec.committedGen => b.share <= rec.share)

\* What is set aside for the node covers its load, and still will once the coordinator takes
\* the calls under way: what a call reports, together with the floor it leaves, covers the
\* load now and the loads that later calls report.
LoadCovered(rec, g, B) ==
    /\ g.inflight <= Reserve(rec)
    /\ \A b \in Pending(rec, B) :
          /\ b.inflight <= Reserve(rec)
          /\ g.inflight <= Larger(b.inflight, rec.unackedHigh)
          /\ b.appliedGen = rec.committedGen => g.inflight <= Larger(b.inflight, rec.share)
    /\ \A b, c \in Pending(rec, B) : b.seq < c.seq =>
          /\ c.inflight <= Larger(b.inflight, rec.unackedHigh)
          /\ b.appliedGen = rec.committedGen => c.inflight <= Larger(b.inflight, rec.share)

\* A node covered by its record.
Covered(rec, g, B) ==
    SeqsOrdered(rec, g, B) /\ GensOrdered(rec, g, B) /\ SharesCovered(rec, g, B) /\ LoadCovered(rec, g, B)

\* Every node that is not gone is covered.
NodesCovered == \A n \in Node : ~Gone(n) => Covered(reg[n], guard[n], beats[n])

\* What is set aside for the nodes that are not gone fits the largest limit.
Held(n) == IF Gone(n) THEN 0 ELSE Reserve(reg[n])
ReservedWithinLimit == Sum([n \in Node |-> Held(n)], N) <= MaxLimit

\* The handoff is on, an outage admits nothing, and calls either arrive in order or at most
\* two of a node are under way. With three and reordering, InflightCap fails.
Acknowledged == Handoff /\ FailClosed /\ (InOrder \/ MaxInFlight <= 2)

----------------------------------------------------------------------------
(* One node: what each of its steps does to Covered *)

\* A call that is forgotten leaves a covered node covered.
LEMMA FewerBeats ==
  ASSUME NEW rec, NEW g, NEW B, NEW C \in SUBSET B, Covered(rec, g, B)
  PROVE  Covered(rec, g, C)
<1>1. Sent(C) \subseteq Sent(B) /\ Answered(C) \subseteq Answered(B) /\ Pending(rec, C) \subseteq Pending(rec, B)
  BY DEF Sent, Answered, Pending
<1>2. SeqsOrdered(rec, g, C)
  <2>1. IsFiniteSet(C)
    BY FS_Subset DEF Covered, SeqsOrdered
  <2> QED BY <1>1, <2>1 DEF Covered, SeqsOrdered, AtMostTwo
<1>3. GensOrdered(rec, g, C)
  BY <1>1 DEF Covered, GensOrdered
<1>4. SharesCovered(rec, g, C)
  BY <1>1 DEF Covered, SharesCovered
<1>5. LoadCovered(rec, g, C)
  BY <1>1 DEF Covered, LoadCovered
<1> QED BY <1>2, <1>3, <1>4, <1>5 DEF Covered

\* acquire, release, close: the in-flight count only rises up to the share.
LEMMA GuardMoves ==
  ASSUME NEW rec \in RecordType, NEW g \in GuardType, NEW h \in GuardType, NEW B \in SUBSET BeatType,
         Handoff, Covered(rec, g, B),
         h.share = g.share, h.appliedSeq = g.appliedSeq, h.appliedGen = g.appliedGen,
         h.heartbeatSeq = g.heartbeatSeq, h.inflight <= g.inflight \/ h.inflight <= g.share
  PROVE  Covered(rec, h, B)
<1>1. SeqsOrdered(rec, h, B) /\ GensOrdered(rec, h, B) /\ SharesCovered(rec, h, B)
  BY DEF Covered, SeqsOrdered, GensOrdered, SharesCovered
<1>2. /\ rec.share \in Nat /\ rec.unackedHigh \in Nat /\ rec.inflight \in Nat /\ rec.committedGen \in Nat
      /\ g.share \in Nat /\ g.inflight \in Nat /\ h.inflight \in Nat /\ g.appliedGen \in Nat
      /\ \A b \in B : b.inflight \in Nat /\ b.appliedGen \in Nat
  BY DEF RecordType, GuardType, BeatType
<1>3. /\ g.share <= rec.unackedHigh /\ (g.appliedGen = rec.committedGen => g.share <= rec.share)
      /\ g.appliedGen <= rec.committedGen /\ \A b \in Pending(rec, B) : b.appliedGen <= g.appliedGen
  BY DEF Covered, SharesCovered, GensOrdered
<1>4. h.inflight <= Reserve(rec)
  BY <1>2, <1>3 DEF Covered, LoadCovered, Reserve, Larger
<1>5. ASSUME NEW b \in Pending(rec, B)
      PROVE  /\ b.inflight <= Reserve(rec)
             /\ h.inflight <= Larger(b.inflight, rec.unackedHigh)
             /\ b.appliedGen = rec.committedGen => h.inflight <= Larger(b.inflight, rec.share)
  <2>1. b \in B
    BY DEF Pending, Sent
  <2>2. /\ b.inflight <= Reserve(rec)
        /\ g.inflight <= Larger(b.inflight, rec.unackedHigh)
        /\ b.appliedGen = rec.committedGen => g.inflight <= Larger(b.inflight, rec.share)
    BY DEF Covered, LoadCovered
  <2>3. b.appliedGen = rec.committedGen => g.share <= rec.share
    BY <1>2, <1>3, <2>1
  <2> QED BY <1>2, <1>3, <2>1, <2>2, <2>3 DEF Larger
<1>6. LoadCovered(rec, h, B)
  BY <1>4, <1>5 DEF Covered, LoadCovered
<1> QED BY <1>1, <1>6 DEF Covered

\* runHeartbeat(): the new call reports what the guard now holds.
LEMMA CallIssued ==
  ASSUME NEW rec \in RecordType, NEW g \in GuardType, NEW h \in GuardType, NEW B \in SUBSET BeatType, NEW c \in BeatType,
         Handoff, Covered(rec, g, B), ~InOrder => Cardinality(B) < 2,
         h.share = g.share, h.appliedSeq = g.appliedSeq, h.appliedGen = g.appliedGen,
         h.inflight = g.inflight, h.heartbeatSeq = g.heartbeatSeq + 1,
         c.st = "sent", c.seq = h.heartbeatSeq, c.inflight = g.inflight, c.appliedGen = g.appliedGen
  PROVE  Covered(rec, h, B \cup {c})
<1> DEFINE C == B \cup {c}
<1>1. /\ rec.share \in Nat /\ rec.unackedHigh \in Nat /\ rec.inflight \in Nat /\ rec.committedGen \in Nat
      /\ g.share \in Nat /\ g.inflight \in Nat /\ h.inflight \in Nat /\ g.appliedGen \in Nat /\ g.heartbeatSeq \in Nat
      /\ \A b \in C : b.inflight \in Nat /\ b.appliedGen \in Nat /\ b.seq \in Nat
  BY DEF RecordType, GuardType, BeatType
<1>2. /\ Sent(C) = Sent(B) \cup {c} /\ Answered(C) = Answered(B)
      /\ Pending(rec, C) \subseteq Pending(rec, B) \cup {c}
      /\ Sent(B) \subseteq B /\ Answered(B) \subseteq B /\ Pending(rec, B) \subseteq B
  BY DEF Sent, Answered, Pending
<1>3. \A b \in B : b.seq <= g.heartbeatSeq /\ b.seq < c.seq
  BY <1>1 DEF Covered, SeqsOrdered
<1>4. ~InOrder => AtMostTwo(C)
  <2> SUFFICES ASSUME ~InOrder PROVE AtMostTwo(C)
    OBVIOUS
  <2>1. IsFiniteSet(B) /\ Cardinality(B) < 2
    BY DEF Covered, SeqsOrdered
  <2>2. ASSUME NEW x \in B, NEW y \in B, x # y PROVE FALSE
    <3>1. IsFiniteSet(B \ {x}) /\ Cardinality(B \ {x}) = Cardinality(B) - 1
      BY <2>1, FS_RemoveElement
    <3>2. IsFiniteSet((B \ {x}) \ {y}) /\ Cardinality((B \ {x}) \ {y}) = Cardinality(B \ {x}) - 1
      BY <2>2, <3>1, FS_RemoveElement
    <3>3. Cardinality(B) \in Nat /\ Cardinality((B \ {x}) \ {y}) \in Nat
      BY <2>1, <3>2, FS_CardinalityType
    <3> QED BY <2>1, <3>1, <3>2, <3>3
  <2> QED BY <2>2 DEF AtMostTwo
<1>5. SeqsOrdered(rec, h, C)
  <2>1. IsFiniteSet(C)
    BY FS_AddElement DEF Covered, SeqsOrdered
  <2>2. \A b, d \in C : b.seq = d.seq => b = d
    BY <1>1, <1>3 DEF Covered, SeqsOrdered
  <2>3. \A b \in C : b.seq <= h.heartbeatSeq
    BY <1>1, <1>3
  <2>4. InOrder => \A b \in Sent(C), d \in Answered(C) : d.seq < b.seq
    BY <1>2, <1>3 DEF Covered, SeqsOrdered
  <2> HIDE DEF C
  <2> QED BY <1>2, <1>4, <2>1, <2>2, <2>3, <2>4 DEF Covered, SeqsOrdered
<1>6. GensOrdered(rec, h, C)
  <2>1. \A b \in Pending(rec, B) : b.appliedGen <= g.appliedGen
    BY DEF Covered, GensOrdered
  <2>2. \A b, d \in Pending(rec, C) : b.seq < d.seq => b.appliedGen <= d.appliedGen
    <3> SUFFICES ASSUME NEW b \in Pending(rec, C), NEW d \in Pending(rec, C), b.seq < d.seq
                 PROVE  b.appliedGen <= d.appliedGen
      OBVIOUS
    <3>0. b # c /\ (d = c => b \in Pending(rec, B))
      <4>1. (b = c \/ b \in Pending(rec, B)) /\ (d = c \/ d \in Pending(rec, B))
        BY <1>2
      <4>2. b.seq \in Nat /\ d.seq \in Nat /\ c.seq \in Nat /\ (d = c \/ d \in B)
        BY <1>1, <1>2, <4>1
      <4> QED BY <1>3, <4>1, <4>2
    <3>1. CASE d = c
      BY <2>1, <3>0, <3>1
    <3>2. CASE d # c
      BY <1>2, <3>0, <3>2 DEF Covered, GensOrdered
    <3> QED BY <3>1, <3>2
  <2>3. \A b \in Pending(rec, C) : b.appliedGen <= h.appliedGen
    BY <1>1, <1>2, <2>1
  <2>4. \A b \in Sent(C), d \in Answered(C) : b.seq < d.seq => d.gen = rec.committedGen
    <3> SUFFICES ASSUME NEW b \in Sent(C), NEW d \in Answered(C), b.seq < d.seq PROVE d.gen = rec.committedGen
      OBVIOUS
    <3>1. b # c
      BY <1>1, <1>2, <1>3
    <3> QED BY <1>2, <3>1 DEF Covered, GensOrdered
  <2> HIDE DEF C
  <2> QED BY <1>2, <2>2, <2>3, <2>4 DEF Covered, GensOrdered
<1>7. SharesCovered(rec, h, C)
  BY <1>2 DEF Covered, SharesCovered
<1>8. LoadCovered(rec, h, C)
  <2>1. g.inflight <= Reserve(rec)
    BY DEF Covered, LoadCovered
  <2>2. \A b \in Pending(rec, B) :
          /\ b.inflight <= Reserve(rec)
          /\ g.inflight <= Larger(b.inflight, rec.unackedHigh)
          /\ b.appliedGen = rec.committedGen => g.inflight <= Larger(b.inflight, rec.share)
    BY DEF Covered, LoadCovered
  <2>3. \A b \in Pending(rec, C) :
          /\ b.inflight <= Reserve(rec)
          /\ g.inflight <= Larger(b.inflight, rec.unackedHigh)
          /\ b.appliedGen = rec.committedGen => g.inflight <= Larger(b.inflight, rec.share)
    <3>1. \A x \in Nat : g.inflight <= Larger(g.inflight, x)
      BY <1>1 DEF Larger
    <3> QED BY <1>1, <1>2, <2>1, <2>2, <3>1
  <2>4. ASSUME NEW b \in Pending(rec, C), NEW d \in Pending(rec, C), b.seq < d.seq
        PROVE  /\ d.inflight <= Larger(b.inflight, rec.unackedHigh)
               /\ b.appliedGen = rec.committedGen => d.inflight <= Larger(b.inflight, rec.share)
    <3>0. b # c
      <4>1. (b = c \/ b \in Pending(rec, B)) /\ (d = c \/ d \in Pending(rec, B))
        BY <1>2
      <4>2. b.seq \in Nat /\ d.seq \in Nat /\ c.seq \in Nat /\ (d = c \/ d \in B)
        BY <1>1, <1>2, <4>1
      <4> QED BY <1>3, <2>4, <4>1, <4>2
    <3>1. CASE d = c
      BY <2>3, <2>4, <3>1
    <3>2. CASE d # c
      BY <1>2, <2>4, <3>0, <3>2 DEF Covered, LoadCovered
    <3> QED BY <3>1, <3>2
  <2> HIDE DEF C
  <2> QED BY <2>1, <2>3, <2>4 DEF LoadCovered
<1> QED BY <1>5, <1>6, <1>7, <1>8 DEF Covered

\* A call that rejects: it is neither under way nor answered any more.
LEMMA CallLost ==
  ASSUME NEW rec, NEW g, NEW B \in SUBSET BeatType, NEW b \in B, NEW c \in BeatType,
         Covered(rec, g, B), c.st = "failed", c.seq = b.seq
  PROVE  Covered(rec, g, (B \ {b}) \cup {c})
<1> DEFINE C == (B \ {b}) \cup {c}
<1>1. Sent(C) \subseteq Sent(B) /\ Answered(C) \subseteq Answered(B) /\ Pending(rec, C) \subseteq Pending(rec, B)
  BY DEF Sent, Answered, Pending
<1>2. SeqsOrdered(rec, g, C)
  <2>1. IsFiniteSet(B)
    BY DEF Covered, SeqsOrdered
  <2>2. IsFiniteSet(C)
    BY <2>1, FS_RemoveElement, FS_AddElement
  <2>3. \A x, y \in C : x.seq = y.seq => x = y
    BY DEF Covered, SeqsOrdered
  <2>4. \A x \in C : x.seq <= g.heartbeatSeq
    BY DEF Covered, SeqsOrdered
  <2>5. ~InOrder => AtMostTwo(C)
    BY DEF Covered, SeqsOrdered, AtMostTwo
  <2> HIDE DEF C
  <2> QED BY <1>1, <2>2, <2>3, <2>4, <2>5 DEF Covered, SeqsOrdered
<1> HIDE DEF C
<1>3. GensOrdered(rec, g, C)
  BY <1>1 DEF Covered, GensOrdered
<1>4. SharesCovered(rec, g, C)
  BY <1>1 DEF Covered, SharesCovered
<1>5. LoadCovered(rec, g, C)
  BY <1>1 DEF Covered, LoadCovered
<1>6. Covered(rec, g, C)
  BY <1>2, <1>3, <1>4, <1>5 DEF Covered
<1> QED BY <1>6 DEF C

\* The reply lands: it is applied unless a later call was answered before.
LEMMA ReplyApplied ==
  ASSUME NEW rec \in RecordType, NEW g \in GuardType, NEW h \in GuardType, NEW B \in SUBSET BeatType, NEW b \in Answered(B),
         Covered(rec, g, B), NotOvertaken(g, b),
         h.share = b.share, h.appliedSeq = b.seq, h.appliedGen = b.gen,
         h.inflight = g.inflight, h.heartbeatSeq = g.heartbeatSeq
  PROVE  Covered(rec, h, B)
<1>1. /\ b \in B /\ b.seq >= g.appliedSeq
      /\ \A c \in B : c.seq \in Nat /\ c.gen \in Nat /\ c.appliedGen \in Nat
      /\ g.appliedSeq \in Nat /\ g.appliedGen \in Nat
  BY DEF Answered, NotOvertaken, BeatType, GuardType
<1>2. SeqsOrdered(rec, h, B) /\ LoadCovered(rec, h, B)
  BY DEF Covered, SeqsOrdered, LoadCovered
<1>3. g.appliedGen <= b.gen /\ b.gen <= rec.committedGen
  BY <1>1 DEF Covered, GensOrdered
<1>4. GensOrdered(rec, h, B)
  <2>1. \A c \in Pending(rec, B) : c.appliedGen <= h.appliedGen
    <3>1. \A c \in Pending(rec, B) : c \in B /\ c.appliedGen <= g.appliedGen
      BY DEF Covered, GensOrdered, Pending, Sent
    <3> QED BY <1>1, <1>3, <3>1
  <2>2. ASSUME NEW c \in Answered(B), c.seq >= h.appliedSeq PROVE h.appliedGen <= c.gen
    <3>1. c \in B
      BY DEF Answered
    <3>2. CASE c.seq = b.seq
      BY <1>1, <3>1, <3>2 DEF Covered, SeqsOrdered
    <3>3. CASE b.seq < c.seq
      BY <3>3 DEF Covered, GensOrdered
    <3> QED BY <1>1, <2>2, <3>1, <3>2, <3>3
  <2> QED BY <1>3, <2>1, <2>2 DEF Covered, GensOrdered
<1>5. SharesCovered(rec, h, B)
  <2>1. b.share <= rec.unackedHigh /\ (b.gen = rec.committedGen => b.share <= rec.share)
    BY <1>1 DEF Covered, SharesCovered
  <2>2. \A c \in Answered(B) : c.seq >= h.appliedSeq => c.seq >= g.appliedSeq
    <3>1. \A c \in Answered(B) : c \in B
      BY DEF Answered
    <3> QED BY <1>1, <3>1
  <2> QED BY <2>1, <2>2 DEF Covered, SharesCovered
<1> QED BY <1>2, <1>4, <1>5 DEF Covered

\* The call rejected: fail-closed drops the share.
LEMMA OutageApplied ==
  ASSUME NEW rec \in RecordType, NEW g \in GuardType, NEW h \in GuardType, NEW B \in SUBSET BeatType, NEW b \in B,
         Covered(rec, g, B), NotOvertaken(g, b),
         h.share = 0, h.appliedSeq = b.seq, h.appliedGen = g.appliedGen,
         h.inflight = g.inflight, h.heartbeatSeq = g.heartbeatSeq
  PROVE  Covered(rec, h, B)
<1>1. /\ b.seq >= g.appliedSeq /\ \A c \in B : c.seq \in Nat
      /\ g.appliedSeq \in Nat /\ rec.share \in Nat /\ rec.unackedHigh \in Nat
  BY DEF NotOvertaken, BeatType, GuardType, RecordType
<1>2. SeqsOrdered(rec, h, B) /\ LoadCovered(rec, h, B)
  BY DEF Covered, SeqsOrdered, LoadCovered
<1>3. \A c \in Answered(B) : c.seq >= h.appliedSeq => c.seq >= g.appliedSeq
  <2>1. \A c \in Answered(B) : c \in B
    BY DEF Answered
  <2> QED BY <1>1, <2>1
<1>4. GensOrdered(rec, h, B)
  BY <1>3 DEF Covered, GensOrdered
<1>5. SharesCovered(rec, h, B)
  BY <1>1, <1>3 DEF Covered, SharesCovered
<1> QED BY <1>2, <1>4, <1>5 DEF Covered
\* What a fresh heartbeat does to the floor of a record: it rises with the grant, or, when
\* the node reports the current generation as applied, drops to the share.
LEMMA FloorMoves ==
  ASSUME NEW rec \in RecordType, NEW q \in RecordType, NEW b \in BeatType,
         b.appliedGen <= rec.committedGen, rec.share <= rec.unackedHigh,
         q.committedGen = NextGen(rec, q.share), q.unackedHigh = NextFloor(rec, q.share, b)
  PROVE  /\ q.share <= q.unackedHigh
         /\ \/ q.committedGen = rec.committedGen /\ q.share = rec.share
            \/ q.committedGen = rec.committedGen + 1
         /\ \/ q.unackedHigh >= rec.unackedHigh /\ (q.unackedHigh = rec.unackedHigh \/ q.unackedHigh = q.share)
            \/ /\ b.appliedGen = rec.committedGen /\ q.committedGen = rec.committedGen
               /\ q.unackedHigh = rec.share
<1>1. /\ rec.share \in Nat /\ rec.unackedHigh \in Nat /\ rec.committedGen \in Nat /\ b.appliedGen \in Nat
      /\ q.share \in Nat /\ q.unackedHigh \in Nat
  BY DEF RecordType, BeatType
<1>2. CASE q.share = rec.share
  BY <1>1, <1>2 DEF NextGen, NextFloor, Larger
<1>3. CASE q.share # rec.share
  BY <1>1, <1>3 DEF NextGen, NextFloor, Larger
<1> QED BY <1>2, <1>3

\* The coordinator decides: what the lemmas below say of a call b and of the record, q,
\* it leaves behind.
Decided(rec, q, g, B, b) ==
    /\ Handoff /\ Covered(rec, g, B)
    /\ b \in B /\ b.st = "sent"
    /\ InOrder => \A c \in B : c.st = "sent" => b.seq <= c.seq
    /\ q.maxSeq = Larger(rec.maxSeq, b.seq)
    /\ Fresh(rec, b) => /\ q.inflight = b.inflight
                        /\ q.committedGen = NextGen(rec, q.share)
                        /\ q.unackedHigh = NextFloor(rec, q.share, b)
    /\ ~Fresh(rec, b) => /\ q.inflight = rec.inflight /\ q.share = rec.share
                         /\ q.committedGen = rec.committedGen /\ q.unackedHigh = rec.unackedHigh

\* The calls after the decision.
LEMMA AnswerSets ==
  ASSUME NEW rec \in RecordType, NEW q \in RecordType, NEW g \in GuardType, NEW B \in SUBSET BeatType,
         NEW b, Decided(rec, q, g, B, b), NEW a \in BeatType, a.seq = b.seq, a.st = "replied"
  PROVE  /\ Sent((B \ {b}) \cup {a}) = Sent(B) \ {b}
         /\ Answered((B \ {b}) \cup {a}) = Answered(B) \cup {a}
         /\ Pending(q, (B \ {b}) \cup {a}) \subseteq Pending(rec, B)
         /\ Fresh(rec, b) => /\ b \in Pending(rec, B)
                             /\ \A c \in Pending(q, (B \ {b}) \cup {a}) : b.seq < c.seq
         /\ rec.maxSeq <= q.maxSeq /\ b.seq <= q.maxSeq
         /\ \A c \in B : c.seq = b.seq => c = b
<1> DEFINE C == (B \ {b}) \cup {a}
<1>1. /\ b \in B /\ b.st = "sent" /\ Handoff /\ q.maxSeq = Larger(rec.maxSeq, b.seq)
      /\ rec.maxSeq \in Nat /\ q.maxSeq \in Nat /\ \A c \in B : c.seq \in Nat
  BY DEF Decided, RecordType, BeatType
<1>2. Sent(C) = Sent(B) \ {b} /\ Answered(C) = Answered(B) \cup {a}
  BY <1>1 DEF Sent, Answered
<1>3. rec.maxSeq <= q.maxSeq /\ b.seq <= q.maxSeq /\ (Fresh(rec, b) => q.maxSeq = b.seq)
  BY <1>1 DEF Larger, Fresh
<1>4. ASSUME NEW c \in Pending(q, C) PROVE c \in Pending(rec, B) /\ (Fresh(rec, b) => b.seq < c.seq)
  <2>1. c \in Sent(B) /\ c.seq > q.maxSeq /\ c \in B
    BY <1>2 DEF Pending, Sent
  <2>2. c.seq > rec.maxSeq
    BY <1>1, <1>3, <2>1
  <2> QED BY <1>1, <1>3, <2>1, <2>2 DEF Pending
<1>5. Fresh(rec, b) => b \in Pending(rec, B)
  BY <1>1 DEF Fresh, Pending, Sent
<1>6. \A c \in B : c.seq = b.seq => c = b
  BY <1>1 DEF Decided, Covered, SeqsOrdered
<1> QED BY <1>2, <1>3, <1>4, <1>5, <1>6

\* The coordinator's decision keeps the calls numbered and ordered.
LEMMA DecidedSeqs ==
  ASSUME NEW rec \in RecordType, NEW q \in RecordType, NEW g \in GuardType, NEW B \in SUBSET BeatType,
         NEW b, Decided(rec, q, g, B, b), NEW a \in BeatType, a.seq = b.seq, a.st = "replied"
  PROVE  SeqsOrdered(q, g, (B \ {b}) \cup {a})
<1> DEFINE C == (B \ {b}) \cup {a}
<1>1. /\ Sent(C) = Sent(B) \ {b} /\ Answered(C) = Answered(B) \cup {a}
      /\ rec.maxSeq <= q.maxSeq /\ b.seq <= q.maxSeq
      /\ \A c \in B : c.seq = b.seq => c = b
  <2>1. Sent(C) = Sent(B) \ {b} /\ Answered(C) = Answered(B) \cup {a}
    BY DEF Decided, Sent, Answered
  <2>2. rec.maxSeq <= q.maxSeq /\ b.seq <= q.maxSeq
    <3>1. q.maxSeq = Larger(rec.maxSeq, b.seq) /\ b \in BeatType
      BY DEF Decided
    <3> QED BY <3>1 DEF Larger, RecordType, BeatType
  <2>3. \A c \in B : c.seq = b.seq => c = b
    BY DEF Decided, Covered, SeqsOrdered
  <2> QED BY <2>1, <2>2, <2>3
<1>2. /\ b \in B /\ SeqsOrdered(rec, g, B) /\ (InOrder => \A c \in Sent(B) : b.seq <= c.seq)
      /\ rec.maxSeq \in Nat /\ q.maxSeq \in Nat /\ \A c \in C : c.seq \in Nat
  BY DEF Decided, Covered, Sent, RecordType, BeatType
<1>3. IsFiniteSet(C)
  <2>1. IsFiniteSet(B)
    BY <1>2 DEF SeqsOrdered
  <2> QED BY <2>1, FS_RemoveElement, FS_AddElement
<1>4. \A x, y \in C : x.seq = y.seq => x = y
  BY <1>1, <1>2 DEF SeqsOrdered
<1>5. \A x \in C : x.seq <= g.heartbeatSeq
  BY <1>2 DEF SeqsOrdered
<1>6. ~InOrder => AtMostTwo(C)
  BY <1>2 DEF SeqsOrdered, AtMostTwo
<1>7. \A c \in Answered(C) : c.seq <= q.maxSeq
  <2>1. \A c \in Answered(B) : c \in C \/ c = b
    BY DEF Answered
  <2>2. \A c \in Answered(B) : c.seq <= rec.maxSeq /\ c.seq \in Nat
    BY <1>2 DEF SeqsOrdered, Answered, BeatType
  <2> HIDE DEF C
  <2> QED BY <1>1, <1>2, <2>2
<1>8. InOrder => \A x \in Sent(C), c \in Answered(C) : c.seq < x.seq
  <2> SUFFICES ASSUME InOrder, NEW x \in Sent(C), NEW c \in Answered(C) PROVE c.seq < x.seq
    OBVIOUS
  <2>1. x \in Sent(B) /\ x # b /\ x \in B /\ x.seq # b.seq /\ b.seq <= x.seq /\ x.seq \in Nat
    <3>1. x \in Sent(B) /\ x # b
      BY <1>1
    <3>2. x \in B
      BY <3>1 DEF Sent
    <3> QED BY <1>1, <1>2, <3>1, <3>2
  <2>2. CASE c = a
    BY <1>2, <2>1, <2>2
  <2>3. CASE c # a
    BY <1>1, <1>2, <2>1, <2>3 DEF SeqsOrdered
  <2> QED BY <2>2, <2>3
<1> HIDE DEF C
<1>9. SeqsOrdered(q, g, C)
  BY <1>3, <1>4, <1>5, <1>6, <1>7, <1>8 DEF SeqsOrdered
<1> QED BY <1>9 DEF C

\* The decision keeps the generations in order: the reply carries the newest one.
LEMMA DecidedGens ==
  ASSUME NEW rec \in RecordType, NEW q \in RecordType, NEW g \in GuardType, NEW B \in SUBSET BeatType,
         NEW b, Decided(rec, q, g, B, b), NEW a \in BeatType, a.seq = b.seq, a.st = "replied", a.gen = q.committedGen
  PROVE  GensOrdered(q, g, (B \ {b}) \cup {a})
<1> DEFINE C == (B \ {b}) \cup {a}
<1>1. /\ Sent(C) = Sent(B) \ {b} /\ Answered(C) = Answered(B) \cup {a}
      /\ Pending(q, C) \subseteq Pending(rec, B)
      /\ Fresh(rec, b) => b \in Pending(rec, B)
      /\ \A c \in B : c.seq = b.seq => c = b
  <2>1. Sent(C) = Sent(B) \ {b} /\ Answered(C) = Answered(B) \cup {a}
    BY DEF Decided, Sent, Answered
  <2>2. Pending(q, C) \subseteq Pending(rec, B) /\ (Fresh(rec, b) => b \in Pending(rec, B))
    BY AnswerSets
  <2>3. \A c \in B : c.seq = b.seq => c = b
    BY DEF Decided, Covered, SeqsOrdered
  <2> QED BY <2>1, <2>2, <2>3
<1>2. /\ b \in B /\ b \in Sent(B) /\ Handoff /\ SeqsOrdered(rec, g, B) /\ GensOrdered(rec, g, B) /\ SharesCovered(rec, g, B)
      /\ rec.committedGen \in Nat /\ q.committedGen \in Nat /\ g.appliedGen \in Nat /\ rec.maxSeq \in Nat
      /\ b.seq \in Nat /\ b \in BeatType
      /\ \A c \in Answered(B) : c.gen \in Nat /\ c.seq \in Nat /\ c \in B /\ c \notin Sent(B)
  BY DEF Decided, Covered, Sent, Answered, RecordType, GuardType, BeatType
<1>3. /\ rec.committedGen <= q.committedGen
      /\ ~Fresh(rec, b) => q.committedGen = rec.committedGen
  <2>1. CASE Fresh(rec, b)
    <3>1. b.appliedGen <= rec.committedGen
      BY <1>1, <1>2, <2>1 DEF GensOrdered, BeatType
    <3>2. q.committedGen = rec.committedGen \/ q.committedGen = rec.committedGen + 1
      BY <2>1 DEF Decided, NextGen
    <3> QED BY <1>2, <2>1, <3>2
  <2>2. CASE ~Fresh(rec, b)
    BY <1>2, <2>2 DEF Decided
  <2> QED BY <2>1, <2>2
<1>4. g.appliedGen <= q.committedGen /\ g.appliedGen <= rec.committedGen
  BY <1>2, <1>3 DEF GensOrdered
<1>5. \A c \in Answered(B) : c.gen <= rec.committedGen /\ c.gen <= q.committedGen
  BY <1>2, <1>3 DEF GensOrdered
<1>6. \A c \in Answered(B) : b.seq < c.seq => c.gen = q.committedGen
  <2> SUFFICES ASSUME NEW c \in Answered(B), b.seq < c.seq PROVE c.gen = q.committedGen
    OBVIOUS
  <2>1. c.gen = rec.committedGen
    BY <1>2 DEF GensOrdered
  <2>2. c.seq <= rec.maxSeq
    BY <1>2 DEF SeqsOrdered
  <2>3. ~Fresh(rec, b)
    BY <1>2, <2>2 DEF Fresh
  <2> QED BY <1>3, <2>1, <2>3
<1>7. ASSUME NEW x \in Sent(C), NEW c \in Answered(C), x.seq < c.seq
      PROVE  c.gen = q.committedGen
  <2>1. x \in Sent(B) /\ x # b /\ x \in B
    BY <1>1 DEF Sent
  <2>2. CASE c = a
    BY <2>2
  <2>3. CASE c # a
    <3>1. c \in Answered(B)
      BY <1>1, <2>3
    <3>2. c \in B /\ c # x /\ c # b
      BY <1>2, <2>1, <3>1
    <3>3. ~InOrder => FALSE
      BY <1>2, <2>1, <3>2 DEF SeqsOrdered, AtMostTwo
    <3>4. InOrder => c.seq < x.seq
      BY <1>2, <2>1, <3>1 DEF SeqsOrdered
    <3>5. c.seq \in Nat /\ x.seq \in Nat
      BY <2>1, <3>2 DEF BeatType
    <3> QED BY <1>7, <3>3, <3>4, <3>5
  <2> QED BY <2>2, <2>3
<1>8. \A c \in Answered(C) : c.gen <= q.committedGen /\ (c.seq >= g.appliedSeq => g.appliedGen <= c.gen)
  <2> HIDE DEF C
  <2>1. \A c \in Answered(B) : c.seq >= g.appliedSeq => g.appliedGen <= c.gen
    BY <1>2 DEF GensOrdered
  <2> QED BY <1>1, <1>2, <1>4, <1>5, <2>1
<1>9. \A x, y \in Answered(C) : x.seq < y.seq => x.gen <= y.gen
  <2> SUFFICES ASSUME NEW x \in Answered(C), NEW y \in Answered(C), x.seq < y.seq PROVE x.gen <= y.gen
    OBVIOUS
  <2> HIDE DEF C
  <2>1. CASE y = a
    BY <1>1, <1>2, <1>5, <2>1
  <2>2. CASE x = a /\ y # a
    BY <1>1, <1>2, <1>6, <2>2
  <2>3. CASE x # a /\ y # a
    BY <1>1, <1>2, <2>3 DEF GensOrdered
  <2> QED BY <2>1, <2>2, <2>3
<1>10. \A x \in Pending(q, C) : x.appliedGen <= g.appliedGen
  <2> HIDE DEF C
  <2> QED BY <1>1, <1>2 DEF GensOrdered
<1>11. \A x, y \in Pending(q, C) : x.seq < y.seq => x.appliedGen <= y.appliedGen
  <2> HIDE DEF C
  <2> QED BY <1>1, <1>2 DEF GensOrdered
<1> HIDE DEF C
<1>12. GensOrdered(q, g, C)
  BY <1>4, <1>7, <1>8, <1>9, <1>10, <1>11 DEF GensOrdered
<1> QED BY <1>12 DEF C
\* The decision keeps every share that is or may still be applied below the floor: the
\* floor drops only to the share of a generation the node has said it applied.
LEMMA DecidedShares ==
  ASSUME NEW rec \in RecordType, NEW q \in RecordType, NEW g \in GuardType, NEW B \in SUBSET BeatType,
         NEW b, Decided(rec, q, g, B, b), NEW a \in BeatType, a.seq = b.seq, a.st = "replied",
         a.share = q.share, a.gen = q.committedGen
  PROVE  SharesCovered(q, g, (B \ {b}) \cup {a})
<1> DEFINE C == (B \ {b}) \cup {a}
           U == rec.unackedHigh
<1>1. /\ Answered(C) = Answered(B) \cup {a}
      /\ Fresh(rec, b) => b \in Pending(rec, B)
  <2>1. Answered(C) = Answered(B) \cup {a}
    BY DEF Decided, Sent, Answered
  <2>2. Fresh(rec, b) => b \in Pending(rec, B)
    BY AnswerSets
  <2> QED BY <2>1, <2>2
<1>2. /\ GensOrdered(rec, g, B) /\ SharesCovered(rec, g, B) /\ b \in BeatType
      /\ rec.share \in Nat /\ U \in Nat /\ rec.committedGen \in Nat
      /\ q.share \in Nat /\ q.unackedHigh \in Nat /\ q.committedGen \in Nat
      /\ g.share \in Nat /\ g.appliedGen \in Nat
      /\ \A c \in Answered(B) : c.gen \in Nat /\ c.share \in Nat
  BY DEF Decided, Covered, Answered, RecordType, GuardType, BeatType
<1>3. /\ rec.share <= U /\ g.share <= U /\ g.appliedGen <= rec.committedGen
      /\ g.appliedGen = rec.committedGen => g.share <= rec.share
  BY <1>2 DEF SharesCovered, GensOrdered
<1>4. \A c \in Answered(B) : c.seq >= g.appliedSeq =>
          /\ c.share <= U /\ (c.gen = rec.committedGen => c.share <= rec.share)
          /\ g.appliedGen <= c.gen /\ c.gen <= rec.committedGen
  BY <1>2 DEF SharesCovered, GensOrdered
<1>5. CASE Fresh(rec, b)
  <2>1. b.appliedGen <= g.appliedGen /\ b.appliedGen <= rec.committedGen /\ b.appliedGen \in Nat
    <3>1. b.appliedGen <= g.appliedGen /\ b.appliedGen \in Nat
      BY <1>1, <1>2, <1>5 DEF GensOrdered, BeatType
    <3> QED BY <1>2, <1>3, <3>1
  <2>2. /\ q.share <= q.unackedHigh
        /\ \/ q.committedGen = rec.committedGen /\ q.share = rec.share
           \/ q.committedGen = rec.committedGen + 1
        /\ \/ q.unackedHigh >= U
           \/ /\ b.appliedGen = rec.committedGen /\ q.committedGen = rec.committedGen
              /\ q.unackedHigh = rec.share
    <3>1. q.committedGen = NextGen(rec, q.share) /\ q.unackedHigh = NextFloor(rec, q.share, b)
      BY <1>5 DEF Decided
    <3> QED BY <1>2, <1>3, <2>1, <3>1, FloorMoves
  <2>3. q.unackedHigh >= U \/ (g.appliedGen = rec.committedGen /\ q.unackedHigh = rec.share)
    BY <1>2, <1>3, <2>1, <2>2
  <2>4. g.share <= q.unackedHigh
    BY <1>2, <1>3, <2>3
  <2>5. g.appliedGen = q.committedGen => g.share <= q.share
    BY <1>2, <1>3, <2>2
  <2>6. ASSUME NEW c \in Answered(B), c.seq >= g.appliedSeq
        PROVE  c.share <= q.unackedHigh /\ (c.gen = q.committedGen => c.share <= q.share)
    <3>1. /\ c.share <= U /\ (c.gen = rec.committedGen => c.share <= rec.share)
          /\ g.appliedGen <= c.gen /\ c.gen <= rec.committedGen
          /\ c.gen \in Nat /\ c.share \in Nat
      BY <1>2, <1>4, <2>6
    <3>2. c.share <= q.unackedHigh
      BY <1>2, <2>3, <3>1
    <3> QED BY <1>2, <2>2, <3>1, <3>2
  <2> HIDE DEF C
  <2>7. SharesCovered(q, g, C)
    BY <1>1, <1>2, <2>2, <2>4, <2>5, <2>6 DEF SharesCovered
  <2> QED BY <2>7 DEF C
<1>6. CASE ~Fresh(rec, b)
  <2>1. q.share = rec.share /\ q.unackedHigh = U /\ q.committedGen = rec.committedGen
    BY <1>6 DEF Decided
  <2> HIDE DEF C
  <2>2. SharesCovered(q, g, C)
    BY <1>1, <1>2, <1>3, <1>4, <2>1 DEF SharesCovered
  <2> QED BY <2>2 DEF C
<1> QED BY <1>5, <1>6

\* The decision keeps the node's load below what is set aside for it.
LEMMA DecidedLoad ==
  ASSUME NEW rec \in RecordType, NEW q \in RecordType, NEW g \in GuardType, NEW B \in SUBSET BeatType,
         NEW b, Decided(rec, q, g, B, b), NEW a \in BeatType, a.seq = b.seq, a.st = "replied"
  PROVE  LoadCovered(q, g, (B \ {b}) \cup {a})
<1> DEFINE C == (B \ {b}) \cup {a}
           U == rec.unackedHigh
           V == q.unackedHigh
<1>1. /\ Pending(q, C) \subseteq Pending(rec, B)
      /\ Fresh(rec, b) => b \in Pending(rec, B) /\ \A c \in Pending(q, C) : b.seq < c.seq
  BY AnswerSets
<1> HIDE DEF C
<1>2. /\ Handoff /\ GensOrdered(rec, g, B) /\ SharesCovered(rec, g, B) /\ LoadCovered(rec, g, B) /\ b \in BeatType
      /\ rec.share \in Nat /\ U \in Nat /\ rec.committedGen \in Nat /\ rec.inflight \in Nat
      /\ q.share \in Nat /\ V \in Nat /\ q.committedGen \in Nat /\ q.inflight \in Nat
      /\ g.inflight \in Nat /\ g.appliedGen \in Nat /\ b.inflight \in Nat /\ b.appliedGen \in Nat
      /\ \A c \in Pending(rec, B) : c.inflight \in Nat /\ c.appliedGen \in Nat
  BY DEF Decided, Covered, Pending, Sent, RecordType, GuardType, BeatType
<1>3. Reserve(q) = Larger(V, q.inflight)
  BY <1>2 DEF Reserve
<1>4. CASE Fresh(rec, b)
  <2>1. /\ b.appliedGen <= rec.committedGen
        /\ \A c \in Pending(q, C) : b.appliedGen <= c.appliedGen /\ c.appliedGen <= rec.committedGen
    <3>1. \A c \in Pending(rec, B) : c.appliedGen <= g.appliedGen /\ g.appliedGen <= rec.committedGen
      BY <1>2 DEF GensOrdered
    <3>2. \A c \in Pending(rec, B) : c.appliedGen <= rec.committedGen
      BY <1>2, <3>1
    <3>3. \A c \in Pending(q, C) : b.appliedGen <= c.appliedGen
      BY <1>1, <1>2, <1>4 DEF GensOrdered
    <3> QED BY <1>1, <1>4, <3>2, <3>3
  <2>2. /\ \/ q.committedGen = rec.committedGen /\ q.share = rec.share
           \/ q.committedGen = rec.committedGen + 1
        /\ \/ V >= U
           \/ /\ b.appliedGen = rec.committedGen /\ q.committedGen = rec.committedGen
              /\ V = rec.share
    <3>1. q.committedGen = NextGen(rec, q.share) /\ q.unackedHigh = NextFloor(rec, q.share, b)
      BY <1>4 DEF Decided
    <3>2. rec.share <= U
      BY <1>2 DEF SharesCovered
    <3> QED BY <1>2, <2>1, <3>1, <3>2, FloorMoves
  <2>3. q.inflight = b.inflight
    BY <1>4 DEF Decided
  <2>4. /\ g.inflight <= Larger(b.inflight, U)
        /\ b.appliedGen = rec.committedGen => g.inflight <= Larger(b.inflight, rec.share)
    BY <1>1, <1>2, <1>4 DEF LoadCovered
  <2>5. ASSUME NEW c \in Pending(q, C)
        PROVE  /\ c \in Pending(rec, B)
               /\ c.inflight <= Larger(b.inflight, U)
               /\ b.appliedGen = rec.committedGen => c.inflight <= Larger(b.inflight, rec.share)
               /\ g.inflight <= Larger(c.inflight, U)
               /\ c.appliedGen = rec.committedGen => g.inflight <= Larger(c.inflight, rec.share)
    BY <1>1, <1>2, <1>4 DEF LoadCovered
  <2>6. g.inflight <= Reserve(q)
    BY <1>2, <1>3, <2>2, <2>3, <2>4 DEF Larger
  <2>7. ASSUME NEW c \in Pending(q, C)
        PROVE  /\ c.inflight <= Reserve(q)
               /\ g.inflight <= Larger(c.inflight, V)
               /\ c.appliedGen = q.committedGen => g.inflight <= Larger(c.inflight, q.share)
    <3>1. c.inflight \in Nat /\ c.appliedGen \in Nat /\ b.appliedGen <= c.appliedGen /\ c.appliedGen <= rec.committedGen
      BY <1>2, <2>1, <2>5
    <3>2. c.inflight <= Reserve(q)
      BY <1>2, <1>3, <2>2, <2>3, <2>5, <3>1 DEF Larger
    <3>3. g.inflight <= Larger(c.inflight, V)
      BY <1>2, <2>2, <2>5, <3>1 DEF Larger
    <3>4. c.appliedGen = q.committedGen => g.inflight <= Larger(c.inflight, q.share)
      BY <1>2, <2>2, <2>5, <3>1
    <3> QED BY <3>2, <3>3, <3>4
  <2>8. ASSUME NEW c \in Pending(q, C), NEW d \in Pending(q, C), c.seq < d.seq
        PROVE  /\ d.inflight <= Larger(c.inflight, V)
               /\ c.appliedGen = q.committedGen => d.inflight <= Larger(c.inflight, q.share)
    <3>1. /\ d.inflight <= Larger(c.inflight, U)
          /\ c.appliedGen = rec.committedGen => d.inflight <= Larger(c.inflight, rec.share)
      BY <1>2, <2>5, <2>8 DEF LoadCovered
    <3>2. /\ c.inflight \in Nat /\ d.inflight \in Nat /\ c.appliedGen \in Nat
          /\ b.appliedGen <= c.appliedGen /\ c.appliedGen <= rec.committedGen
      BY <1>2, <2>1, <2>5
    <3> QED BY <1>2, <2>2, <3>1, <3>2 DEF Larger
  <2> QED BY <2>6, <2>7, <2>8 DEF LoadCovered, C
<1>5. CASE ~Fresh(rec, b)
  <2>1. q.share = rec.share /\ V = U /\ q.committedGen = rec.committedGen /\ Reserve(q) = Reserve(rec)
    BY <1>5 DEF Decided, Reserve
  <2>2. LoadCovered(q, g, C)
    BY <1>1, <1>2, <2>1 DEF LoadCovered
  <2> QED BY <2>2 DEF C
<1> QED BY <1>4, <1>5

\* The decision leaves a covered node covered.
LEMMA CallDecided ==
  ASSUME NEW rec \in RecordType, NEW q \in RecordType, NEW g \in GuardType, NEW B \in SUBSET BeatType,
         NEW b, Decided(rec, q, g, B, b)
  PROVE  Covered(q, g, (B \ {b}) \cup {AnswerTo(b, q)})
<1>1. b \in BeatType
  BY DEF Decided
<1>2. AnswerTo(b, q) \in BeatType /\ AnswerTo(b, q).seq = b.seq /\ AnswerTo(b, q).st = "replied"
      /\ AnswerTo(b, q).share = q.share /\ AnswerTo(b, q).gen = q.committedGen
  BY <1>1, AnswerFields
<1> QED BY <1>2, DecidedSeqs, DecidedGens, DecidedShares, DecidedLoad DEF Covered
----------------------------------------------------------------------------
(* Every node *)

\* An idle node is covered.
LEMMA CoveredInit == Acknowledged /\ Init => NodesCovered
<1> SUFFICES ASSUME Acknowledged, Init, NEW n \in Node PROVE Covered(reg[n], guard[n], beats[n])
  BY DEF NodesCovered
<1>1. PICK l \in Limits : guard[n] = NewGuard(l)
  BY DEF Init
<1>2. reg[n] = NoRecord /\ beats[n] = {}
  BY DEF Init
<1>3. guard[n].share = 0 /\ guard[n].appliedGen = 0 /\ guard[n].inflight = 0
  BY <1>1 DEF NewGuard, Acknowledged
<1>4. /\ reg[n].share = 0 /\ reg[n].unackedHigh = 0 /\ reg[n].committedGen = 0 /\ reg[n].inflight = 0
  BY <1>2 DEF NoRecord
<1>5. Sent(beats[n]) = {} /\ Answered(beats[n]) = {} /\ Pending(reg[n], beats[n]) = {}
  BY <1>2 DEF Sent, Answered, Pending
<1>6. SeqsOrdered(reg[n], guard[n], beats[n])
  BY <1>2, <1>5, FS_EmptySet DEF SeqsOrdered, AtMostTwo
<1>7. GensOrdered(reg[n], guard[n], beats[n])
  BY <1>3, <1>4, <1>5 DEF GensOrdered
<1>8. SharesCovered(reg[n], guard[n], beats[n])
  BY <1>3, <1>4, <1>5 DEF SharesCovered
<1>9. LoadCovered(reg[n], guard[n], beats[n])
  BY <1>3, <1>4, <1>5 DEF LoadCovered, Reserve, Larger
<1> QED BY <1>6, <1>7, <1>8, <1>9 DEF Covered

\* A step of node n leaves the other nodes as they are, but for records it evicts.
LEMMA OneNodeMoves ==
  ASSUME NodesCovered, NEW n \in Node, Gone(n)' \/ Covered(reg[n], guard[n], beats[n])',
         \A m \in Node : m # n => guard'[m] = guard[m] /\ beats'[m] = beats[m] /\ (reg'[m] = reg[m] \/ Gone(m))
  PROVE  NodesCovered'
<1> SUFFICES ASSUME NEW m \in Node, ~Gone(m)' PROVE Covered(reg'[m], guard'[m], beats'[m])
  BY DEF NodesCovered
<1>1. CASE m = n
  BY <1>1
<1>2. CASE m # n
  <2>1. guard'[m] = guard[m] /\ beats'[m] = beats[m]
    BY <1>2
  <2>2. ~Gone(m)
    BY <2>1 DEF Gone
  <2> QED BY <1>2, <2>1, <2>2 DEF NodesCovered
<1> QED BY <1>1, <1>2

\* Once a node is gone it stays gone.
LEMMA GoneStays == TypeOK /\ [Next]_vars => \A n \in Node : Gone(n) => Gone(n)'
<1> SUFFICES ASSUME TypeOK, [Next]_vars, NEW n \in Node, Gone(n) PROVE Gone(n)'
  OBVIOUS
<1>1. ASSUME NEW m \in Node, Acquire(m) \/ Release(m) PROVE Gone(n)'
  <2>1. m # n
    <3>1. guard[n].phase # "open" /\ guard[n].inflight = 0
      BY DEF Gone
    <3> QED BY <1>1, <3>1 DEF Acquire, Release
  <2> QED BY <1>1, <2>1 DEF Acquire, Release, Gone, TypeOK
<1>2. ASSUME NEW m \in Node, Beat(m) \/ Close(m) \/ Crash(m) PROVE Gone(n)'
  <2>1. guard[m] \in GuardType
    BY Typed
  <2>2. CASE Beat(m)
    BY <2>1, <2>2 DEF Beat, Gone, TypeOK, GuardType
  <2>3. CASE Close(m)
    BY <2>1, <2>3 DEF Close, Gone, TypeOK, GuardType
  <2>4. CASE Crash(m)
    BY <2>1, <2>4 DEF Crash, Gone, TypeOK, GuardType
  <2> QED BY <1>2, <2>2, <2>3, <2>4
<1>3. ASSUME NEW m \in Node, NEW b \in beats[m], Reply(m, b) \/ Outage(m, b) PROVE Gone(n)'
  <2>1. \E h \in GuardType : guard' = [guard EXCEPT ![m] = h] /\ h.phase = guard[m].phase /\ h.inflight = guard[m].inflight
    <3>1. CASE Reply(m, b)
      BY <3>1, RepliedGuard
    <3>2. CASE Outage(m, b)
      BY <3>2, RejectedGuard
    <3> QED BY <1>3, <3>1, <3>2
  <2> QED BY <2>1 DEF Gone, TypeOK
<1>4. CASE UNCHANGED guard
  BY <1>4 DEF Gone
<1> QED
  <2>1. CASE Next
    BY Zenon, <1>1, <1>2, <1>3, <1>4, <2>1 DEF Next, LeaveTakesEffect, LeaveFails, Deliver, LoseCall, Tick
  <2>2. CASE UNCHANGED vars
    BY <1>4, <2>2 DEF vars
  <2> QED BY <2>1, <2>2
\* Every step of the fleet leaves every node covered that has not stopped and drained.
LEMMA CoveredStep ==
  Acknowledged /\ TypeOK /\ RecordInv /\ NodesCovered /\ [Next]_vars /\ [KeepsRecords]_vars => NodesCovered'
<1> SUFFICES ASSUME Acknowledged, TypeOK, RecordInv, NodesCovered, [Next]_vars, [KeepsRecords]_vars
             PROVE  NodesCovered'
  OBVIOUS
<1> DEFINE C(n) == Covered(reg[n], guard[n], beats[n])
<1>0. Handoff /\ FailClosed
  BY DEF Acknowledged
<1>t. TypeOK' /\ \A n \in Node : Gone(n) => Gone(n)'
  BY TypeStep, GoneStays
<1>n. \A n \in Node : /\ reg[n] \in RecordType /\ guard[n] \in GuardType /\ beats[n] \in SUBSET BeatType
                      /\ reg'[n] \in RecordType /\ guard'[n] \in GuardType /\ beats'[n] \in SUBSET BeatType
  BY <1>t DEF TypeOK
<1>1. ASSUME NEW n \in Node, Acquire(n) \/ Release(n) \/ Close(n) PROVE NodesCovered'
  <2> DEFINE g == guard[n]
             h == guard'[n]
  <2>1. /\ h.share = g.share /\ h.appliedSeq = g.appliedSeq /\ h.appliedGen = g.appliedGen
        /\ h.heartbeatSeq = g.heartbeatSeq /\ (h.inflight <= g.inflight \/ h.inflight <= g.share)
        /\ \A m \in Node : m # n => guard'[m] = guard[m]
        /\ reg' = reg /\ beats' = beats
    <3>1. CASE Acquire(n)
      <4>1. g.inflight < g.share
        <5>1. g.inflight \in Nat /\ g.share \in Nat /\ g.limit \in Nat
          BY <1>n, LimitsNat DEF GuardType
        <5>2. g.inflight < Ceiling(g)
          BY <3>1 DEF Acquire
        <5> HIDE DEF g
        <5> QED BY <5>1, <5>2 DEF Ceiling, Smaller
      <4> QED BY <1>n, <3>1, <4>1 DEF Acquire, TypeOK, GuardType
    <3>2. CASE Release(n)
      <4>1. PICK l \in Limits : guard' = [guard EXCEPT ![n].inflight = @ - 1, ![n].limit = l]
        BY <3>2 DEF Release
      <4> QED BY <1>n, <3>2, <4>1 DEF Release, TypeOK, GuardType
    <3>3. CASE Close(n)
      BY <1>n, <3>3 DEF Close, TypeOK, GuardType
    <3> QED BY <1>1, <3>1, <3>2, <3>3
  <2>2. C(n) => Covered(reg[n], h, beats[n])
    <3> HIDE DEF h
    <3> QED BY <1>0, <1>n, <2>1, GuardMoves DEF h
  <2>3. Gone(n)' \/ C(n)
    BY <1>t DEF NodesCovered
  <2>4. Gone(n)' \/ C(n)'
    BY <2>1, <2>2, <2>3
  <2> QED BY <2>1, <2>4, OneNodeMoves
<1>2. ASSUME NEW n \in Node, Beat(n) PROVE NodesCovered'
  <2> DEFINE g == guard[n]
             h == guard'[n]
             c == [seq |-> g.heartbeatSeq + 1, lLocal |-> g.limit, inflight |-> g.inflight, expiresAt |-> now + LeaseTtl,
                   appliedGen |-> g.appliedGen, st |-> "sent", share |-> 0, gen |-> 0]
  <2>1. /\ h.share = g.share /\ h.appliedSeq = g.appliedSeq /\ h.appliedGen = g.appliedGen
        /\ h.inflight = g.inflight /\ h.heartbeatSeq = g.heartbeatSeq + 1
        /\ \A m \in Node : m # n => guard'[m] = guard[m]
    BY <1>n, <1>2 DEF Beat, TypeOK, GuardType
  <2>2. /\ reg' = reg /\ beats'[n] = beats[n] \cup {c} /\ \A m \in Node : m # n => beats'[m] = beats[m]
        /\ Cardinality(beats[n]) < MaxInFlight
    BY <1>2 DEF Beat, TypeOK
  <2>3. C(n) /\ ~InOrder => Cardinality(beats[n]) < 2
    <3> SUFFICES ASSUME C(n), ~InOrder PROVE Cardinality(beats[n]) < 2
      OBVIOUS
    <3>1. Cardinality(beats[n]) \in Nat
      BY FS_CardinalityType DEF Covered, SeqsOrdered
    <3>2. MaxInFlight <= 2 /\ MaxInFlight \in Nat
      BY FleetAssumption DEF Acknowledged
    <3> QED BY <2>2, <3>1, <3>2
  <2>4. c \in BeatType /\ c.st = "sent" /\ c.seq = h.heartbeatSeq /\ c.inflight = g.inflight /\ c.appliedGen = g.appliedGen
    BY <1>n, <2>1, <2>2
  <2>5. C(n) => Covered(reg[n], h, beats[n] \cup {c})
    <3> HIDE DEF h, c
    <3> QED BY <1>0, <1>n, <2>1, <2>3, <2>4, CallIssued DEF h
  <2>6. Gone(n)' \/ C(n)'
    BY <1>t, <2>2, <2>5 DEF NodesCovered
  <2> QED BY <2>1, <2>2, <2>6, OneNodeMoves
<1>3. ASSUME NEW n \in Node, Crash(n) PROVE NodesCovered'
  <2>1. Gone(n)'
    BY <1>n, <1>3 DEF Crash, Gone, TypeOK, GuardType
  <2>2. \A m \in Node : m # n => guard'[m] = guard[m] /\ beats'[m] = beats[m] /\ reg'[m] = reg[m]
    BY <1>3 DEF Crash, TypeOK
  <2> QED BY <2>1, <2>2, OneNodeMoves
<1>4. ASSUME NEW n \in Node, LeaveTakesEffect(n) PROVE NodesCovered'
  <2>1. reg'[n] = NoRecord /\ guard' = guard /\ beats' = beats /\ \A m \in Node : m # n => reg'[m] = reg[m]
    BY <1>4 DEF LeaveTakesEffect, TypeOK
  <2>2. Gone(n) \/ reg[n] = NoRecord
    <3>1. CASE KeepsRecords
      BY <2>1, <3>1 DEF KeepsRecords, NoRecord, RecordInv
    <3>2. CASE UNCHANGED vars
      BY <2>1, <3>2 DEF vars
    <3> QED BY <3>1, <3>2
  <2>3. Gone(n)' \/ C(n)'
    BY <1>t, <2>1, <2>2 DEF NodesCovered
  <2> QED BY <2>1, <2>3, OneNodeMoves
<1>5. ASSUME NEW n \in Node, NEW b \in beats[n], Deliver(n, b) PROVE NodesCovered'
  <2> DEFINE a == AnswerTo(b, reg'[n])
  <2>1. PICK d \in 0..MaxSkew : HeartbeatEffect(reg, reg', n, b, now + d)
    BY <1>5, Delivered
  <2>2. guard' = guard /\ beats'[n] = (beats[n] \ {b}) \cup {a} /\ \A m \in Node : m # n => beats'[m] = beats[m]
    BY <1>5 DEF Deliver, TypeOK, AnswerTo
  <2>3. \A m \in Node : m # n => reg'[m] = reg[m] \/ Gone(m)
    <3>1. CASE KeepsRecords
      BY <2>1, <3>1 DEF KeepsRecords, NoRecord, HeartbeatEffect
    <3>2. CASE UNCHANGED vars
      BY <3>2 DEF vars
    <3> QED BY <3>1, <3>2
  <2>4. C(n) => Decided(reg[n], reg'[n], guard[n], beats[n], b)
    BY <1>0, <1>5, <2>1 DEF Decided, HeartbeatEffect, Deliver
  <2>5. C(n) => Covered(reg'[n], guard[n], (beats[n] \ {b}) \cup {a})
    <3> HIDE DEF a
    <3> QED BY <1>n, <2>4, CallDecided DEF a
  <2>6. Gone(n)' \/ C(n)'
    BY <1>t, <2>2, <2>5 DEF NodesCovered
  <2> QED BY <2>2, <2>3, <2>6, OneNodeMoves
<1>6. ASSUME NEW n \in Node, NEW b \in beats[n], LoseCall(n, b) PROVE NodesCovered'
  <2> DEFINE c == [b EXCEPT !.st = "failed"]
  <2>1. c \in BeatType /\ c.st = "failed" /\ c.seq = b.seq
    BY <1>n DEF BeatType
  <2>2. /\ guard' = guard /\ reg' = reg /\ beats'[n] = (beats[n] \ {b}) \cup {c}
        /\ \A m \in Node : m # n => beats'[m] = beats[m]
    BY <1>6 DEF LoseCall, TypeOK
  <2> HIDE DEF c
  <2>3. C(n) => Covered(reg[n], guard[n], (beats[n] \ {b}) \cup {c})
    BY <1>n, <2>1, CallLost
  <2>4. Gone(n)' \/ C(n)'
    BY <1>t, <2>2, <2>3 DEF NodesCovered
  <2> QED BY <2>2, <2>4, OneNodeMoves
<1>7. ASSUME NEW n \in Node, NEW b \in beats[n], Reply(n, b) \/ Outage(n, b) PROVE NodesCovered'
  <2> DEFINE g == guard[n]
             h == guard'[n]
  <2>1. reg' = reg /\ beats'[n] = beats[n] \ {b} /\ \A m \in Node : m # n => beats'[m] = beats[m]
    BY <1>7 DEF Reply, Outage, TypeOK
  <2>2. \A m \in Node : m # n => guard'[m] = guard[m]
    BY <1>7 DEF Reply, Outage, TypeOK
  <2>3. C(n) => Covered(reg[n], h, beats[n])
    <3> SUFFICES ASSUME C(n) PROVE Covered(reg[n], h, beats[n])
      OBVIOUS
    <3>1. CASE Reply(n, b)
      <4>1. /\ h.inflight = g.inflight /\ h.heartbeatSeq = g.heartbeatSeq
            /\ IF NotOvertaken(g, b)
               THEN h.appliedSeq = b.seq /\ h.share = b.share /\ h.appliedGen = b.gen
               ELSE h.appliedSeq = g.appliedSeq /\ h.share = g.share /\ h.appliedGen = g.appliedGen
        <5>1. \E k \in GuardType :
                /\ guard' = [guard EXCEPT ![n] = k]
                /\ k.inflight = g.inflight /\ k.heartbeatSeq = g.heartbeatSeq
                /\ IF NotOvertaken(g, b)
                   THEN k.appliedSeq = b.seq /\ k.share = b.share /\ k.appliedGen = b.gen
                   ELSE k.appliedSeq = g.appliedSeq /\ k.share = g.share /\ k.appliedGen = g.appliedGen
          BY <1>0, <3>1, RepliedGuard
        <5> QED BY <5>1 DEF TypeOK
      <4>2. b \in Answered(beats[n])
        BY <3>1 DEF Reply, Answered
      <4> HIDE DEF h
      <4>3. CASE NotOvertaken(g, b)
        BY <1>n, <4>1, <4>2, <4>3, ReplyApplied DEF h
      <4>4. CASE ~NotOvertaken(g, b)
        <5>1. h.inflight <= g.inflight
          BY <1>n, <4>1 DEF GuardType
        <5> QED BY <1>0, <1>n, <4>1, <4>4, <5>1, GuardMoves DEF h
      <4> QED BY <4>3, <4>4
    <3>2. CASE Outage(n, b)
      <4>1. /\ h.inflight = g.inflight /\ h.heartbeatSeq = g.heartbeatSeq /\ h.appliedGen = g.appliedGen
            /\ IF NotOvertaken(g, b) THEN h.appliedSeq = b.seq /\ h.share = 0 ELSE h = g
        <5>1. \E k \in GuardType :
                /\ guard' = [guard EXCEPT ![n] = k]
                /\ k.inflight = g.inflight /\ k.heartbeatSeq = g.heartbeatSeq /\ k.appliedGen = g.appliedGen
                /\ IF NotOvertaken(g, b) THEN k.appliedSeq = b.seq /\ k.share = 0 ELSE k = g
          BY <1>0, <3>2, RejectedGuard
        <5> QED BY <5>1 DEF TypeOK
      <4> HIDE DEF h
      <4>2. CASE NotOvertaken(g, b)
        BY <1>n, <4>1, <4>2, OutageApplied DEF h
      <4>3. CASE ~NotOvertaken(g, b)
        BY <4>1, <4>3
      <4> QED BY <4>2, <4>3
    <3> QED BY <1>7, <3>1, <3>2
  <2>4. C(n) => Covered(reg[n], h, beats[n] \ {b})
    <3> HIDE DEF h
    <3> QED BY <2>3, FewerBeats
  <2>5. Gone(n)' \/ C(n)'
    BY <1>t, <2>1, <2>4 DEF NodesCovered
  <2> QED BY <2>1, <2>2, <2>5, OneNodeMoves
<1>8. CASE UNCHANGED <<reg, guard, beats>>
  BY <1>8 DEF NodesCovered, Gone
<1> QED
  <2>1. CASE Next
    BY <1>1, <1>2, <1>3, <1>4, <1>5, <1>6, <1>7, <1>8, <2>1 DEF Next, LeaveFails, Tick
  <2>2. CASE UNCHANGED vars
    BY <1>8, <2>2 DEF vars
  <2> QED BY <2>1, <2>2
----------------------------------------------------------------------------
(* The fleet *)

\* Nothing is set aside for a record that is gone.
LEMMA ReserveOfNothing == Reserve(NoRecord) = 0
BY DEF Reserve, NoRecord, Larger

\* A heartbeat raises what is set aside for its node at most to the new grant.
LEMMA ReserveAfter ==
  ASSUME NEW rec \in RecordType, NEW q \in RecordType, NEW g \in GuardType, NEW B \in SUBSET BeatType,
         NEW b, Decided(rec, q, g, B, b)
  PROVE  Reserve(q) <= Reserve(rec) \/ (Fresh(rec, b) /\ Reserve(q) <= q.share)
<1>1. /\ rec.share \in Nat /\ rec.unackedHigh \in Nat /\ rec.inflight \in Nat
      /\ q.share \in Nat /\ q.unackedHigh \in Nat /\ q.inflight \in Nat
      /\ b \in BeatType /\ b.inflight \in Nat /\ rec.committedGen \in Nat /\ g.appliedGen \in Nat /\ b.appliedGen \in Nat
      /\ Handoff /\ Covered(rec, g, B)
  BY DEF Decided, RecordType, GuardType, BeatType
<1>2. CASE Fresh(rec, b)
  <2>1. b \in Pending(rec, B)
    BY <1>1, <1>2 DEF Decided, Fresh, Pending, Sent
  <2>2. b.inflight <= Reserve(rec) /\ b.appliedGen <= rec.committedGen
    <3>1. b.appliedGen <= g.appliedGen /\ g.appliedGen <= rec.committedGen
      BY <1>1, <2>1 DEF Covered, GensOrdered
    <3>2. b.inflight <= Reserve(rec)
      BY <1>1, <2>1 DEF Covered, LoadCovered
    <3> QED BY <1>1, <3>1, <3>2
  <2>3. rec.share <= rec.unackedHigh
    BY <1>1 DEF Covered, SharesCovered
  <2>4. \/ q.unackedHigh = rec.unackedHigh \/ q.unackedHigh = q.share
        \/ q.unackedHigh = rec.share
    <3>1. q.committedGen = NextGen(rec, q.share) /\ q.unackedHigh = NextFloor(rec, q.share, b)
      BY <1>2 DEF Decided
    <3> QED BY <1>1, <2>2, <2>3, <3>1, FloorMoves
  <2>5. q.inflight = b.inflight
    BY <1>2 DEF Decided
  <2> QED BY <1>1, <1>2, <2>2, <2>3, <2>4, <2>5 DEF Reserve, Larger
<1>3. CASE ~Fresh(rec, b)
  BY <1>1, <1>3 DEF Decided, Reserve, Larger
<1> QED BY <1>2, <1>3

\* Every step keeps what is set aside for the nodes that are not gone within the largest
\* limit: only a fresh heartbeat raises it, and then at most to a capped grant.
LEMMA ReservedStep ==
  Acknowledged /\ TypeOK /\ RecordInv /\ NodesCovered /\ ReservedWithinLimit /\ [Next]_vars => ReservedWithinLimit'
<1> SUFFICES ASSUME Acknowledged, TypeOK, RecordInv, NodesCovered, ReservedWithinLimit, [Next]_vars
             PROVE  ReservedWithinLimit'
  OBVIOUS
<1> DEFINE f == [n \in Node |-> Held(n)]
           h == [n \in Node |-> Held(n)']
<1>1. N \in Nat /\ MaxLimit \in Nat /\ Node = 1..N
  BY FleetAssumption DEF Node
<1>2. TypeOK' /\ RecordInv' /\ \A n \in Node : Gone(n) => Gone(n)'
  BY TypeStep, RecordStep, GoneStays
<1>3. \A n \in Node : Held(n) \in Nat /\ Held(n)' \in Nat /\ Reserve(reg[n]) \in Nat /\ Reserve(reg'[n]) \in Nat
  <2>1. \A n \in Node : reg[n] \in RecordType /\ reg'[n] \in RecordType
    BY <1>2 DEF TypeOK
  <2>2. \A n \in Node : Reserve(reg[n]) \in Nat /\ Reserve(reg'[n]) \in Nat
    BY <2>1, ReserveNat
  <2> QED BY <2>2 DEF Held
<1>4. \A i \in 1..N : f[i] \in Nat /\ h[i] \in Nat
  BY <1>1, <1>3
<1>5. Sum(f, N) <= MaxLimit /\ Sum(f, N) \in Nat
  <2>1. Sum(f, N) <= MaxLimit
    BY DEF ReservedWithinLimit
  <2> HIDE DEF f
  <2> QED BY <1>1, <1>4, <2>1, SumNat
<1>6. ASSUME Sum(h, N) <= MaxLimit PROVE ReservedWithinLimit'
  BY <1>6 DEF ReservedWithinLimit
<1>7. ASSUME \A n \in Node : Held(n)' <= Held(n) PROVE ReservedWithinLimit'
  <2>1. \A i \in 1..N : f[i] \in Int /\ h[i] \in Int /\ h[i] <= f[i]
    BY <1>1, <1>4, <1>7
  <2> HIDE DEF f, h
  <2>2. Sum(h, N) <= Sum(f, N) /\ Sum(h, N) \in Int
    BY <1>1, <2>1, SumMonotone, SumInt
  <2> QED BY <1>1, <1>5, <1>6, <2>2
<1>8. ASSUME NEW m \in Node, reg'[m] = reg[m] \/ reg'[m] = NoRecord PROVE Held(m)' <= Held(m)
  <2>1. Reserve(reg'[m]) <= Reserve(reg[m])
    BY <1>3, <1>8, ReserveOfNothing
  <2> QED BY <1>2, <1>3, <2>1 DEF Held
<1>9. ASSUME NEW n \in Node, NEW b \in beats[n], Deliver(n, b) PROVE ReservedWithinLimit'
  <2>1. PICK d \in 0..MaxSkew : HeartbeatEffect(reg, reg', n, b, now + d)
    BY <1>9, Delivered
  <2>2. \A m \in Node : m # n => Held(m)' <= Held(m)
    BY <1>8, <2>1 DEF HeartbeatEffect
  <2>3. Gone(n)' = Gone(n)
    BY <1>9 DEF Deliver, Gone
  <2>4. CASE Held(n)' <= Held(n)
    BY <1>7, <2>2, <2>4
  <2>5. CASE ~(Held(n)' <= Held(n))
    <3>1. ~Gone(n) /\ ~Gone(n)'
      BY <1>3, <2>3, <2>5 DEF Held
    <3>2. Decided(reg[n], reg'[n], guard[n], beats[n], b)
      BY <1>9, <2>1, <3>1 DEF Acknowledged, NodesCovered, Decided, HeartbeatEffect, Deliver
    <3>3. Fresh(reg[n], b) /\ Reserve(reg'[n]) <= reg'[n].share
      <4>1. /\ reg[n] \in RecordType /\ reg'[n] \in RecordType /\ guard[n] \in GuardType /\ beats[n] \in SUBSET BeatType
        BY <1>2 DEF TypeOK
      <4>2. Reserve(reg'[n]) <= Reserve(reg[n]) \/ (Fresh(reg[n], b) /\ Reserve(reg'[n]) <= reg'[n].share)
        BY <3>2, <4>1, ReserveAfter
      <4> QED BY <2>5, <3>1, <4>2 DEF Held
    <3>4. reg'[n].share # 0 /\ reg'[n].share \in Nat
      <4>1. reg'[n].share \in Nat
        BY <1>2 DEF TypeOK, RecordType
      <4>2. Reserve(reg'[n]) > 0
        BY <1>3, <2>5, <3>1 DEF Held
      <4> QED BY <1>3, <3>3, <4>1, <4>2
    <3>5. reg'[n].share + OtherReserved(reg', n) <= MaxLimit
      BY <2>1, <3>3, <3>4 DEF HeartbeatEffect
    <3> DEFINE o == [m \in Node |-> IF m # n /\ reg'[m].live THEN Reserve(reg'[m]) ELSE 0]
               z == [m \in Node |-> IF m = n THEN 0 ELSE h[m]]
    <3>6. \A i \in 1..N : z[i] \in Int /\ o[i] \in Int /\ z[i] <= o[i]
      <4> SUFFICES ASSUME NEW i \in Node PROVE z[i] \in Int /\ o[i] \in Int /\ z[i] <= o[i]
        BY <1>1
      <4>1. ~reg'[i].live => Reserve(reg'[i]) = 0
        BY <1>2, ReserveOfNothing DEF RecordInv
      <4>2. Held(i)' <= Reserve(reg'[i])
        BY <1>3 DEF Held
      <4> QED BY <1>3, <4>1, <4>2
    <3>7. Sum(o, N) = OtherReserved(reg', n)
      BY DEF OtherReserved
    <3>8. z[n] = 0 /\ h[n] = Reserve(reg'[n]) /\ h[n] \in Nat
      BY <1>3, <3>1 DEF Held
    <3>9. \A i \in 1..N : i # n => z[i] = h[i]
      BY <1>1
    <3>11. n \in 1..N /\ N \in Nat
      BY <1>1
    <3> HIDE DEF f, h, o, z
    <3>10. \A i \in 1..N : z[i] \in Int /\ h[i] \in Int
      BY <1>4, <3>6
    <3>12. Sum(z, N) <= Sum(o, N) /\ Sum(z, N) \in Int /\ Sum(o, N) \in Int
      BY <1>1, <3>6, SumMonotone, SumInt
    <3>13. Sum(h, N) = Sum(z, N) - z[n] + h[n]
      BY ONLY <3>9, <3>10, <3>11, SumUpdate
    <3>14. h[n] <= reg'[n].share
      BY <3>3, <3>8
    <3>15. Sum(h, N) <= MaxLimit
      BY <1>1, <3>4, <3>5, <3>7, <3>8, <3>12, <3>13, <3>14
    <3> QED BY <1>6, <3>15
  <2> QED BY <2>4, <2>5
<1>10. ASSUME NEW n \in Node, LeaveTakesEffect(n) PROVE ReservedWithinLimit'
  <2>1. \A m \in Node : reg'[m] = reg[m] \/ reg'[m] = NoRecord
    BY <1>10 DEF LeaveTakesEffect, TypeOK
  <2> QED BY <1>7, <1>8, <2>1
<1>11. CASE UNCHANGED reg
  BY <1>7, <1>8, <1>11
<1> QED
  <2>1. CASE Next
    BY Zenon, <1>9, <1>10, <1>11, <2>1 DEF Next, Acquire, Release, Beat, Close, Crash, LeaveFails, LoseCall, Reply, Outage, Tick
  <2>2. CASE UNCHANGED vars
    BY <1>11, <2>2 DEF vars
  <2> QED BY <2>1, <2>2

\* What is set aside for a covered node is at least its ceiling and its load.
LEMMA CoveredReserve ==
  Handoff /\ TypeOK /\ NodesCovered => \A n \in Node : ~Gone(n) => Larger(Ceiling(guard[n]), guard[n].inflight) <= Reserve(reg[n])
<1> SUFFICES ASSUME Handoff, TypeOK, NodesCovered, NEW n \in Node, ~Gone(n)
             PROVE  Larger(Ceiling(guard[n]), guard[n].inflight) <= Reserve(reg[n])
  OBVIOUS
<1> DEFINE g == guard[n]
           rec == reg[n]
<1>1. /\ g.inflight \in Nat /\ g.share \in Nat /\ g.limit \in Nat
      /\ rec.share \in Nat /\ rec.unackedHigh \in Nat /\ rec.inflight \in Nat
  BY Typed, LimitsNat DEF GuardType, RecordType
<1>2. g.inflight <= Reserve(rec) /\ g.share <= rec.unackedHigh /\ rec.share <= rec.unackedHigh
  BY DEF NodesCovered, Covered, LoadCovered, SharesCovered
<1>3. Ceiling(g) \in Nat /\ Ceiling(g) <= g.share
  <2> HIDE DEF g
  <2> QED BY <1>1 DEF Ceiling, Smaller
<1> HIDE DEF g, rec
<1>4. Reserve(rec) \in Nat /\ Ceiling(g) <= Reserve(rec)
  BY <1>1, <1>2, <1>3 DEF Reserve, Larger
<1> QED BY <1>1, <1>2, <1>3, <1>4 DEF Larger, g, rec

\* Loads that are each covered add up to at most what is set aside.
LEMMA CoveredLoad == TypeOK /\ NodesCovered /\ ReservedWithinLimit => InflightCap
<1> SUFFICES ASSUME TypeOK, NodesCovered, ReservedWithinLimit PROVE InflightCap
  OBVIOUS
<1> DEFINE f == [n \in Node |-> guard[n].inflight]
           h == [n \in Node |-> Held(n)]
<1>1. N \in Nat /\ MaxLimit \in Nat /\ Node = 1..N
  BY FleetAssumption DEF Node
<1>2. \A i \in 1..N : f[i] \in Int /\ h[i] \in Int /\ f[i] <= h[i]
  <2> SUFFICES ASSUME NEW n \in Node PROVE f[n] \in Int /\ h[n] \in Int /\ f[n] <= h[n]
    BY <1>1
  <2>1. guard[n].inflight \in Nat /\ Reserve(reg[n]) \in Nat
    BY Typed, ReserveNat DEF GuardType
  <2>2. CASE Gone(n)
    BY <2>1, <2>2 DEF Gone, Held
  <2>3. CASE ~Gone(n)
    BY <2>1, <2>3 DEF Held, NodesCovered, Covered, LoadCovered
  <2> QED BY <2>2, <2>3
<1>3. Sum(h, N) <= MaxLimit
  BY DEF ReservedWithinLimit
<1> HIDE DEF f, h
<1>4. Sum(f, N) <= Sum(h, N) /\ Sum(f, N) \in Int /\ Sum(h, N) \in Int
  BY <1>1, <1>2, SumMonotone, SumInt
<1>5. Sum(f, N) <= MaxLimit
  BY <1>1, <1>3, <1>4
<1> QED BY <1>5 DEF InflightCap, Inflight, f

\* The inductive invariant.
HandoffInv == TypeOK /\ RecordInv /\ NodesCovered /\ ReservedWithinLimit

\* The inductive invariant holds initially.
LEMMA HandoffInitially == Acknowledged /\ Init => HandoffInv
<1> SUFFICES ASSUME Acknowledged, Init PROVE HandoffInv
  OBVIOUS
<1>1. TypeOK /\ RecordInv /\ NodesCovered
  BY TypeInit, CoveredInit
<1>2. ReservedWithinLimit
  <2> DEFINE f == [n \in Node |-> Held(n)]
  <2>1. N \in Nat /\ MaxLimit \in Nat /\ Node = 1..N
    BY FleetAssumption DEF Node
  <2>2. \A i \in 1..N : f[i] = 0
    BY <2>1, ReserveOfNothing DEF Init, Held
  <2> HIDE DEF f
  <2>3. Sum(f, N) = 0
    BY <2>1, <2>2, SumZero
  <2> QED BY <2>1, <2>3 DEF ReservedWithinLimit, f
<1> QED BY <1>1, <1>2 DEF HandoffInv

\* The inductive invariant is preserved by every step that keeps the records.
LEMMA HandoffStep == Acknowledged /\ HandoffInv /\ [Next]_vars /\ [KeepsRecords]_vars => HandoffInv'
BY TypeStep, RecordStep, CoveredStep, ReservedStep DEF HandoffInv

\* ReserveCovers for every fleet: what the coordinator sets aside for a node that has not
\* stopped and drained covers both the ceiling it admits against and its load, whatever is
\* lost or delayed (applyHeartbeat steps 4-6, runHeartbeat).
THEOREM HandoffCovers ==
  ASSUME Acknowledged
  PROVE  Spec /\ [][KeepsRecords]_vars => []ReserveCovers
<1>1. Init => HandoffInv
  BY HandoffInitially
<1>2. HandoffInv /\ [Next]_vars /\ [KeepsRecords]_vars => HandoffInv'
  BY HandoffStep
<1>3. HandoffInv => ReserveCovers
  BY CoveredReserve DEF Acknowledged, HandoffInv, ReserveCovers, Gone
<1> QED BY <1>1, <1>2, <1>3, PTL DEF Spec

\* InflightCap for every fleet, at every instant and not only at convergence: as long as the
\* lease of a running node is renewed in time, the permits held by all nodes together never
\* exceed the largest limit (docs/design/06-concurrency.md, the acknowledged handoff).
THEOREM HandoffCapsInflight ==
  ASSUME Acknowledged
  PROVE  Spec /\ [][KeepsRecords]_vars => []InflightCap
<1>1. Init => HandoffInv
  BY HandoffInitially
<1>2. HandoffInv /\ [Next]_vars /\ [KeepsRecords]_vars => HandoffInv'
  BY HandoffStep
<1>3. HandoffInv => InflightCap
  BY CoveredLoad DEF HandoffInv
<1> QED BY <1>1, <1>2, <1>3, PTL DEF Spec
=============================================================================
