----------------------------- MODULE MemoryStore -----------------------------
(***************************************************************************)
(* The in-process store: a map of keys, the CLOCK ring that bounds it, and *)
(* the timing wheel that expires them.  Every operation is one step, as    *)
(* the runtime has a single thread.  The strategy's state is left out: the *)
(* store only moves it.                                                    *)
(***************************************************************************)
EXTENDS Naturals, Sequences, FiniteSetsExt

CONSTANTS
    MemKeys,      \* keys
    NoKey,        \* a ring slot without a key
    MaxKeys,      \* maxKeys: at most this many keys are kept
    TickMs,       \* resolution of the wheel
    WheelSize,    \* its slots
    Ttls,         \* times to live a transform may ask for
    MemSpan       \* how far the clock may advance

ASSUME MemAssumption ==
    /\ NoKey \notin MemKeys /\ MaxKeys \in Nat \ {0} /\ TickMs \in Nat \ {0} /\ WheelSize \in Nat \ {0, 1}
    /\ Ttls \subseteq Nat /\ MemSpan \in Nat

VARIABLES
    mnow,     \* the clock
    mmap,     \* the map: a partial function from keys to [ref, slot, exp]
    ring,     \* the CLOCK ring: sequence of keys and tombstones
    free,     \* its freed slots
    hand,     \* the CLOCK hand
    wheel,    \* the wheel: a partial function from keys to [exp, slot]
    lastTick  \* the tick the wheel was last advanced to

memVars == <<mnow, mmap, ring, free, hand, wheel, lastTick>>

EntryOf == [ref : BOOLEAN, slot : 1..MaxKeys, exp : Nat]
WheelEntryOf == [exp : Nat, slot : 0..(WheelSize - 1)]

MemTypeOK ==
    /\ mnow \in Nat /\ lastTick \in Nat
    /\ DOMAIN mmap \subseteq MemKeys /\ \A k \in DOMAIN mmap : mmap[k] \in EntryOf
    /\ DOMAIN wheel \subseteq MemKeys /\ \A k \in DOMAIN wheel : wheel[k] \in WheelEntryOf
    /\ ring \in Seq(MemKeys \cup {NoKey}) /\ free \subseteq 1..MaxKeys /\ hand \in 0..(MaxKeys - 1)

Nothing == [k \in {} |-> NoKey]
TickOf(t) == t \div TickMs
SlotForTick(tick) == tick % WheelSize
Without(f, S) == [k \in DOMAIN f \ S |-> f[k]]
With(f, k, v) == [x \in DOMAIN f \cup {k} |-> IF x = k THEN v ELSE f[x]]

MemInit ==
    /\ mnow = 0 /\ mmap = Nothing /\ wheel = Nothing /\ ring = <<>> /\ free = {} /\ hand = 0
    /\ lastTick = TickOf(0)

----------------------------------------------------------------------------
(* The wheel *)

\* Slip: the walk stops one slot short of the current tick.
DueBehind ==
    LET steps == Min({TickOf(mnow) - lastTick, WheelSize})
    IN  IF TickOf(mnow) <= lastTick THEN {}
        ELSE {k \in DOMAIN wheel :
                 /\ \E i \in 1..(steps - 1) : SlotForTick(lastTick + i) = wheel[k].slot
                 /\ wheel[k].exp <= mnow}
\* advance: the keys whose slot comes due (a full rotation at most) and whose time is over.
Due ==
    LET steps == Min({TickOf(mnow) - lastTick, WheelSize})
    IN  IF TickOf(mnow) <= lastTick THEN {}
        ELSE {k \in DOMAIN wheel :
                 /\ \E i \in 1..steps : SlotForTick(lastTick + i) = wheel[k].slot
                 /\ wheel[k].exp <= mnow}

Advanced == Max({lastTick, TickOf(mnow)})

\* set: at least one tick ahead of the hand.
Scheduled(exp) == [exp |-> exp, slot |-> SlotForTick(Max({Advanced + 1, TickOf(exp)}))]

----------------------------------------------------------------------------
(* The map and the CLOCK ring *)

\* The store as one value, so that an operation can be composed of its parts.
Store == [map |-> mmap, ring |-> ring, free |-> free, hand |-> hand, wheel |-> wheel]

\* #drop: out of the map, the slot becomes a tombstone and is free again.
Drop(s, K) ==
    LET slots == {s.map[k].slot : k \in K \cap DOMAIN s.map}
    IN  [s EXCEPT !.map = Without(@, K), !.free = @ \cup slots,
                  !.ring = [i \in DOMAIN @ |-> IF i \in slots THEN NoKey ELSE @[i]]]

Unscheduled(s, K) == [s EXCEPT !.wheel = Without(@, K)]
Swept == Unscheduled(Drop(Store, Due), Due)

\* #evictSlot: the hand passes the referenced live keys once, clearing their bit.
Position(s, i) == ((s.hand + i) % MaxKeys) + 1
Stops(s, i) ==
    LET k == s.ring[Position(s, i)]
    IN  i >= MaxKeys \/ k \notin DOMAIN s.map \/ s.map[k].exp <= mnow \/ ~s.map[k].ref
Evict(s) ==
    LET stop == Min({i \in 0..MaxKeys : Stops(s, i)})
        passed == {Position(s, i) : i \in 0..(stop - 1)}
        slot == Position(s, stop)
        rest == Without(s.map, {s.ring[slot]})
    IN  [slot |-> slot,
         store |-> [Unscheduled(s, {s.ring[slot]}) EXCEPT
                       !.hand = (s.hand + stop + 1) % MaxKeys,
                       !.map = [k \in DOMAIN rest |->
                                   IF rest[k].slot \in passed THEN [rest[k] EXCEPT !.ref = FALSE] ELSE rest[k]]]]

Seat(s, k, slot, exp) ==
    [s EXCEPT !.map = With(@, k, [ref |-> FALSE, slot |-> slot, exp |-> exp]), !.ring[slot] = k,
              !.free = @ \ {slot}]
\* Slip: the freed slots are forgotten, the hand looks for a place.
InsertByHand(s, k, exp) ==
    IF Len(s.ring) < MaxKeys THEN {Seat([s EXCEPT !.ring = Append(@, NoKey)], k, Len(s.ring) + 1, exp)}
    ELSE {Seat(Evict(s).store, k, Evict(s).slot, exp)}
\* #insert: a freed slot, else a new one, else an evicted one.  Which freed slot is left open.
Insert(s, k, exp) ==
    IF s.free # {} THEN {Seat(s, k, slot, exp) : slot \in s.free}
    ELSE IF Len(s.ring) < MaxKeys
         THEN {Seat([s EXCEPT !.ring = Append(@, NoKey)], k, Len(s.ring) + 1, exp)}
         ELSE {Seat(Evict(s).store, k, Evict(s).slot, exp)}

----------------------------------------------------------------------------
(* Operations *)

Become(s) ==
    /\ mmap' = s.map /\ ring' = s.ring /\ free' = s.free /\ hand' = s.hand /\ wheel' = s.wheel
    /\ UNCHANGED mnow

\* applySync: advance the wheel, expire lazily, mark the access, run the transform, which persists
\* with a time to live or not at all, and schedule the key.
Access(k) ==
    LET s == Swept
        fresh == IF k \in DOMAIN s.map /\ s.map[k].exp <= mnow THEN Unscheduled(Drop(s, {k}), {k}) ELSE s
    IN  IF k \in DOMAIN fresh.map THEN [fresh EXCEPT !.map[k].ref = TRUE] ELSE fresh
Persisted(s, k, exp) ==
    {[t EXCEPT !.wheel = With(@, k, Scheduled(exp))] :
        t \in IF k \in DOMAIN s.map THEN {[s EXCEPT !.map[k].exp = exp]} ELSE Insert(s, k, exp)}
MemApply(k) ==
    /\ \/ Become(Access(k))
       \/ \E ttl \in Ttls : \E s \in Persisted(Access(k), k, mnow + ttl) : Become(s)
    /\ lastTick' = Advanced

\* The sweep timer.
SweepTimer == Become(Swept) /\ lastTick' = Advanced
MemReset(k) == Become(Unscheduled(Drop(Store, {k}), {k})) /\ UNCHANGED lastTick
\* close() forgets the map and the ring, not the wheel, and the store may be used again.
MemClose ==
    Become([Store EXCEPT !.map = Nothing, !.ring = <<>>, !.free = {}]) /\ UNCHANGED lastTick

MemTick == mnow < MemSpan /\ mnow' = mnow + 1 /\ UNCHANGED <<mmap, ring, free, hand, wheel, lastTick>>

MemNext ==
    \/ \E k \in MemKeys : MemApply(k) \/ MemReset(k)
    \/ SweepTimer \/ MemClose \/ MemTick

----------------------------------------------------------------------------
(* Properties *)

Live(k) == k \in DOMAIN mmap /\ mmap[k].exp > mnow

\* The ring and the map name each other, and the freed slots are the tombstones: so the ring never
\* grows past maxKeys and no slot is lost.
RingMatchesMap ==
    /\ \A k \in DOMAIN mmap : mmap[k].slot \in DOMAIN ring /\ ring[mmap[k].slot] = k
    /\ \A i \in DOMAIN ring : ring[i] # NoKey => ring[i] \in DOMAIN mmap /\ mmap[ring[i]].slot = i
    /\ free = {i \in DOMAIN ring : ring[i] = NoKey}
    /\ Len(ring) <= MaxKeys

\* The wheel knows every key with its expiry, and an expired one is gone one rotation after it at
\* the latest: a key nobody asks for again does not stay for ever.
WheelCoversMap ==
    /\ \A k \in DOMAIN mmap : k \in DOMAIN wheel /\ wheel[k].exp = mmap[k].exp
    /\ \A k \in DOMAIN wheel : lastTick < TickOf(wheel[k].exp) + WheelSize

\* What the memory store keeps is consistent under every order of checks, expiries, evictions,
\* resets and close(): `MemoryStore` promises bounded keys and sweeps that lose none of them.
MemoryBounded == RingMatchesMap /\ WheelCoversMap

\* A live key is only given up for another one when all of maxKeys slots are taken ("a freed slot
\* below maxKeys is never left idle while a still-live key is sacrificed").
LiveKeyGivenUp == \E k \in MemKeys : Live(k) /\ k \notin DOMAIN mmap' /\ DOMAIN mmap' \ DOMAIN mmap # {}
EvictsOnlyWhenFull == [][LiveKeyGivenUp => Cardinality(DOMAIN mmap) = MaxKeys]_memVars
==============================================================================
