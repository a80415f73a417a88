------------------------------ MODULE CachedDeny ------------------------------
(***************************************************************************)
(* twoTier in its cached-deny mode (src/twotier/index.ts): a denial of L2  *)
(* is kept for its retryAfterMs and answered locally.  L2 is a fixed       *)
(* window applied atomically some time after the check read the clock, at  *)
(* the store's time (Redis) or at the time the check read (Postgres, D1,   *)
(* ...).  Strict mode is the same without the cache.                       *)
(***************************************************************************)
EXTENDS Integers, Sequences

CONSTANTS
    DenyKeys,     \* keys
    DenyCosts,    \* costs
    Checks,       \* calls of check, numbered as they come
    DenyLimit,    \* the strategy's limit
    DenyWindow,   \* its windowMs
    MaxDenials,   \* l1.maxKeys
    DenySpan      \* bound: the clock stops here

ASSUME DenyAssumption ==
    /\ {DenyLimit, DenySpan} \subseteq Nat /\ {DenyWindow, MaxDenials} \subseteq Nat \ {0} /\ DenyCosts \subseteq Nat

VARIABLES
    now,       \* the clock of the process and of the store
    serverTime,\* L2 decides at its own time, not at the caller's
    used,      \* L2: key -> [w, n], the window and the units it has admitted
    kept,      \* denyUntil in insertion order: [key, until, cost]
    chk,       \* the calls: [st, key, cost, at, wait]
    resetting, \* keys whose reset awaits L2
    unmade     \* history: keys whose count of this window a reset or a straggler of an earlier one threw away

denyVars == <<now, serverTime, used, kept, chk, resetting, unmade>>

WindowNo(t) == t \div DenyWindow
Ahead == [st |-> "new", key |-> "none", cost |-> 0, at |-> 0, wait |-> 0]
Ended(st) == [Ahead EXCEPT !.st = st]

DenyInit ==
    /\ now = 0 /\ serverTime \in BOOLEAN
    /\ used = [k \in DenyKeys |-> [w |-> 0, n |-> 0]]
    /\ kept = <<>>
    /\ chk = [c \in Checks |-> Ahead]
    /\ resetting = {} /\ unmade = {}

DenyTypeOK ==
    /\ now \in 0..DenySpan
    /\ \A k \in DenyKeys : used[k].n \in 0..DenyLimit
    /\ Len(kept) <= MaxDenials
    /\ \A i, j \in DOMAIN kept : kept[i].key = kept[j].key => i = j

----------------------------------------------------------------------------

UnitsAt(k, t) == IF used[k].w = WindowNo(t) THEN used[k].n ELSE 0
DecidedAt(q) == IF serverTime THEN now ELSE q.at
\* Map.delete(): the entry of the key leaves, and the others keep their order.
Without(s, k) ==
    LET places == {i \in DOMAIN s : s[i].key = k}
        place == CHOOSE i \in places : TRUE
    IN  IF places = {} THEN s ELSE [i \in 1..(Len(s) - 1) |-> IF i < place THEN s[i] ELSE s[i + 1]]
Blocks(k) == \E i \in DOMAIN kept : kept[i].key = k /\ now < kept[i].until

\* check up to its await: answered from the cache, or a stale entry deleted and L2 asked.
Check(c, k, cost) ==
    /\ chk[c].st = "new" /\ \A x \in Checks : x < c => chk[x].st # "new"
    /\ IF Blocks(k)
       THEN chk' = [chk EXCEPT ![c] = Ended("cached")] /\ UNCHANGED kept
       ELSE /\ chk' = [chk EXCEPT ![c] = [st |-> "asking", key |-> k, cost |-> cost, at |-> now, wait |-> 0]]
            /\ kept' = Without(kept, k)
    /\ UNCHANGED <<now, serverTime, used, resetting, unmade>>

\* l2.apply: admit within the limit of the window of the time it decides at, whichever window the row
\* holds, or deny until that window ends.
Apply(c) ==
    LET q == chk[c]
        t == DecidedAt(q)
        n == UnitsAt(q.key, t) + q.cost
        fits == n <= DenyLimit
    IN  /\ q.st = "asking"
        /\ used' = IF fits THEN [used EXCEPT ![q.key] = [w |-> WindowNo(t), n |-> n]] ELSE used
        /\ chk' = [chk EXCEPT ![c] =
                    IF fits THEN Ended("allowed") ELSE [q EXCEPT !.st = "denied", !.wait = (WindowNo(t) + 1) * DenyWindow - t]]
        /\ unmade' = IF fits /\ WindowNo(t) < used[q.key].w THEN unmade \cup {q.key} ELSE unmade
        /\ UNCHANGED <<now, serverTime, kept, resetting>>

\* The row of a window that ended expires.
RowExpires(k) ==
    /\ used[k].n > 0 /\ used[k].w < WindowNo(now)
    /\ used' = [used EXCEPT ![k].n = 0]
    /\ UNCHANGED <<now, serverTime, kept, chk, resetting, unmade>>

\* Slip: the wait is counted from when the answer came back.
UntilFromAnswer(q) == now + q.wait
\* The wait is counted from the time the check read before it asked.
Until(q) == q.at + q.wait

\* evict(): the oldest goes when the cache is full, even when the key itself is in it.
Evicted == IF Len(kept) >= MaxDenials THEN Tail(kept) ELSE kept
\* Map.set keeps the place of a key that is there.
Set(s, e) ==
    IF \E i \in DOMAIN s : s[i].key = e.key
    THEN [i \in DOMAIN s |-> IF s[i].key = e.key THEN e ELSE s[i]]
    ELSE Append(s, e)

\* The denial came back and is cached, for the time of this cost, whatever was cached or reset meanwhile.
Denied(c) ==
    LET q == chk[c]
    IN  /\ q.st = "denied"
        /\ kept' = Set(Evicted, [key |-> q.key, until |-> Until(q), cost |-> q.cost])
        /\ chk' = [chk EXCEPT ![c] = Ended("refused")]
        /\ UNCHANGED <<now, serverTime, used, resetting, unmade>>

\* L2 or its answer is lost: the check throws and caches nothing.
ApplyFails(c) ==
    /\ chk[c].st \in {"asking", "denied"}
    /\ chk' = [chk EXCEPT ![c] = Ended("failed")]
    /\ UNCHANGED <<now, serverTime, used, kept, resetting, unmade>>

\* reset: the cached denial goes at once, L2's row after an await.
ResetBegins(k) ==
    /\ k \notin resetting
    /\ kept' = Without(kept, k)
    /\ resetting' = resetting \cup {k}
    /\ UNCHANGED <<now, serverTime, used, chk, unmade>>
ResetLands(k) ==
    /\ k \in resetting
    /\ used' = [used EXCEPT ![k].n = 0]
    /\ resetting' = resetting \ {k}
    /\ unmade' = IF used[k].n > 0 THEN unmade \cup {k} ELSE unmade
    /\ UNCHANGED <<now, serverTime, kept, chk>>

DenyTick ==
    /\ now < DenySpan
    /\ now' = now + 1
    /\ unmade' = IF WindowNo(now) = WindowNo(now + 1) THEN unmade ELSE {}
    /\ UNCHANGED <<serverTime, used, kept, chk, resetting>>

DenyNext ==
    \/ \E c \in Checks, k \in DenyKeys, cost \in DenyCosts : Check(c, k, cost)
    \/ \E c \in Checks : Apply(c) \/ Denied(c) \/ ApplyFails(c)
    \/ \E k \in DenyKeys : ResetBegins(k) \/ ResetLands(k) \/ RowExpires(k)
    \/ DenyTick

----------------------------------------------------------------------------

\* A denial answered from the cache is one L2 would repeat: as long as it blocks, L2 still has no room for
\* the cost it was given for, however long that answer took and whatever was evicted, overwritten or
\* answered meanwhile; unless the key's count was thrown away in this window.  And it never blocks past the
\* window.
DenialsHonest ==
    \A i \in DOMAIN kept :
        LET e == kept[i]
        IN  /\ now < e.until => e.key \in unmade \/ UnitsAt(e.key, now) + e.cost > DenyLimit
            /\ e.until <= (WindowNo(now) + 1) * DenyWindow
==============================================================================
