----------------------------- MODULE ServiceDoor -----------------------------
(***************************************************************************)
(* The service door, server/src/service.ts: named policies behind one      *)
(* dispatch, one meter per key of a token-budget policy, and the lease     *)
(* table that stands for the concurrency slots of remote clients.  The     *)
(* clients are not modelled: a Release or a heartbeat may arrive for any   *)
(* lease ever minted, at any time, again and again or never.               *)
(***************************************************************************)
EXTENDS Integers, Sequences, SequencesExt, FiniteSets

CONSTANTS
    Calls,        \* admits of the clients; the lease of a call is named by it, for a random id is never met again
    GuardSlots,   \* slots of the policy's guard
    LeaseTtl,     \* leaseTtlMs
    DoorSpan,     \* bound: the clock stops here
    MeterKeys,    \* keys of the debits
    MaxMeters,    \* MeterPolicy.maxKeys
    MeterBudget,  \* tokens of one meter
    MeterSizes,   \* tokens of a debit
    MaxDebits     \* bound: debits in a behaviour

\* With maxKeys 0, which the configuration lets through, the cache keeps the meter it just built.
ASSUME DoorAssumption ==
    /\ GuardSlots \in Nat /\ LeaseTtl \in Nat /\ DoorSpan \in Nat
    /\ MaxMeters \in Nat \ {0} /\ MeterBudget \in Nat \ {0}
    /\ MeterSizes \subseteq Nat /\ \E most \in MeterSizes : \A n \in MeterSizes : n <= most

VARIABLES
    dnow,      \* the service's clock
    fail,      \* FailMode
    call,      \* idle, waiting (its admit awaits the axes), held, denied or failed
    slot,      \* none, taken, back, dropped or reclaimed (dropped, by the sweep): what became of the call's slot
    busy,  \* the guard's count
    leases,    \* the lease table: id -> expiresAt
    told,      \* the deadline the client was told last
    answer,    \* of the last stateless operation
    shared,    \* a fleet meter's spend lives in the store, a process meter's in the process
    cache,     \* keys with a meter, oldest first
    spent,     \* tokens of the meters in the cache or of the store
    charged,   \* history: tokens admitted per key
    lives,     \* history: meters built per key
    debits

leaseVars == <<dnow, call, slot, busy, leases, told>>
meterVars == <<shared, cache, spent, charged, lives, debits>>
doorVars == <<leaseVars, meterVars, fail, answer>>

Kinds == {"limiter", "meter", "admitter", "fair"}
DoorOps == {"check", "checkMany", "peek", "forecast", "debit", "admit"}

DoorInit ==
    /\ dnow = 0
    /\ fail \in {"open", "closed"}
    /\ call = [c \in Calls |-> "idle"] /\ slot = [c \in Calls |-> "none"]
    /\ busy = 0
    /\ leases = [c \in {} |-> 0] /\ told = [c \in Calls |-> 0]
    /\ answer = "none"
    /\ shared \in BOOLEAN
    /\ cache = <<>> /\ spent = [k \in MeterKeys |-> 0]
    /\ charged = [k \in MeterKeys |-> 0] /\ lives = [k \in MeterKeys |-> 0]
    /\ debits = 0

DoorTypeOK ==
    /\ dnow \in 0..DoorSpan
    /\ call \in [Calls -> {"idle", "waiting", "held", "denied", "failed"}]
    /\ slot \in [Calls -> {"none", "taken", "back", "dropped", "reclaimed"}]
    /\ busy \in 0..GuardSlots
    /\ DOMAIN leases \subseteq Calls
    /\ Len(cache) <= MaxMeters /\ IsInjective(cache)

----------------------------------------------------------------------------
(* resolveLimiter, resolveAdmitter, resolveMeter *)

\* The kinds of policy that serve an operation.
Serves(op) ==
    CASE op = "check" -> {"limiter", "fair"}
      [] op = "debit" -> {"meter"}
      [] op = "admit" -> {"admitter"}
      [] OTHER -> {"limiter"}
Resolved(op, kind) ==
    IF kind = "unknown" THEN "not_found" ELSE IF kind \in Serves(op) THEN "serve" ELSE "not_supported"

\* storeErrorDecision, fairErrorDecision: the answer when the store threw.
ByFailMode == IF fail = "open" THEN "allowed" ELSE "denied"

\* check and checkMany answer even in an outage; peek and forecast let it through, and ask that the
\* strategy has the method.
Look(op, kind, backing) ==
    /\ op \in DoorOps \ {"debit", "admit"}
    /\ answer' =
        IF Resolved(op, kind) # "serve" THEN Resolved(op, kind)
        ELSE IF op \in {"check", "checkMany"} THEN IF backing = "outage" THEN ByFailMode ELSE backing
        ELSE IF backing = "no_method" THEN "not_supported" ELSE backing
    /\ backing = "no_method" => op \in {"peek", "forecast"}
    /\ UNCHANGED <<leaseVars, meterVars, fail>>

Misdirected(op, kind) ==
    /\ op \in {"debit", "admit"}
    /\ Resolved(op, kind) # "serve"
    /\ answer' = Resolved(op, kind)
    /\ UNCHANGED <<leaseVars, meterVars, fail>>

----------------------------------------------------------------------------
(* admit, release, heartbeat, sweep *)

\* The release of the core admission: idempotent.
Freed(c, how) == IF slot[c] = "taken" THEN [slot EXCEPT ![c] = how] ELSE slot
FreedCount(S) == busy - Cardinality({c \in S : slot[c] = "taken"})

\* admitter.admit up to its first await: the guard answers at once.
AdmitCall(c) ==
    /\ call[c] = "idle"
    /\ \/ /\ busy < GuardSlots
          /\ call' = [call EXCEPT ![c] = "waiting"]
          /\ slot' = [slot EXCEPT ![c] = "taken"]
          /\ busy' = busy + 1
       \/ /\ busy >= GuardSlots
          /\ call' = [call EXCEPT ![c] = "denied"]
          /\ UNCHANGED <<slot, busy>>
    /\ UNCHANGED <<dnow, leases, told>>

\* The axes allowed it: mint the lease, its time counted from now and not from the request.
Mint(c) ==
    /\ call[c] = "waiting"
    /\ dnow + LeaseTtl <= DoorSpan
    /\ call' = [call EXCEPT ![c] = "held"]
    /\ leases' = [x \in DOMAIN leases \cup {c} |-> IF x = c THEN dnow + LeaseTtl ELSE leases[x]]
    /\ told' = [told EXCEPT ![c] = dnow + LeaseTtl]
    /\ UNCHANGED <<dnow, slot, busy>>

\* A later axis denied or threw: the admitter gave the slot back itself, and the denial's own release
\* closure, called for symmetry, does nothing.
Refuse(c, how) ==
    /\ call[c] = "waiting"
    /\ call' = [call EXCEPT ![c] = how]
    /\ slot' = Freed(c, "back")
    /\ busy' = FreedCount({c})
    /\ UNCHANGED <<dnow, leases, told>>

\* Slip: the lease is forgotten and its release closure never called.
RemovedOnly(S, how) == [l |-> [x \in DOMAIN leases \ S |-> leases[x]], s |-> slot, n |-> busy]
\* The leases of S leave the table, their closures called.
Removed(S, how) ==
    [l |-> [x \in DOMAIN leases \ S |-> leases[x]],
     s |-> [c \in Calls |-> IF c \in S THEN Freed(c, how)[c] ELSE slot[c]],
     n |-> FreedCount(S)]

\* An id that is not in the table is no error and changes nothing.
ReleaseLease(c, dropped) ==
    LET r == Removed({c} \cap DOMAIN leases, IF dropped THEN "dropped" ELSE "back")
    IN  /\ call[c] = "held"
        /\ leases' = r.l /\ slot' = r.s /\ busy' = r.n
        /\ UNCHANGED <<dnow, call, told>>

\* Slip: the answer names the new deadline, the table keeps the old one.
RenewedInAnswer(ids) == leases
\* Whatever is still in the table is renewed, past its deadline or not.
Renewed(ids) == [x \in DOMAIN leases |-> IF x \in ids THEN dnow + LeaseTtl ELSE leases[x]]

Heartbeat(ids) ==
    /\ \A c \in ids : call[c] = "held"
    /\ dnow + LeaseTtl <= DoorSpan
    /\ leases' = Renewed(ids)
    /\ told' = [c \in Calls |-> IF c \in ids \cap DOMAIN leases THEN dnow + LeaseTtl ELSE told[c]]
    /\ UNCHANGED <<dnow, call, slot, busy>>

Overdue == {c \in DOMAIN leases : leases[c] <= dnow}

Sweep ==
    LET r == Removed(Overdue, "reclaimed")
    IN  /\ Overdue # {}
        /\ leases' = r.l /\ slot' = r.s /\ busy' = r.n
        /\ UNCHANGED <<dnow, call, told>>

DoorTick ==
    /\ dnow < DoorSpan
    /\ dnow' = dnow + 1
    /\ UNCHANGED <<call, slot, busy, leases, told>>

LeaseStep ==
    \/ \E c \in Calls : AdmitCall(c) \/ Mint(c) \/ Refuse(c, "denied") \/ Refuse(c, "failed")
    \/ \E c \in Calls, dropped \in BOOLEAN : ReleaseLease(c, dropped)
    \/ \E ids \in SUBSET Calls \ {{}} : Heartbeat(ids)
    \/ Sweep
    \/ DoorTick

LeaseNext == LeaseStep /\ UNCHANGED <<meterVars, fail, answer>>

----------------------------------------------------------------------------
(* debit: resolveMeter, and the meter itself as AdmissionBudgets has it *)

MadeRoom == IF Len(cache) >= MaxMeters THEN Tail(cache) ELSE cache

\* Slip: a full cache is one that holds more than maxKeys.
AttachedOver(k) == IF Contains(cache, k) THEN cache ELSE Append(IF Len(cache) > MaxMeters THEN Tail(cache) ELSE cache, k)
Attached(k) == IF Contains(cache, k) THEN cache ELSE Append(MadeRoom, k)

\* Slip: a fleet meter starts its key afresh.
SpentByFresh(k) == IF Contains(cache, k) THEN spent[k] ELSE 0
\* A process meter is new when it is built; a fleet meter attaches to what the store knows.
SpentBy(k) == IF shared \/ Contains(cache, k) THEN spent[k] ELSE 0

DebitKey(k, tokens) ==
    LET s == SpentBy(k)
        open == s < MeterBudget
    IN  /\ debits < MaxDebits
        /\ cache' = Attached(k)
        /\ spent' = [spent EXCEPT ![k] = IF open THEN s + tokens ELSE s]
        /\ charged' = [charged EXCEPT ![k] = IF open THEN @ + tokens ELSE @]
        /\ lives' = [lives EXCEPT ![k] = IF Contains(cache, k) THEN @ ELSE @ + 1]
        /\ debits' = debits + 1
        /\ UNCHANGED <<leaseVars, fail, shared, answer>>

MeterNext ==
    \/ \E k \in MeterKeys, n \in MeterSizes : DebitKey(k, n)
    \/ \E op \in DoorOps, kind \in Kinds \cup {"unknown"}, backing \in {"allowed", "denied", "outage", "no_method"} :
          Look(op, kind, backing)
    \/ \E op \in DoorOps, kind \in Kinds \cup {"unknown"} : Misdirected(op, kind)

\* The clock goes on while a lease is out, and so does the reclaim timer, whatever the clients do.
DoorFairness ==
    /\ WF_doorVars(DOMAIN leases # {} /\ DoorTick /\ UNCHANGED <<meterVars, fail, answer>>)
    /\ WF_doorVars(Sweep /\ UNCHANGED <<meterVars, fail, answer>>)

----------------------------------------------------------------------------

\* Every slot the guard counts belongs to exactly one admit under way or one lease of the table, and a
\* slot whose lease is gone was given back once: whatever order a release, a late or repeated release,
\* a heartbeat and the reclaim sweep come in (server/src/service.ts admit, release, sweep).
LeasesOwnSlots ==
    /\ busy = Cardinality({c \in Calls : call[c] = "waiting"} \cup DOMAIN leases)
    /\ \A c \in Calls : slot[c] = "taken" <=> (call[c] = "waiting" \/ c \in DOMAIN leases)

\* A client keeps its slot until the deadline it was told last, whichever sweeps and heartbeats came since:
\* the sweep takes none before (nextDeadline, "Epoch-ms by which the next beat must arrive").
DeadlineKept ==
    [][\A c \in Calls : slot[c] = "taken" /\ slot'[c] = "reclaimed" => told[c] <= dnow]_leaseVars

\* "Evicting a fleet meter is safe": however the cache of meters evicts, a key of a fleet budget gets its
\* budget once, overrun by less than the largest debit; a process meter gives it once for every time it is built.
MetersSurviveEviction ==
    LET largest == CHOOSE n \in MeterSizes : \A m \in MeterSizes : m <= n
    IN  \A k \in MeterKeys : charged[k] <= (IF shared THEN 1 ELSE lives[k]) * (MeterBudget - 1 + largest)
==============================================================================
