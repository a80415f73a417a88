------------------------------ MODULE CasStore ------------------------------
(***************************************************************************)
(* The optimistic stores: DynamoStore (src/src/dynamodb/store.ts), D1Store *)
(* (src/src/cloudflare/d1.ts) and DenoKvStore (src/src/deno/store.ts).     *)
(* apply() reads the entry and its version, runs the transform, and writes *)
(* only if the version is unchanged, else tries again.  The processes of   *)
(* a fleet share the database; the calls of one process for a key run one  *)
(* after the other (#withKeyLock).  One key.                               *)
(***************************************************************************)
EXTENDS Integers, Sequences

CONSTANTS
    Procs,          \* the processes, or isolates, of the fleet
    NoProc,
    Calls,          \* the calls of apply(): pairs of a process and a number
    Transforms,     \* the transforms the calls may run
    States,         \* what a transform may store
    NoState,        \* undefined: no live state
    Results,        \* what a transform may answer
    Outcome(_, _),  \* Outcome(f, s): transform(state), an ApplyOutcome
    MaxRetries,     \* maxRetries
    UniqueStamps,   \* TRUE: versions are never reused (Deno KV versionstamps)
                    \* FALSE: a new row starts again at version 0 (DynamoDB, D1)
    CanReset,       \* reset() may be called
    CanFail,        \* a call of the database may reject, before or after taking effect
    MaxTime         \* bound on the clock

ASSUME CasAssumption ==
    /\ MaxRetries \in Nat /\ MaxTime \in Nat /\ {UniqueStamps, CanReset, CanFail} \subseteq BOOLEAN
    /\ Calls \subseteq Procs \X Nat
    /\ NoState \notin States /\ NoProc \notin Procs
    /\ \A f \in Transforms, s \in States \cup {NoState} :
          Outcome(f, s) \in [persist : BOOLEAN, state : States, ttl : Nat, result : Results]

VARIABLES
    clock,   \* the clock of the processes
    item,    \* the entry in the database, live or expired
    stamp,   \* the last versionstamp the database issued
    call,    \* the calls of apply(), and what each remembers
    chain,   \* #locks: the calls of each process that have not settled, in order
    writer,  \* history: the process that wrote the item last, NoProc once it was deleted
    log      \* history: the transforms committed since the state last started afresh

vars == <<clock, item, stamp, call, chain, writer, log>>

ProcOf(c) == c[1]

----------------------------------------------------------------------------
(* State *)

NoItem == [has |-> FALSE, state |-> NoState, until |-> 0, version |-> 0]
ItemType == [has : BOOLEAN, state : States \cup {NoState}, until : Nat, version : Nat]

\* queued: behind its predecessor, or between two attempts; reading, writing: the
\* get or the conditional put is under way; done: answered.
IdleCall == [st |-> "idle", run |-> NoState, since |-> 0, attempt |-> 0, at |-> 0,
             seen |-> NoItem, res |-> "none"]
CallType == [st : {"idle", "queued", "reading", "writing", "done"},
             run : Transforms \cup {NoState}, since : Nat, attempt : 0..MaxRetries, at : Nat,
             seen : ItemType, res : Results \cup {"none", "error"}]

\* TypeOK: apply() makes at most maxRetries + 1 attempts, and a settling call always
\* finds itself in the chain of its process.
TypeOK ==
    /\ clock \in 0..MaxTime
    /\ item \in ItemType
    /\ stamp \in Nat
    /\ call \in [Calls -> CallType]
    /\ chain \in [Procs -> Seq(Calls)]
    /\ writer \in Procs \cup {NoProc}
    /\ log \in Seq(Transforms)

Init ==
    /\ clock = 0
    /\ item = NoItem
    /\ stamp = 0
    /\ call = [c \in Calls |-> IdleCall]
    /\ chain = [p \in Procs |-> <<>>]
    /\ writer = NoProc
    /\ log = <<>>

----------------------------------------------------------------------------
(* The attempt *)

LiveAt(e, t) == IF e.has /\ e.until > t THEN e.state ELSE NoState
Ttl(out) == IF out.ttl >= 1 THEN out.ttl ELSE 1

\* The condition of the write: "version = :v", or that the key is still absent.
UnchangedIfPresent(seen) == ~item.has \/ item.version = seen.version   \* slip: a deleted item passes
UnchangedSince(seen) ==
    IF seen.has THEN item.has /\ item.version = seen.version ELSE ~item.has

SameVersion(seen) == seen.version   \* slip: the version is not moved on
NextVersion(seen) ==
    IF UniqueStamps THEN stamp + 1 ELSE IF seen.has THEN seen.version + 1 ELSE 0

Written(c, out) ==
    [has |-> TRUE, state |-> out.state, until |-> c.at + Ttl(out), version |-> NextVersion(c.seen)]

----------------------------------------------------------------------------
(* The calls *)

\* #withKeyLock(): a call runs once its predecessors in this process have settled.
RunsAtOnce(c) == TRUE   \* slip: no serialization
MayRun(c) == Head(chain[ProcOf(c)]) = c
\* Whatever the outcome of a call, the next one in the chain runs.
AfterSuccess(q, res) == IF res = "error" THEN q ELSE Tail(q)   \* slip: a rejection stops the chain
Behind(q, res) == Tail(q)

Settle(c, res) ==
    /\ call' = [call EXCEPT ![c] = [IdleCall EXCEPT !.st = "done", !.res = res]]
    /\ chain' = [chain EXCEPT ![ProcOf(c)] = Behind(@, res)]

Apply(c, f) ==
    /\ call[c].st = "idle"
    /\ call' = [call EXCEPT ![c].st = "queued", ![c].run = f, ![c].since = clock]
    /\ chain' = [chain EXCEPT ![ProcOf(c)] = Append(@, c)]
    /\ UNCHANGED <<clock, item, stamp, writer, log>>

\* The head of the loop: read the clock, then send the get.
Attempt(c) ==
    /\ call[c].st = "queued" /\ MayRun(c)
    /\ call' = [call EXCEPT ![c].st = "reading", ![c].at = clock]
    /\ UNCHANGED <<clock, item, stamp, chain, writer, log>>

\* The get takes effect and the transform runs: answer, or send the put.
Get(c) ==
    LET out == Outcome(call[c].run, LiveAt(item, call[c].at)) IN
    /\ call[c].st = "reading"
    /\ \/ ~out.persist /\ Settle(c, out.result)
       \/ /\ out.persist
          /\ call' = [call EXCEPT ![c].st = "writing", ![c].seen = item]
          /\ UNCHANGED chain
    /\ UNCHANGED <<clock, item, stamp, writer, log>>

\* The conditional put takes effect; its answer may be lost.
Put(c) ==
    LET view == LiveAt(call[c].seen, call[c].at)
        out == Outcome(call[c].run, view)
    IN  /\ call[c].st = "writing"
        /\ UnchangedSince(call[c].seen)
        /\ item' = Written(call[c], out)
        /\ stamp' = IF UniqueStamps THEN stamp + 1 ELSE stamp
        /\ writer' = ProcOf(c)
        /\ log' = IF view = NoState THEN <<call[c].run>> ELSE Append(log, call[c].run)
        /\ Settle(c, out.result) \/ (CanFail /\ Settle(c, "error"))
        /\ UNCHANGED clock

\* Another process wrote first: try again, at most maxRetries times.
OneRetryMore(c) == c.attempt <= MaxRetries   \* slip: off by one
RetriesLeft(c) == c.attempt < MaxRetries

PutRefused(c) ==
    /\ call[c].st = "writing"
    /\ ~UnchangedSince(call[c].seen)
    /\ \/ /\ RetriesLeft(call[c])
          /\ call' = [call EXCEPT ![c].st = "queued", ![c].attempt = @ + 1, ![c].seen = NoItem]
          /\ UNCHANGED chain
       \/ ~RetriesLeft(call[c]) /\ Settle(c, "error")
    /\ UNCHANGED <<clock, item, stamp, writer, log>>

\* A call of the database rejects without having taken effect.
CallFails(c) ==
    /\ CanFail /\ call[c].st \in {"reading", "writing"}
    /\ Settle(c, "error")
    /\ UNCHANGED <<clock, item, stamp, writer, log>>

----------------------------------------------------------------------------
(* The environment *)

Deleted ==
    /\ item.has
    /\ item' = NoItem /\ writer' = NoProc /\ log' = <<>>
    /\ UNCHANGED <<clock, stamp, call, chain>>

\* reset(key) deletes whatever is there.
Reset == CanReset /\ Deleted

\* D1Store.sweep(), the TTL of DynamoDB, expireIn of Deno KV.
Reclaim == item.until <= clock /\ Deleted

Tick ==
    /\ clock < MaxTime
    /\ clock' = clock + 1
    /\ UNCHANGED <<item, stamp, call, chain, writer, log>>

Next ==
    \/ \E c \in Calls, f \in Transforms : Apply(c, f)
    \/ \E c \in Calls : Attempt(c) \/ Get(c) \/ Put(c) \/ PutRefused(c) \/ CallFails(c)
    \/ Reset \/ Reclaim \/ Tick

Spec == Init /\ [][Next]_vars

\* The promises of the database client settle, and the event loop runs.
FairSpec == Spec /\ \A c \in Calls : WF_vars(Attempt(c) \/ Get(c) \/ Put(c) \/ PutRefused(c))

----------------------------------------------------------------------------
(* Properties *)

Abstract(c) ==
    CASE c.st = "idle" -> [st |-> "idle"]
      [] c.st = "done" -> [st |-> "done", res |-> c.res]
      [] OTHER -> [st |-> "open", run |-> c.run, since |-> c.since]

Atomic == INSTANCE AtomicStore WITH
    stored <- [has |-> item.has, state |-> item.state, until |-> item.until],
    call <- [c \in Calls |-> Abstract(call[c])]

\* AtomicApply: the optimistic loop implements the Store contract.  Every apply()
\* looks like one atomic read-transform-write at a time during the call, whatever
\* other processes, resets and reclaims come between its read and its write.
AtomicApply == Atomic!Spec

\* ConflictsAreForeign: "the CAS only sees real races".  An attempt is lost only to
\* another process, a reset or a reclaim, never to a call of the same process.
ConflictsAreForeign ==
    [][\A c \in Calls : call'[c].attempt > call[c].attempt => writer # ProcOf(c)]_vars
=============================================================================
