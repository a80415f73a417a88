---------------------------- MODULE PostgresStore ----------------------------
(***************************************************************************)
(* PostgresStore on one key: apply() as a transaction under an advisory    *)
(* lock, on a connection of a bounded pool, with every statement a step of *)
(* its own that may fail; reset() and the sweep as single statements that  *)
(* take no lock; the memoised creation of the table.                       *)
(* The row holds the number of the applies it stands for.                  *)
(***************************************************************************)
EXTENDS Integers, FiniteSets

CONSTANTS
    PgCalls,     \* calls of apply()
    PoolSize,    \* connections of the pool
    PgTtl,       \* time to live a transform asks for
    PgSpan       \* how far the clock may advance

ASSUME PgAssumption == PoolSize \in Nat \ {0} /\ PgTtl \in Nat \ {0} /\ PgSpan \in Nat

VARIABLES
    pgNow,    \* the clock
    row,      \* the committed row: [n, exp], n = 0 when there is none
    schema,   \* #ready: "none", "creating" or "made"
    held,     \* the call that holds the advisory lock, or 0
    tx,       \* each call: [pc, now, read, wrote]
    deleted   \* history: calls whose row was deleted since they read it

pgVars == <<pgNow, row, schema, held, tx, deleted>>

NoRow == [n |-> 0, exp |-> 0]
Steps == {"idle", "schema", "connect", "begin", "lock", "select", "transform", "commit", "rollback", "done", "failed"}
Connected == {"begin", "lock", "select", "transform", "commit", "rollback"}

PgTypeOK ==
    /\ pgNow \in 0..PgSpan /\ row \in [n : Nat, exp : Nat] /\ schema \in {"none", "creating", "made"}
    /\ held \in PgCalls \cup {0} /\ deleted \subseteq PgCalls
    /\ tx \in [PgCalls -> [pc : Steps, now : Nat, read : Nat, wrote : [n : Nat, exp : Nat]]]

PgInit ==
    /\ pgNow = 0 /\ row = NoRow /\ schema = "none" /\ held = 0 /\ deleted = {}
    /\ tx = [c \in PgCalls |-> [pc |-> "idle", now |-> 0, read |-> 0, wrote |-> NoRow]]

At(c, pc) == tx[c].pc = pc
Go(c, pc) == tx' = [tx EXCEPT ![c].pc = pc]
InUse == Cardinality({c \in PgCalls : tx[c].pc \in Connected})

----------------------------------------------------------------------------
(* apply() *)

\* #ensureSchema: the first call starts the creation, the others await the same promise.
EnsureSchema(c) ==
    /\ At(c, "idle") /\ Go(c, "schema")
    /\ schema' = IF schema = "none" THEN "creating" ELSE schema
    /\ UNCHANGED <<pgNow, row, held, deleted>>
\* A failed creation rejects every call that awaits it, and the next one tries again.
Created(ok) ==
    /\ schema = "creating"
    /\ schema' = IF ok THEN "made" ELSE "none"
    /\ tx' = [c \in PgCalls |-> IF tx[c].pc = "schema" /\ ~ok THEN [tx[c] EXCEPT !.pc = "failed"] ELSE tx[c]]
    /\ UNCHANGED <<pgNow, row, held, deleted>>
\* The time is read before a connection is free.
ReadClock(c) ==
    /\ At(c, "schema") /\ schema = "made"
    /\ tx' = [tx EXCEPT ![c].pc = "connect", ![c].now = pgNow]
    /\ UNCHANGED <<pgNow, row, schema, held, deleted>>
Connect(c) ==
    /\ At(c, "connect") /\ InUse < PoolSize
    /\ Go(c, "begin")
    /\ UNCHANGED <<pgNow, row, schema, held, deleted>>
Begin(c) == At(c, "begin") /\ Go(c, "lock") /\ UNCHANGED <<pgNow, row, schema, held, deleted>>
MayLock(c) == held = 0
Lock(c) ==
    /\ At(c, "lock") /\ MayLock(c)
    /\ held' = c /\ Go(c, "select")
    /\ UNCHANGED <<pgNow, row, schema, deleted>>
Visible(c) == IF row.exp > tx[c].now THEN row.n ELSE 0
Select(c) ==
    /\ At(c, "select")
    /\ tx' = [tx EXCEPT ![c].pc = "transform", ![c].read = Visible(c)]
    /\ UNCHANGED <<pgNow, row, schema, held, deleted>>
\* The transform persists, and the upsert is visible to others when it is committed; or it does not.
Upsert(c, persist) ==
    /\ At(c, "transform")
    /\ tx' = [tx EXCEPT ![c].pc = "commit",
                        ![c].wrote = IF persist THEN [n |-> tx[c].read + 1, exp |-> tx[c].now + PgTtl] ELSE NoRow]
    /\ UNCHANGED <<pgNow, row, schema, held, deleted>>
\* COMMIT publishes the row and releases the lock; the connection goes back to the pool.
Released(c) == IF held = c THEN 0 ELSE held
Ended(c, pc) ==
    /\ tx' = [tx EXCEPT ![c].pc = pc, ![c].wrote = NoRow]
    /\ held' = Released(c)
    /\ deleted' = deleted \ {c}
    /\ UNCHANGED <<pgNow, schema>>
Commit(c) ==
    /\ At(c, "commit")
    /\ row' = IF tx[c].wrote = NoRow THEN row ELSE tx[c].wrote
    /\ Ended(c, "done")
\* A statement fails: ROLLBACK, or the connection is destroyed; both end the transaction.
Fail(c) ==
    /\ tx[c].pc \in Connected \ {"rollback"}
    /\ Go(c, "rollback")
    /\ UNCHANGED <<pgNow, row, schema, held, deleted>>
\* COMMIT took effect although its answer was lost.
FailAfterCommit(c) ==
    /\ At(c, "commit")
    /\ row' = IF tx[c].wrote = NoRow THEN row ELSE tx[c].wrote
    /\ Ended(c, "failed")
Rollback(c) == At(c, "rollback") /\ Ended(c, "failed") /\ UNCHANGED row

----------------------------------------------------------------------------
(* reset(), the sweep and the clock *)

\* Both create the table first, like apply().
DeleteEnsures == schema = "none" /\ schema' = "creating" /\ UNCHANGED <<pgNow, row, held, tx, deleted>>
\* DELETE waits for a row that an open transaction has written.
Writable == \A c \in PgCalls : tx[c].wrote = NoRow
Deletes ==
    /\ row' = NoRow
    /\ deleted' = {c \in PgCalls : tx[c].pc \in {"transform", "commit"}}
    /\ UNCHANGED <<pgNow, schema, held, tx>>
PgReset ==
    /\ schema = "made" /\ row # NoRow /\ Writable
    /\ Deletes
PgSweep ==
    /\ schema = "made" /\ row # NoRow /\ row.exp <= pgNow /\ Writable
    /\ Deletes
PgTick == pgNow < PgSpan /\ pgNow' = pgNow + 1 /\ UNCHANGED <<row, schema, held, tx, deleted>>

PgStep(c) ==
    \/ ReadClock(c) \/ Connect(c) \/ Begin(c) \/ Lock(c) \/ Select(c)
    \/ Upsert(c, TRUE) \/ Upsert(c, FALSE) \/ Commit(c) \/ Rollback(c)
PgNext ==
    \/ \E c \in PgCalls : EnsureSchema(c) \/ PgStep(c) \/ Fail(c) \/ FailAfterCommit(c)
    \/ \E ok \in BOOLEAN : Created(ok)
    \/ DeleteEnsures \/ PgReset \/ PgSweep \/ PgTick

\* Statements are answered; a transaction that holds the lock or a connection moves on.
PgFairness == (\A c \in PgCalls : WF_pgVars(PgStep(c))) /\ WF_pgVars(\E ok \in BOOLEAN : Created(ok))

----------------------------------------------------------------------------
(* Properties *)

\* The advisory lock makes apply() atomic ("N concurrent increments land exactly N"): what it
\* overwrites is what it read, unless reset() or the sweep, which take no lock, removed the row since.
OverwritesWhatItRead ==
    \A c \in PgCalls : tx[c].pc \in {"transform", "commit"} => Visible(c) = tx[c].read \/ c \in deleted
==============================================================================
