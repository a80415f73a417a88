------------------------------ MODULE MCStores ------------------------------
(* Small instances of the stores for TLC, one at a time: `subject` names the *)
(* store a behaviour is about, and the others stay as they were created.     *)
EXTENDS MCCasStore, MemoryStore, PostgresStore, RedisStore

VARIABLE subject
storeVars == <<vars, memVars, pgVars, redisVars, subject>>

\* A script runs on any connection; the optimistic loop sends no pipeline.
MCModes ==
    [lua : {TRUE}, pipelined : BOOLEAN, dedicated : {TRUE}]
    \cup [lua : {FALSE}, pipelined : {TRUE}, dedicated : BOOLEAN]

StoresInit ==
    /\ Init /\ MemInit /\ PgInit /\ RedisInit
    /\ subject \in {"cas", "memory", "postgres", "redis"}
    /\ subject = "redis" \/ mode = [lua |-> TRUE, pipelined |-> TRUE, dedicated |-> TRUE]

StoresNext ==
    /\ UNCHANGED subject
    /\ \/ subject = "cas" /\ Next /\ UNCHANGED <<memVars, pgVars, redisVars>>
       \/ subject = "memory" /\ MemNext /\ UNCHANGED <<vars, pgVars, redisVars>>
       \/ subject = "postgres" /\ PgNext /\ UNCHANGED <<vars, memVars, redisVars>>
       \/ subject = "redis" /\ RedisNext /\ UNCHANGED <<vars, memVars, pgVars>>

StoresSpec ==
    /\ StoresInit /\ [][StoresNext]_storeVars
    /\ \A c \in Calls : WF_vars(Attempt(c) \/ Get(c) \/ Put(c) \/ PutRefused(c))
    /\ PgFairness /\ RedisFairness

\* The stores the fleet shares stay what their calls made of them: neither two
\* transactions nor two optimistic loops overwrite what the other one wrote, and
\* a script that the server forgot is run exactly once.
NothingLost == NoLostUpdate /\ OverwritesWhatItRead /\ NoUpdateLost /\ ConsumesOnce

\* The memory store's map, ring and wheel agree, and the fields of all three stay
\* in range under every order of calls, expiries, evictions, resets and close().
StoresWellFormed == MemTypeOK /\ PgTypeOK /\ RedisTypeOK /\ MemoryBounded

\* The calls of apply() that are under way.
Open ==
    \/ \E c \in Calls : call[c].st \in {"queued", "reading", "writing"}
    \/ \E c \in PgCalls : tx[c].pc \notin {"idle", "done", "failed"}
    \/ \E c \in RedisCalls : op[c].pc \in Busy

\* Every apply() settles: behind a call of its process that threw, with fewer
\* connections than transactions, whatever statement fails and although
\* conflicts exhaust the retries.  The calls are finitely many, so once none is
\* started any more, none stays under way.
EveryApplySettles == Open ~> ~Open
=============================================================================
