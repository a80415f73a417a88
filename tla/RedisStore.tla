------------------------------ MODULE RedisStore ------------------------------
(***************************************************************************)
(* RedisStore on one key.  Strategies with a script run it by its digest,  *)
(* with EVAL as the fallback, and raise the key's time to live afterwards, *)
(* in one pipeline where the client has one.  Strategies without a script  *)
(* use WATCH/MULTI/EXEC with bounded retries, on a connection of their own *)
(* when the client can duplicate() it.  Each command is one step of the    *)
(* server; the value stands for the number of applies it has absorbed.     *)
(* A ttlFloorMs is configured (without it a script is run by #eval alone), *)
(* and a pipeline answers with the results of its commands.                *)
(***************************************************************************)
EXTENDS Naturals, FiniteSets

CONSTANTS
    RedisCalls,     \* calls of apply()
    RedisModes,     \* options: [lua, pipelined, dedicated]
    OccRetries,     \* maxRetries
    MaxFlushes,     \* how often the server loses its script cache
    MaxForeign      \* how often somebody else deletes the key or lets it expire

ASSUME RedisAssumption == {OccRetries, MaxFlushes, MaxForeign} \subseteq Nat

VARIABLES
    mode,       \* options of this store
    val,        \* the value of the key, 0 when it is absent
    cached,     \* scripts the server has
    watch,      \* each connection's watch: "off", "on" or "dirty"
    op,         \* each call: [pc, read, tries, ran, floored]
    flushes,    \* script cache losses so far
    foreign,    \* deletions so far
    landed      \* history: applies that took effect since the key was last absent

redisVars == <<mode, val, cached, watch, op, flushes, foreign, landed>>

Scripts == {"strategy", "floor"}
\* Connections: the client's own is 0, a duplicate has the name of its call.
Conns == RedisCalls \cup {0}
Conn(c) == IF mode.dedicated THEN c ELSE 0
RedisSteps ==
    {"idle", "pipe", "pipe2", "evalsha", "eval", "floorsha", "flooreval", "watch", "get", "exec", "unwatch",
     "done", "failed"}

RedisTypeOK ==
    /\ mode \in RedisModes /\ val \in Nat /\ cached \subseteq Scripts
    /\ watch \in [Conns -> {"off", "on", "dirty"}]
    /\ op \in [RedisCalls -> [pc : RedisSteps, read : Nat, tries : 0..(OccRetries + 1), ran : Nat,
                              floored : {"no", "yes"}]]
    /\ flushes \in 0..MaxFlushes /\ foreign \in 0..MaxForeign /\ landed \in Nat

RedisInit ==
    /\ mode \in RedisModes /\ val = 0 /\ cached = {} /\ watch = [k \in Conns |-> "off"]
    /\ op = [c \in RedisCalls |-> [pc |-> "idle", read |-> 0, tries |-> 0, ran |-> 0, floored |-> "no"]]
    /\ flushes = 0 /\ foreign = 0 /\ landed = 0

Is(c, pc) == op[c].pc = pc
To(c, pc) == op' = [op EXCEPT ![c].pc = pc]
\* A write makes every watch of the key dirty.
Touched == [k \in Conns |-> IF watch[k] = "off" THEN "off" ELSE "dirty"]

----------------------------------------------------------------------------
(* The script path *)

\* The strategy's script runs on the server: one more apply.
RunStrategy(c, pc) ==
    /\ val' = val + 1 /\ landed' = landed + 1 /\ watch' = Touched
    /\ op' = [op EXCEPT ![c].pc = pc, ![c].ran = @ + 1]
RunFloor(c, pc) ==
    /\ op' = [op EXCEPT ![c].pc = pc, ![c].floored = "yes"]
    /\ UNCHANGED <<val, landed, watch>>

StartLua(c) ==
    /\ Is(c, "idle") /\ mode.lua
    /\ To(c, IF mode.pipelined THEN "pipe" ELSE "evalsha")
    /\ UNCHANGED <<mode, val, cached, watch, flushes, foreign, landed>>

\* #evalFloored, pipelined: both digests are sent; the first may be unknown and the second not.
PipeStrategy(c) ==
    /\ Is(c, "pipe")
    /\ IF "strategy" \in cached THEN RunStrategy(c, "pipe2")
       ELSE To(c, "pipe2") /\ UNCHANGED <<val, landed, watch>>
    /\ UNCHANGED <<mode, cached, flushes, foreign>>
\* What follows the pipeline: everything again one by one when the strategy did not run, the floor
\* alone when only it was unknown.
AfterPipe(ran, floored) == IF ~ran THEN "evalsha" ELSE IF floored THEN "done" ELSE "floorsha"
PipeFloor(c) ==
    /\ Is(c, "pipe2")
    /\ LET known == "floor" \in cached
           next == AfterPipe(op[c].ran = 1, known)
       IN  IF known THEN RunFloor(c, next) ELSE To(c, next) /\ UNCHANGED <<val, landed, watch>>
    /\ UNCHANGED <<mode, cached, flushes, foreign>>

\* #eval: EVALSHA, and EVAL when the digest is unknown, which also caches the script.
EvalSha(c) ==
    /\ Is(c, "evalsha")
    /\ IF "strategy" \in cached THEN RunStrategy(c, "floorsha")
       ELSE To(c, "eval") /\ UNCHANGED <<val, landed, watch>>
    /\ UNCHANGED <<mode, cached, flushes, foreign>>
Eval(c) ==
    /\ Is(c, "eval") /\ RunStrategy(c, "floorsha")
    /\ cached' = cached \cup {"strategy"}
    /\ UNCHANGED <<mode, flushes, foreign>>
FloorSha(c) ==
    /\ Is(c, "floorsha")
    /\ IF "floor" \in cached THEN RunFloor(c, "done")
       ELSE To(c, "flooreval") /\ UNCHANGED <<val, landed, watch>>
    /\ UNCHANGED <<mode, cached, flushes, foreign>>
FloorEval(c) ==
    /\ Is(c, "flooreval") /\ RunFloor(c, "done")
    /\ cached' = cached \cup {"floor"}
    /\ UNCHANGED <<mode, flushes, foreign>>

----------------------------------------------------------------------------
(* #applyOcc *)

StartOcc(c) ==
    /\ Is(c, "idle") /\ ~mode.lua
    \* A shared connection is for callers that take turns.
    /\ mode.dedicated \/ \A d \in RedisCalls : op[d].pc \in {"idle", "done", "failed"}
    /\ To(c, "watch")
    /\ UNCHANGED <<mode, val, cached, watch, flushes, foreign, landed>>
\* An earlier watch of the connection stays as it is.
Watch(c) ==
    /\ Is(c, "watch")
    /\ watch' = [watch EXCEPT ![Conn(c)] = IF @ = "off" THEN "on" ELSE @]
    /\ To(c, "get")
    /\ UNCHANGED <<mode, val, cached, flushes, foreign, landed>>
WatchedGet(c, persist) ==
    /\ Is(c, "get")
    /\ op' = [op EXCEPT ![c].pc = IF persist THEN "exec" ELSE "unwatch", ![c].read = val]
    /\ UNCHANGED <<mode, val, cached, watch, flushes, foreign, landed>>
Unwatch(c) ==
    /\ Is(c, "unwatch") /\ To(c, "done")
    /\ watch' = [watch EXCEPT ![Conn(c)] = "off"]
    /\ UNCHANGED <<mode, val, cached, flushes, foreign, landed>>
\* Slip: the result of EXEC is not looked at, as if SET had been sent without MULTI.
AbortsNever(c) == FALSE
\* EXEC aborts when the connection's watch is dirty, and ends it either way; its answer may be lost.
Aborts(c) == watch[Conn(c)] = "dirty"
GivesUp(c) == op[c].tries = OccRetries
Exec(c) ==
    /\ Is(c, "exec")
    /\ IF Aborts(c)
       THEN /\ op' = [op EXCEPT ![c].pc = IF GivesUp(c) THEN "failed" ELSE "watch", ![c].tries = @ + 1]
            /\ watch' = [watch EXCEPT ![Conn(c)] = "off"]
            /\ UNCHANGED <<val, landed>>
       ELSE /\ \E answer \in {"done", "failed"} : op' = [op EXCEPT ![c].pc = answer, ![c].ran = 1]
            /\ watch' = [Touched EXCEPT ![Conn(c)] = "off"]
            /\ val' = op[c].read + 1 /\ landed' = landed + 1
    /\ UNCHANGED <<mode, cached, flushes, foreign>>

----------------------------------------------------------------------------
(* Failures, reset() and the server *)

Busy == RedisSteps \ {"idle", "done", "failed"}
\* A command is refused or its connection breaks: the call throws, and a duplicate is disconnected,
\* which ends its watch.  A shared connection keeps it.
Throw(c) ==
    /\ op[c].pc \in Busy
    /\ To(c, "failed")
    /\ watch' = IF mode.dedicated THEN [watch EXCEPT ![c] = "off"] ELSE watch
    /\ UNCHANGED <<mode, val, cached, flushes, foreign, landed>>
\* reset(), or the key's time is over.
Vanish ==
    /\ val # 0 /\ foreign < MaxForeign
    /\ foreign' = foreign + 1 /\ val' = 0 /\ landed' = 0 /\ watch' = Touched
    /\ UNCHANGED <<mode, cached, op, flushes>>
\* A restart or a failover without the scripts.
Flush ==
    /\ cached # {} /\ flushes < MaxFlushes
    /\ cached' = {} /\ flushes' = flushes + 1
    /\ UNCHANGED <<mode, val, watch, op, foreign, landed>>

RedisStep(c) ==
    \/ PipeStrategy(c) \/ PipeFloor(c) \/ EvalSha(c) \/ Eval(c) \/ FloorSha(c) \/ FloorEval(c)
    \/ Watch(c) \/ WatchedGet(c, TRUE) \/ WatchedGet(c, FALSE) \/ Unwatch(c) \/ Exec(c)
RedisNext ==
    \/ \E c \in RedisCalls : StartLua(c) \/ StartOcc(c) \/ RedisStep(c) \/ Throw(c)
    \/ Vanish \/ Flush

\* Every command is answered or fails.
RedisFairness == \A c \in RedisCalls : WF_redisVars(RedisStep(c))

----------------------------------------------------------------------------
(* Properties *)

\* No update is lost between WATCH and EXEC, nor to the watch of another call: the value is what the
\* applies since it was created add up to, with one connection per call or calls that take turns.
NoUpdateLost == val = landed

\* "The strategy is consuming, so it must run EXACTLY ONCE": whatever scripts the server forgets, a
\* call that returns has consumed once and raised the time to live after that; no call consumes twice.
ConsumesOnce ==
    \A c \in RedisCalls :
        /\ op[c].ran <= 1
        /\ mode.lua /\ Is(c, "done") => op[c].ran = 1 /\ op[c].floored = "yes"
==============================================================================
