----------------------------- MODULE AtomicStore -----------------------------
(***************************************************************************)
(* What a shared store promises (Store in src/src/core/types.ts): apply    *)
(* runs its transform atomically with respect to the other calls for the   *)
(* same key, as DurableObjectStore does by construction                    *)
(* (src/src/cloudflare/durable-object.ts).  One key.  The store decides at *)
(* a time at which the call is under way: the optimistic stores read their *)
(* clock before every attempt.                                             *)
(***************************************************************************)
EXTENDS Integers

CONSTANTS
    Calls,          \* identities of the calls of apply()
    Transforms,     \* the transforms they may run
    NoState,        \* undefined: no live state
    Outcome(_, _),  \* Outcome(f, s): transform(state), an ApplyOutcome [persist, state, ttl, result]
    MaxTime         \* bound on the clock

VARIABLES
    clock,   \* the clock of the stores
    stored,  \* the entry of the key: [has, state, until]
    call     \* the calls of apply()

vars == <<clock, stored, call>>

Nothing == [has |-> FALSE, state |-> NoState, until |-> 0]

\* Lazy expiry: an entry past its deadline reads as absent.
LiveAt(e, t) == IF e.has /\ e.until > t THEN e.state ELSE NoState
Ttl(out) == IF out.ttl >= 1 THEN out.ttl ELSE 1

Init ==
    /\ clock = 0
    /\ stored = Nothing
    /\ call = [c \in Calls |-> [st |-> "idle"]]

Open(c, f) ==
    /\ call[c].st = "idle"
    /\ call' = [call EXCEPT ![c] = [st |-> "open", run |-> f, since |-> clock]]
    /\ UNCHANGED <<clock, stored>>

Answer(c, res) == call' = [call EXCEPT ![c] = [st |-> "done", res |-> res]]

\* The whole read-transform-write is one step.  The caller may not hear of it.
Commit(c, t) ==
    LET out == Outcome(call[c].run, LiveAt(stored, t)) IN
    /\ out.persist
    /\ stored' = [has |-> TRUE, state |-> out.state, until |-> t + Ttl(out)]
    /\ Answer(c, out.result) \/ Answer(c, "error")
    /\ UNCHANGED clock

\* A transform that does not persist answers from the current state.
Decline(c, t) ==
    LET out == Outcome(call[c].run, LiveAt(stored, t)) IN
    /\ ~out.persist
    /\ Answer(c, out.result)
    /\ UNCHANGED <<clock, stored>>

\* A call that throws without having changed anything.
Fail(c) ==
    /\ Answer(c, "error")
    /\ UNCHANGED <<clock, stored>>

\* reset(key), or the reclaim of an expired entry.
Forget ==
    /\ stored' = Nothing
    /\ UNCHANGED <<clock, call>>

Tick ==
    /\ clock < MaxTime
    /\ clock' = clock + 1
    /\ UNCHANGED <<stored, call>>

Next ==
    \/ \E c \in Calls, f \in Transforms : Open(c, f)
    \/ \E c \in Calls :
          /\ call[c].st = "open"
          /\ Fail(c) \/ \E t \in call[c].since..clock : Commit(c, t) \/ Decline(c, t)
    \/ Forget
    \/ Tick

Spec == Init /\ [][Next]_vars
==============================================================================
