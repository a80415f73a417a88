------------------------------ MODULE CaptureLog ------------------------------
(***************************************************************************)
(* The capture of decisions, server/src/capture: the in-memory recorder    *)
(* behind the decision tap, the flush loop that drains it on a timer or on *)
(* demand, and the directory of sealed segments with its retention.  A     *)
(* segment is [at, n, dropped]: when its ring was made, the events it      *)
(* holds and the ones its full ring turned away.  Redaction and encryption *)
(* do not change what is counted and are left out.                         *)
(***************************************************************************)
EXTENDS Integers, Sequences, SequencesExt, FiniteSets, Functions

CONSTANTS
    Scopes,       \* redacted tenants
    Traced,       \* policies
    RingSize,     \* retention.ringSize
    MaxScopes,    \* retention.maxScopes
    Ttl,          \* retention.ttlMs
    Flushes,      \* flushes that may be under way together
    MaxEvents,    \* bound: decisions recorded
    LogSpan       \* bound: the clock stops here

\* positiveInt, for the configured sizes.
ASSUME CaptureAssumption ==
    RingSize \in Nat \ {0} /\ MaxScopes \in Nat \ {0} /\ MaxEvents \in Nat /\ IsFiniteSet(Flushes)

VARIABLES
    lnow,      \* the clock
    tallied,   \* decisions the tallies count
    scopes,    \* scopes with rings, oldest first
    rings,     \* <<scope, policy>> -> the ring's segment so far
    flush,     \* per flush: [st, by, batch]
    inFlight,  \* the flush loop's flag
    timer,     \* the interval is set
    files,     \* segments on disk: [name, seg]
    named,     \* bound on the random names: the next one
    gone       \* history: where the other events went

logVars == <<lnow, tallied, scopes, rings, flush, inFlight, timer, files, named, gone>>

Resting == [st |-> "idle", by |-> "none", batch |-> <<>>]
NoRings == [r \in {} |-> 0]
Weight(seg) == seg.n + seg.dropped

LogInit ==
    /\ lnow = 0 /\ tallied = 0
    /\ scopes = <<>> /\ rings = NoRings
    /\ flush = [f \in Flushes |-> Resting]
    /\ inFlight = FALSE /\ timer = FALSE
    /\ files = {} /\ named = 0
    /\ gone = [excluded |-> 0, evicted |-> 0, failed |-> 0, purged |-> 0]

LogTypeOK ==
    /\ tallied \in 0..MaxEvents
    /\ Len(scopes) <= MaxScopes /\ IsInjective(scopes)
    /\ DOMAIN rings \subseteq Range(scopes) \X Traced
    /\ \A r \in DOMAIN rings : rings[r].n \in 1..RingSize
    /\ \A f \in Flushes : flush[f].st \in {"idle", "sweeping", "writing"}

\* What the segments of a table, a batch or a directory count together.
WeightOf(segs) == FoldFunction(+, 0, [x \in DOMAIN segs |-> Weight(segs[x])])
Contents(fs) == [x \in fs |-> x.seg]

----------------------------------------------------------------------------
(* record *)

\* The oldest scope, evicted with all its rings when a new one finds the table full.
Evicted(s) == IF ~Contains(scopes, s) /\ Len(scopes) >= MaxScopes THEN {Head(scopes)} ELSE {}

\* Slip: a full ring makes room by forgetting its oldest event.
FilledSilently(ring) == IF ring.n >= RingSize THEN ring ELSE [ring EXCEPT !.n = @ + 1]
\* Tail-stop: a full ring keeps its first events and counts the others.
Filled(ring) == IF ring.n >= RingSize THEN [ring EXCEPT !.dropped = @ + 1] ELSE [ring EXCEPT !.n = @ + 1]

RecordEvent(s, p) ==
    LET out == Evicted(s)
        kept == {r \in DOMAIN rings : r[1] \notin out}
        ring == IF <<s, p>> \in kept THEN rings[<<s, p>>] ELSE [at |-> lnow, n |-> 0, dropped |-> 0]
    IN  /\ tallied < MaxEvents
        /\ tallied' = tallied + 1
        /\ scopes' = IF Contains(scopes, s) THEN scopes ELSE Append(IF out = {} THEN scopes ELSE Tail(scopes), s)
        /\ rings' = [r \in kept \cup {<<s, p>>} |-> IF r = <<s, p>> THEN Filled(ring) ELSE rings[r]]
        /\ gone' = [gone EXCEPT !.evicted = @ + WeightOf(Restrict(rings, DOMAIN rings \ kept))]
        /\ UNCHANGED <<lnow, flush, inFlight, timer, files, named>>

\* No tenant rule, a key without a tenant, or a fault the recorder swallows: tallied and nothing more.
RecordTallyOnly ==
    /\ tallied < MaxEvents
    /\ tallied' = tallied + 1
    /\ gone' = [gone EXCEPT !.excluded = @ + 1]
    /\ UNCHANGED <<lnow, scopes, rings, flush, inFlight, timer, files, named>>

----------------------------------------------------------------------------
(* flushOnce, start, stop *)

\* segments(): the rings scope by scope.
Segments == [i \in 1..Cardinality(DOMAIN rings) |-> rings[SetToSeq(DOMAIN rings)[i]]]

\* Slip: drain() hands out the segments and leaves the rings as they are.
DrainedInPlace == <<scopes, rings>>
Drained == <<<<>>, NoRings>>

\* drain() is synchronous; a flush with nothing to write is over at once.
Begin(f, by) ==
    /\ flush[f] = Resting
    /\ scopes' = Drained[1] /\ rings' = Drained[2]
    /\ flush' = IF Segments = <<>> THEN flush ELSE [flush EXCEPT ![f] = [st |-> "sweeping", by |-> by, batch |-> Segments]]
    /\ UNCHANGED <<lnow, tallied, timer, files, named, gone>>

\* flushOnce by the caller, on shutdown for one: the flag is not its own.
FlushOnce(f) == Begin(f, "caller") /\ UNCHANGED inFlight

\* Slip: the timer does not look at the flag.
MayFlushAlways == TRUE
MayFlush == ~inFlight

\* The interval fires.
TimerFires(f) ==
    /\ timer /\ MayFlush
    /\ Begin(f, "timer")
    /\ inFlight' = (Segments # <<>>)

PastTtl(seg) == lnow - seg.at > Ttl
Swept == {x \in files : ~PastTtl(x.seg)}

\* store.sweep ended, or failed and is left to the next batch.
SweepDone(f, ok) ==
    /\ flush[f].st = "sweeping"
    /\ files' = IF ok THEN Swept ELSE files
    /\ gone' = IF ok THEN [gone EXCEPT !.purged = @ + WeightOf(Contents(files \ Swept))] ELSE gone
    /\ flush' = [flush EXCEPT ![f].st = "writing"]
    /\ UNCHANGED <<lnow, tallied, scopes, rings, inFlight, timer, named>>

\* The flush after its next segment; finally() clears the flag of the timer's flush.
Advanced(f) == IF Len(flush[f].batch) = 1 THEN Resting ELSE [flush[f] EXCEPT !.batch = Tail(@)]
\* Slip: the flag is cleared by a flush that went well only.
ClearedIfWritten(f, ok) == IF flush[f].by = "timer" /\ Len(flush[f].batch) = 1 /\ ok THEN FALSE ELSE inFlight
Cleared(f, ok) == IF flush[f].by = "timer" /\ Len(flush[f].batch) = 1 THEN FALSE ELSE inFlight

\* store.write of the next segment ended; a failure drops that segment and the flush goes on.
WriteDone(f, ok) ==
    LET seg == Head(flush[f].batch)
    IN  /\ flush[f].st = "writing"
        /\ files' = IF ok THEN files \cup {[name |-> named, seg |-> seg]} ELSE files
        /\ named' = IF ok THEN named + 1 ELSE named
        /\ gone' = IF ok THEN gone ELSE [gone EXCEPT !.failed = @ + Weight(seg)]
        /\ flush' = [flush EXCEPT ![f] = Advanced(f)]
        /\ inFlight' = Cleared(f, ok)
        /\ UNCHANGED <<lnow, tallied, scopes, rings, timer>>

\* start() and stop(): stopping leaves a flush under way alone.
SetTimer(on) ==
    /\ timer' = on
    /\ UNCHANGED <<lnow, tallied, scopes, rings, flush, inFlight, files, named, gone>>

\* The sweep of the command line.
AdminSweep ==
    /\ files' = Swept
    /\ gone' = [gone EXCEPT !.purged = @ + WeightOf(Contents(files \ Swept))]
    /\ UNCHANGED <<lnow, tallied, scopes, rings, flush, inFlight, timer, named>>

LogTick ==
    /\ lnow < LogSpan
    /\ lnow' = lnow + 1
    /\ UNCHANGED <<tallied, scopes, rings, flush, inFlight, timer, files, named, gone>>

\* The disk answers, well or badly.
DiskStep(f) == \E ok \in BOOLEAN : SweepDone(f, ok) \/ WriteDone(f, ok)

LogNext ==
    \/ \E s \in Scopes, p \in Traced : RecordEvent(s, p)
    \/ RecordTallyOnly
    \/ \E f \in Flushes : FlushOnce(f) \/ TimerFires(f) \/ DiskStep(f)
    \/ \E on \in BOOLEAN : SetTimer(on)
    \/ AdminSweep
    \/ LogTick

DiskFairness == \A f \in Flushes : WF_logVars(DiskStep(f))

----------------------------------------------------------------------------

\* No decision is captured twice and none vanishes: every one that was tallied is in a ring or counted by
\* it as dropped, in a segment a flush carries, in a file, or known to have been excluded, evicted with
\* its scope, lost with a failed write or purged by the retention; whatever flushes overlap with records.
EventsAccounted ==
    tallied =
        WeightOf(rings)
        + FoldFunction(+, 0, [f \in Flushes |-> WeightOf(flush[f].batch)])
        + WeightOf(Contents(files))
        + gone.excluded + gone.evicted + gone.failed + gone.purged

\* "Back-pressure: never overlap flushes": the timer has at most one flush under way, the flag says so
\* exactly, and a flush the caller started neither sets nor clears it.
TimerFlushesAlone ==
    LET mine == {f \in Flushes : flush[f].by = "timer"}
    IN  Cardinality(mine) <= 1 /\ (inFlight <=> mine # {})

==============================================================================
