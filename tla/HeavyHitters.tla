---------------------------- MODULE HeavyHitters ----------------------------
(***************************************************************************)
(* src/src/analytics/index.ts and src/src/admission/analytics.ts: the      *)
(* in-process tallies of a limiter's and of an admitter's traffic.         *)
(*                                                                         *)
(* `tally` is the closure's state: the cached window, the allowed and      *)
(* denied counters (denials also by lane) and the Space-Saving summaries   *)
(* of the keys asked for and refused.  A summary is the sequence of its    *)
(* slots in the order the Map iterates them: a reused slot moves to the    *)
(* end.  `seen` (a history variable) counts every key of the window the    *)
(* tallies claim to describe.                                              *)
(***************************************************************************)
EXTENDS Integers, Sequences, FiniteSets, Sums

CONSTANTS TallyKeys, Lanes,   \* lanes: the axes a denial is attributed to
          Wrappers,           \* "limiter" and "admitter"
          TopK, TallyWindow,  \* slots per summary; window width
          MaxTally,           \* bound on the checks recorded in one window
          TallySpan           \* bound on the clock

VARIABLES tally, seen, tnow
tallyVars == <<tally, seen, tnow>>

ASSUME TallyAssumption ==
    TopK \in Nat \ {0} /\ TallyWindow \in Nat \ {0} /\ MaxTally \in Nat /\ TallySpan \in Nat

(***************************************************************************)
(* StreamSummary.observe                                                   *)
(***************************************************************************)
KeysOf(s) == {s[i].key : i \in 1..Len(s)}

\* #minSlot: the first slot, in iteration order, of the least count.
MinSlot(s) == CHOOSE i \in 1..Len(s) :
                 /\ \A j \in 1..Len(s) : s[i].count <= s[j].count
                 /\ \A j \in 1..(i - 1) : s[i].count < s[j].count

Without(s, i) == SubSeq(s, 1, i - 1) \o SubSeq(s, i + 1, Len(s))

\* Slip: the new key starts at one and forgets what it may have missed.
TakenOverAfresh(s, k) == Append(Without(s, MinSlot(s)), [key |-> k, count |-> 1, error |-> 0])

TakenOver(s, k) ==
    LET least == s[MinSlot(s)].count
    IN  Append(Without(s, MinSlot(s)), [key |-> k, count |-> least + 1, error |-> least])

Observed(s, k) ==
    CASE k \in KeysOf(s) ->
             [i \in 1..Len(s) |-> IF s[i].key = k THEN [s[i] EXCEPT !.count = @ + 1] ELSE s[i]]
      [] k \notin KeysOf(s) /\ Len(s) < TopK ->
             Append(s, [key |-> k, count |-> 1, error |-> 0])
      [] OTHER -> TakenOver(s, k)

(***************************************************************************)
(* The window.  roll() keeps a window [start, stop) and recomputes the     *)
(* boundary only when the clock leaves it; the admitter's recomputes it    *)
(* every time.                                                             *)
(***************************************************************************)
Cleared(t) == [t EXCEPT !.allowed = 0, !.denied = 0, !.lane = [l \in Lanes |-> 0],
                        !.asked = <<>>, !.refused = <<>>,
                        !.refusedBy = [l \in Lanes |-> <<>>]]

WindowAt(time) == (time \div TallyWindow) * TallyWindow

Cached(t, time) == t.wrapper = "limiter" /\ t.start <= time /\ time < t.stop

Rolls(t, time) == ~Cached(t, time) /\ WindowAt(time) # t.start

TallyRolled(t, time) ==
    IF Rolls(t, time)
    THEN [Cleared(t) EXCEPT !.start = WindowAt(time), !.stop = WindowAt(time) + TallyWindow]
    ELSE t

NoneSeen == [asked |-> [k \in TallyKeys |-> 0], refused |-> [k \in TallyKeys |-> 0]]
SeenRolled(time) == IF Rolls(tally, time) THEN NoneSeen ELSE seen

(***************************************************************************)
(* record() and observe(): one completed check of key k.                   *)
(***************************************************************************)
CountedAllowed(t, k) == [t EXCEPT !.allowed = @ + 1, !.asked = Observed(@, k)]

CountedDenied(t, k, l) ==
    [t EXCEPT !.denied = @ + 1, !.lane[l] = @ + 1, !.asked = Observed(@, k),
              !.refused = Observed(@, k), !.refusedBy[l] = Observed(@, k)]

TallyCheck(k) ==
    LET t == TallyRolled(tally, tnow)
        s == SeenRolled(tnow)
    IN  /\ t.allowed + t.denied < MaxTally
        /\ \/ /\ tally' = CountedAllowed(t, k)
              /\ seen' = [s EXCEPT !.asked[k] = @ + 1]
           \/ /\ \E l \in Lanes : tally' = CountedDenied(t, k, l)
              /\ seen' = [s EXCEPT !.asked[k] = @ + 1, !.refused[k] = @ + 1]
        /\ UNCHANGED tnow

\* analytics(): reading rolls the window too.
TallySnapshot ==
    /\ tally' = TallyRolled(tally, tnow)
    /\ seen' = SeenRolled(tnow)
    /\ UNCHANGED tnow

\* Slip: the cached end survives the reset.
ResetKeepingEnd(t) == [Cleared(t) EXCEPT !.start = -1]

ResetOf(t) == [Cleared(t) EXCEPT !.start = -1, !.stop = -1]

ResetAnalytics ==
    /\ tally.start # -1
    /\ tally' = ResetOf(tally)
    /\ seen' = NoneSeen
    /\ UNCHANGED tnow

TallyClock ==
    /\ \/ tnow < TallySpan /\ tnow' = tnow + 1
       \/ tnow > 0 /\ tnow' = tnow - 1
    /\ UNCHANGED <<tally, seen>>

TallyInit ==
    /\ tally \in {[wrapper |-> w, start |-> -1, stop |-> -1, allowed |-> 0, denied |-> 0,
                   lane |-> [l \in Lanes |-> 0], asked |-> <<>>, refused |-> <<>>,
                   refusedBy |-> [l \in Lanes |-> <<>>]] : w \in Wrappers}
    /\ seen = NoneSeen
    /\ tnow = 0

TallyNext == TallySnapshot \/ ResetAnalytics \/ TallyClock \/ \E k \in TallyKeys : TallyCheck(k)

-----------------------------------------------------------------------------
(* Properties. *)

SumCounts(s) == Sum([i \in 1..Len(s) |-> s[i].count], Len(s))

\* A summary of a stream in which key k came true[k] times: no more than
\* TopK slots with distinct keys, whose counts add up to the stream's
\* length; a slot's key came at most `count` and at least `count - error`
\* times; and a key without a slot came no more often than the least count.
Brackets(s, true) ==
    /\ Len(s) <= TopK /\ Cardinality(KeysOf(s)) = Len(s)
    /\ \A i \in 1..Len(s) :
          s[i].count - s[i].error <= true[s[i].key] /\ true[s[i].key] <= s[i].count
    /\ \A k \in TallyKeys \ KeysOf(s) :
          true[k] <= (IF Len(s) < TopK THEN 0 ELSE s[MinSlot(s)].count)

\* Space-Saving never under-counts: after any stream of checks, rolls,
\* snapshots, resets and clock steps both summaries bracket the true counts
\* of the current window, the counters agree with them, the lanes
\* partition the denials, and a window once established starts where the
\* epoch alignment puts it.
TalliesHold ==
    /\ Brackets(tally.asked, seen.asked)
    /\ Brackets(tally.refused, seen.refused)
    /\ SumCounts(tally.asked) = tally.allowed + tally.denied
    /\ SumCounts(tally.refused) = tally.denied
    /\ \A l \in Lanes : SumCounts(tally.refusedBy[l]) = tally.lane[l]
    /\ tally.allowed + tally.denied > 0 => tally.start >= 0
=============================================================================
