---------------------------- MODULE AdaptiveGuard ----------------------------
(***************************************************************************)
(* src/src/concurrency/adaptive.ts: one process's inferred ceiling on the  *)
(* requests in flight.                                                     *)
(*                                                                         *)
(* `guard` is the AdaptiveGuard object, `lease` the GrantedLease of each   *)
(* holder and `recent` (a history variable) the latencies the baseline     *)
(* should be the minimum of.  The operators Acquired and Settled are the   *)
(* methods acquire() and settle(); the request adapters call them too      *)
(* (module RequestLifecycle), the actions here are a bare caller's.        *)
(*                                                                         *)
(* The estimate is kept as its integer floor.  Gradient2 moves it by a     *)
(* square root scaled by the smoothing factor: the model allows every      *)
(* clamped value on the side the gradient points to.  lastRtt, which only  *)
(* words a retry hint, is left out.                                        *)
(***************************************************************************)
EXTENDS Integers, Sequences, FiniteSets

CONSTANTS Holders,        \* whoever takes a slot: a request
          MinLimit, MaxLimit, InitialLimit,
          Laws,           \* the inference laws tried: "gradient2", "aimd"
          RttWindow,      \* samples the baseline looks back over
          Tolerance,      \* latency over Tolerance * baseline is overload
          BackoffNum, BackoffDen,   \* aimd's multiplicative decrease
          RecalMs,        \* recalibration interval, 0: recalibration off
          ProbeLimit, ProbeSamples,
          MaxSamples,     \* bound on the slots ever granted
          GuardSpan       \* bound on the clock

VARIABLES guard, lease, recent, gnow
guardVars == <<guard, lease, recent, gnow>>

ASSUME GuardAssumption ==
    /\ MinLimit \in Nat \ {0} /\ MinLimit <= InitialLimit /\ InitialLimit <= MaxLimit
    /\ InitialLimit \in Nat /\ MaxLimit \in Nat
    /\ RttWindow \in Nat \ {0} /\ Tolerance \in Nat \ {0}
    /\ BackoffNum \in Nat /\ BackoffDen \in Nat /\ BackoffNum < BackoffDen
    /\ BackoffDen <= 2 * BackoffNum
    /\ RecalMs \in Nat /\ ProbeLimit \in 1..MaxLimit /\ ProbeSamples \in Nat \ {0}
    /\ MaxSamples \in Nat /\ GuardSpan \in Nat

\* No clean sample yet: longer than any latency the clock can produce.
Infinity == GuardSpan + 1
RingSize == RttWindow + 1
NoLease == [state |-> "none", start |-> 0, depth |-> 0, dropped |-> FALSE]

Smallest(S) == CHOOSE x \in S : \A y \in S : x <= y
Largest(S) == CHOOSE x \in S : \A y \in S : y <= x

NewGuard(law) ==
    [law |-> law, est |-> InitialLimit, inflight |-> 0, noload |-> 0, nextSeq |-> 0,
     ring |-> [i \in 0..RttWindow |-> [seq |-> 0, val |-> 0]], head |-> 0, tail |-> 0,
     probing |-> FALSE, probeMin |-> Infinity, probeCount |-> 0, recalEnd |-> 0]

(***************************************************************************)
(* acquire().  While the baseline is being re-measured the ceiling is held *)
(* down so that queues drain.                                              *)
(***************************************************************************)
Ceiling(g) == IF g.probing /\ ProbeLimit < g.est THEN ProbeLimit ELSE g.est
HasRoom(g) == g.inflight < Ceiling(g)
Acquired(g) == [g EXCEPT !.inflight = @ + 1]
LeaseAt(g) == [state |-> "held", start |-> gnow, depth |-> g.inflight, dropped |-> FALSE]

(***************************************************************************)
(* recordRtt(): a monotonic deque in a ring one larger than the window.    *)
(* The front expires when it leaves the window, entries no smaller than    *)
(* the new one are dropped from the back, and the front is the minimum.    *)
(***************************************************************************)
\* Slip: the front outlives its window by one sample.
ExpiredLate(g) == g.tail > g.head /\ g.ring[g.head % RingSize].seq < g.nextSeq - RttWindow

Expired(g) == g.tail > g.head /\ g.ring[g.head % RingSize].seq <= g.nextSeq - RttWindow

Recorded(g, rtt) ==
    LET head == IF Expired(g) THEN g.head + 1 ELSE g.head
        tail == Smallest({t \in head..g.tail :
                            \A i \in t..(g.tail - 1) : g.ring[i % RingSize].val >= rtt})
        ring == [g.ring EXCEPT ![tail % RingSize] = [seq |-> g.nextSeq, val |-> rtt]]
    IN  [g EXCEPT !.head = head, !.tail = tail + 1, !.ring = ring,
                  !.nextSeq = @ + 1, !.noload = ring[head % RingSize].val]

(***************************************************************************)
(* The two laws: the estimates a sample taken at depth `depth` may leave.  *)
(***************************************************************************)
Overloaded(g, rtt, dropped) == dropped \/ rtt > Tolerance * g.noload

Gradient2(g, rtt, dropped, depth) ==
    CASE ~dropped /\ 2 * depth < g.est -> {g.est}
      [] dropped -> MinLimit..MaxLimit
      [] rtt > 0 /\ Overloaded(g, rtt, dropped) -> MinLimit..MaxLimit
      [] OTHER -> g.est..MaxLimit

Aimd(g, rtt, dropped, depth) ==
    CASE Overloaded(g, rtt, dropped) ->
             {Largest({MinLimit, (g.est * BackoffNum) \div BackoffDen})}
      [] ~Overloaded(g, rtt, dropped) /\ 2 * depth >= g.est -> {Smallest({MaxLimit, g.est + 1})}
      [] OTHER -> {g.est}

Estimates(g, rtt, dropped, depth) ==
    IF g.law = "gradient2" THEN Gradient2(g, rtt, dropped, depth)
    ELSE Aimd(g, rtt, dropped, depth)

(***************************************************************************)
(* Recalibration.  finishProbe() re-seeds the deque with the best clean    *)
(* sample, as sample number nextSeq.                                       *)
(***************************************************************************)
ProbeDue(g) == RecalMs > 0 /\ gnow - g.recalEnd >= RecalMs
ProbeStarted(g) == [g EXCEPT !.probing = TRUE, !.probeMin = Infinity, !.probeCount = 0]


ProbeFinished(g) ==
    LET fresh == IF g.probeMin = Infinity THEN g.noload ELSE g.probeMin
    IN  [g EXCEPT !.ring = [g.ring EXCEPT ![0] = [seq |-> g.nextSeq, val |-> fresh]],
                  !.head = 0, !.tail = 1, !.nextSeq = @ + 1, !.noload = fresh,
                  !.probing = FALSE, !.recalEnd = gnow]

ProbeSampled(g, rtt, dropped, depth) ==
    LET counted == [g EXCEPT !.probeMin = Smallest({@, rtt}), !.probeCount = @ + 1]
    IN  IF dropped \/ depth > ProbeLimit THEN g
        ELSE IF counted.probeCount >= ProbeSamples THEN ProbeFinished(counted)
        ELSE counted

(***************************************************************************)
(* settle(): the guards that may follow when the slot `l` comes back.      *)
(***************************************************************************)
Rtt(l) == Largest({0, gnow - l.start})

Settled(g, l, dropped) ==
    LET freed == [g EXCEPT !.inflight = @ - 1]
        sampled == Recorded(freed, Rtt(l))
    IN  IF g.probing THEN {ProbeSampled(freed, Rtt(l), dropped, l.depth)}
        ELSE {IF ProbeDue(g) THEN ProbeStarted([sampled EXCEPT !.est = e])
              ELSE [sampled EXCEPT !.est = e] :
                  e \in Estimates(sampled, Rtt(l), dropped, l.depth)}

\* What the baseline should look back over after the same settlement.
Remembered(l, g, next) ==
    CASE ~g.probing -> LET all == Append(recent, Rtt(l))
                       IN  SubSeq(all, Largest({1, Len(all) - RttWindow + 1}), Len(all))
      [] g.probing /\ ~next.probing -> <<next.noload>>
      [] OTHER -> recent

(***************************************************************************)
(* A lease gives its slot back at most once: the first release() settles   *)
(* it, later ones do nothing.                                              *)
(***************************************************************************)

MaySettle(l) == l.state = "held"

Release(h, dropped) ==
    IF MaySettle(lease[h])
    THEN /\ \E next \in Settled(guard, lease[h], dropped) :
               guard' = next /\ recent' = Remembered(lease[h], guard, next)
         /\ lease' = [lease EXCEPT ![h] =
                         [NoLease EXCEPT !.state = "released", !.dropped = dropped]]
    ELSE UNCHANGED <<guard, lease, recent>>

(***************************************************************************)
(* A bare caller.                                                          *)
(***************************************************************************)
GuardInit ==
    /\ guard \in {NewGuard(law) : law \in Laws}
    /\ lease = [h \in Holders |-> NoLease]
    /\ recent = <<>>
    /\ gnow = 0

Acquire(h) ==
    /\ lease[h].state # "held"
    /\ guard.nextSeq + guard.inflight < MaxSamples
    /\ HasRoom(guard)
    /\ guard' = Acquired(guard)
    /\ lease' = [lease EXCEPT ![h] = LeaseAt(Acquired(guard))]
    /\ UNCHANGED <<recent, gnow>>

BareRelease(h) ==
    /\ lease[h].state # "none"
    /\ \E dropped \in BOOLEAN : Release(h, dropped)
    /\ UNCHANGED gnow

\* The wall clock moves on, or is set back.
GuardClock ==
    /\ \/ gnow < GuardSpan /\ gnow' = gnow + 1
       \/ gnow > 0 /\ gnow' = gnow - 1
    /\ UNCHANGED <<guard, lease, recent>>

GuardNext == GuardClock \/ \E h \in Holders : Acquire(h) \/ BareRelease(h)

-----------------------------------------------------------------------------
(* Properties. *)

\* The guard's fields stay in range whatever order leases are taken and
\* settled in: the ceiling within the configured limits, the deque within
\* its ring, a probe's counter short of the sample that ends it.
GuardTypeOK ==
    /\ guard.est \in MinLimit..MaxLimit
    /\ guard.inflight \in 0..Cardinality(Holders)
    /\ guard.head <= guard.tail /\ guard.tail - guard.head <= RttWindow
    /\ guard.probeCount \in 0..(ProbeSamples - 1) \/ ~guard.probing
    /\ guard.noload \in 0..GuardSpan
    /\ gnow \in 0..GuardSpan

\* inflight counts exactly the leases that were granted and not yet given
\* back, whatever order they are released in and however often release() is
\* called.
InflightIsHeld == guard.inflight = Cardinality({h \in Holders : lease[h].state = "held"})

\* The baseline the laws compare with is the least latency of the last
\* RttWindow samples (or of those since a probe re-seeded it): the deque in
\* its ring never loses the minimum and never keeps one past the window.
BaselineIsWindowMin ==
    recent # <<>> => guard.noload = Smallest({recent[i] : i \in 1..Len(recent)})
=============================================================================
