-------------------------------- MODULE Sketch --------------------------------
(***************************************************************************)
(* The Count-Min Sketch of src/sketch/index.ts, the limiter built on it    *)
(* and the mergeable form whose snapshots nodes exchange.  The rows' hash  *)
(* functions are arbitrary: a behaviour starts with any assignment of keys *)
(* to columns, so every collision there can be is met.                     *)
(***************************************************************************)
EXTENDS Integers, FiniteSetsExt, Sums

CONSTANTS
    NKeys, Rows, Cols,  \* number of keys; rows (depth) and columns (width)
    MaxCell,            \* MAX_U32: the counters' ceiling
    SketchLimit,        \* sketchRateLimit.limit
    SketchWindow,       \* windowMs
    Counts,             \* costs and counts
    Peers,              \* nodes with a mergeable sketch
    MaxAdds,            \* bound: operations in a behaviour
    SketchSpan          \* bound: the clock stops here

ASSUME SketchAssumption ==
    /\ {NKeys, MaxCell, SketchLimit, MaxAdds, SketchSpan} \subseteq Nat /\ SketchWindow \in Nat \ {0}
    /\ Rows # {} /\ Counts \subseteq Nat

VARIABLES
    snow,      \* the clock
    hash,      \* row -> key -> column
    careful,   \* conservative update
    table,     \* the limiter's counters
    start,     \* its windowStart
    admitted,  \* history: true units admitted per key since the table was last cleared
    sketch,    \* the peers' counters
    stream,    \* history: per peer the true counts of all it added and merged
    post,      \* snapshots on their way: [cells, counts]
    steps

sketchVars == <<snow, hash, careful, table, start, admitted, sketch, stream, post, steps>>

Keys == 1..NKeys
Cells == Rows \X Cols
Empty == [c \in Cells |-> 0]
Nothing == [k \in Keys |-> 0]
Never == -SketchWindow - 1          \* -Infinity
SmallerOf(a, b) == IF a < b THEN a ELSE b

SketchInit ==
    /\ snow = 0
    /\ hash \in [Rows -> [Keys -> Cols]]
    /\ careful \in BOOLEAN
    /\ table = Empty /\ start = Never /\ admitted = Nothing
    /\ sketch = [p \in Peers |-> Empty] /\ stream = [p \in Peers |-> Nothing]
    /\ post = {} /\ steps = 0

SketchTypeOK ==
    /\ table \in [Cells -> 0..MaxCell]
    /\ \A p \in Peers : sketch[p] \in [Cells -> 0..MaxCell]
    /\ steps \in 0..MaxAdds

----------------------------------------------------------------------------
(* CountMinSketch *)

CellsOf(k) == {<<r, hash[r][k]>> : r \in Rows}

\* The minimum over the rows.
Estimate(t, k) == Min({t[c] : c \in CellsOf(k)})

\* Slip: the counters wrap around.
SaturatedMod(n) == n % (MaxCell + 1)
Saturated(n) == SmallerOf(n, MaxCell)

AddPlain(t, k, n) == [c \in Cells |-> IF c \in CellsOf(k) THEN Saturated(t[c] + n) ELSE t[c]]

\* Slip: only the smallest counter of the key is raised.
AddLowestOnly(t, k, n) ==
    LET low == CHOOSE c \in CellsOf(k) : t[c] = Estimate(t, k)
    IN  [t EXCEPT ![low] = Saturated(@ + n)]
\* Conservative update: no counter is raised past the estimate and the count.
AddCareful(t, k, n) ==
    LET target == Saturated(Estimate(t, k) + n)
    IN  [c \in Cells |-> IF c \in CellsOf(k) /\ t[c] < target THEN target ELSE t[c]]

Added(t, k, n) == IF careful THEN AddCareful(t, k, n) ELSE AddPlain(t, k, n)

\* Slip: a merge keeps the larger counter.
MergedMax(t, u) == [c \in Cells |-> IF t[c] < u[c] THEN u[c] ELSE t[c]]
\* mergeSnapshot; a table of another size is refused.
Merged(t, u) == [c \in Cells |-> Saturated(t[c] + u[c])]

----------------------------------------------------------------------------
(* sketchRateLimit *)

Rolls == snow >= start + SketchWindow
Opened == IF Rolls THEN (snow \div SketchWindow) * SketchWindow ELSE start

\* Slip: the estimate alone decides.
FitsBefore(t, k, cost) == Estimate(t, k) < SketchLimit
Fits(t, k, cost) == Estimate(t, k) + cost <= SketchLimit

\* checkSync: roll, check, and only then add.
CheckSketch(k, cost) ==
    LET t == IF Rolls THEN Empty ELSE table
        a == IF Rolls THEN Nothing ELSE admitted
        ok == Fits(t, k, cost)
    IN  /\ steps < MaxAdds /\ steps' = steps + 1
        /\ start' = Opened
        /\ table' = IF ok THEN Added(t, k, cost) ELSE t
        /\ admitted' = IF ok THEN [a EXCEPT ![k] = @ + cost] ELSE a
        /\ UNCHANGED <<snow, hash, careful, sketch, stream, post>>

ResetSketch ==
    /\ table # Empty
    /\ table' = Empty /\ start' = Never /\ admitted' = Nothing
    /\ UNCHANGED <<snow, hash, careful, sketch, stream, post, steps>>

SketchTick ==
    /\ snow < SketchSpan
    /\ snow' = snow + 1
    /\ UNCHANGED <<hash, careful, table, start, admitted, sketch, stream, post, steps>>

----------------------------------------------------------------------------
(* mergeableSketch: plain updates, snapshots that arrive late, twice or never *)

AddAt(p, k, n) ==
    /\ steps < MaxAdds /\ steps' = steps + 1
    /\ sketch' = [sketch EXCEPT ![p] = AddPlain(@, k, n)]
    /\ stream' = [stream EXCEPT ![p][k] = @ + n]
    /\ UNCHANGED <<snow, hash, careful, table, start, admitted, post>>

\* snapshot() is a copy: what the peer adds later does not change it.  toBytes and
\* sketchSnapshotFromBytes carry it unchanged.
Ship(p) ==
    /\ steps < MaxAdds /\ steps' = steps + 1
    /\ post' = post \cup {[cells |-> sketch[p], counts |-> stream[p]]}
    /\ UNCHANGED <<snow, hash, careful, table, start, admitted, sketch, stream>>

MergeAt(p, s) ==
    /\ steps < MaxAdds /\ steps' = steps + 1
    /\ sketch' = [sketch EXCEPT ![p] = Merged(@, s.cells)]
    /\ stream' = [stream EXCEPT ![p] = [k \in Keys |-> @[k] + s.counts[k]]]
    /\ UNCHANGED <<snow, hash, careful, table, start, admitted, post>>

ClearAt(p) ==
    /\ sketch[p] # Empty
    /\ sketch' = [sketch EXCEPT ![p] = Empty] /\ stream' = [stream EXCEPT ![p] = Nothing]
    /\ UNCHANGED <<snow, hash, careful, table, start, admitted, post, steps>>

LimiterNext == (\E k \in Keys, n \in Counts : CheckSketch(k, n)) \/ ResetSketch \/ SketchTick
MergeNext ==
    \/ \E p \in Peers : (\E k \in Keys, n \in Counts : AddAt(p, k, n)) \/ Ship(p) \/ ClearAt(p)
    \/ \E p \in Peers, s \in post : MergeAt(p, s)

----------------------------------------------------------------------------

\* What of a stream falls on a counter.
Hits(counts, c) == [k \in Keys |-> IF hash[c[1]][k] = c[2] THEN counts[k] ELSE 0]

\* "The limiter never over-admits", a hard property whatever keys collide and however the window rolls:
\* the estimate is never below what a key was truly admitted, so no window admits it more than the limit;
\* and a merged sketch is counter for counter the sketch of the union of the streams, up to the ceiling,
\* whichever snapshots arrive late or twice.
SketchNeverUnder ==
    /\ \A k \in Keys : Estimate(table, k) >= admitted[k] /\ admitted[k] <= SketchLimit
    /\ \A p \in Peers, c \in Cells :
          sketch[p][c] = SmallerOf(MaxCell, Sum(Hits(stream[p], c), NKeys))
==============================================================================
