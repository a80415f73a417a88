----------------------------- MODULE MCCasStore -----------------------------
(* Small instances of CasStore for TLC.  The transform is a counter of units *)
(* that admits a call while the limit allows and persists nothing otherwise. *)
EXTENDS CasStore, SequencesExt

CONSTANTS Limit

\* The first process makes two calls, the second one.
MCCalls == {<<1, 1>>, <<1, 2>>, <<2, 1>>}

MCStates == 1..Limit
MCOutcome(f, s) ==
    LET used == IF s \in MCStates THEN s ELSE 0
        fits == used + f <= Limit
    IN  [persist |-> fits, state |-> IF fits THEN used + f ELSE Limit, ttl |-> 1,
         result |-> IF fits THEN "allowed" ELSE "denied"]

\* "N concurrent increments across the fleet land exactly N": the stored state is
\* what the transforms committed since its start give, one after the other.
NoLostUpdate ==
    item.has => item.state = FoldLeft(LAMBDA s, f : Outcome(f, s).state, NoState, log)
=============================================================================
