------------------------- MODULE MCConcurrencyFleet -------------------------
(* Small instances of ConcurrencyFleet for TLC. *)
EXTENDS ConcurrencyFleet
=============================================================================
