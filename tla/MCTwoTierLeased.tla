--------------------------- MODULE MCTwoTierLeased ---------------------------
(* Small instances of TwoTierLeased for TLC.                                *)
EXTENDS TwoTierLeased, TLC

ReqSymmetry == Permutations(Reqs)
SlotSymmetry == Permutations(Slots)
ReqSlotSymmetry == ReqSymmetry \cup SlotSymmetry

\* The callbacks let nothing hang: every suspended check is answered, and a refill,
\* failed or not, never leaves the key unable to refill again.
CallbacksSettle == EveryCheckAnswered /\ RefillFlagClears
==============================================================================
