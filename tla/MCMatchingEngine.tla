-------------------------- MODULE MCMatchingEngine --------------------------
(* MatchingEngine for TLC.  Slots are interchangeable, so they are symmetric *)
(* wherever no liveness is checked.                                          *)
EXTENDS MatchingEngine, TLC

SlotSymmetry == Permutations(Slots)
=============================================================================
