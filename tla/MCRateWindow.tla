---------------------------- MODULE MCRateWindow ----------------------------
(* Instances of RateWindow for TLC. *)
EXTENDS RateWindow, TLC

Symmetry == Permutations(Handlers) \cup Permutations(Members)
=============================================================================
