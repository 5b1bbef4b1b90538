---------------------------- MODULE MCStatistics ----------------------------
(* Instances of Statistics for TLC: threads are interchangeable. *)
EXTENDS Statistics, TLC

Symmetry == Permutations(Workers)
=============================================================================
