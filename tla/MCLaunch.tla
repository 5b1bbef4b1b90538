------------------------------ MODULE MCLaunch ------------------------------
(* Instances of Launch for TLC: launches are interchangeable. *)
EXTENDS Launch, TLC

Symmetry == Permutations(Launches)
=============================================================================
