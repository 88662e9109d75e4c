---------------------------- MODULE MCRequestGate ----------------------------
(* Small instance: requests and keys are interchangeable.                     *)
EXTENDS RequestGate, TLC

Symmetry == Permutations(Requests) \cup Permutations(Keys)
=============================================================================
