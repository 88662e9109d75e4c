------------------------ MODULE MCCandidateSelection ------------------------
(* Small instance: accounts and workers are interchangeable.                 *)
EXTENDS CandidateSelection, TLC

Symmetry == Permutations(Accounts) \cup Permutations(Workers)
=============================================================================
