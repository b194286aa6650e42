----------------------------- MODULE MCReports ------------------------------
(* Instances of Reports for TLC.                                           *)
EXTENDS Reports, TLC
Symmetry == Permutations(Threads) \cup Permutations(Contents)
=============================================================================
