------------------------------- MODULE MCPanel -------------------------------
(* Instances of Panel for TLC.                                             *)
EXTENDS Panel, TLC
Symmetry == Permutations(Requests) \cup Permutations(Browsers)
=============================================================================
