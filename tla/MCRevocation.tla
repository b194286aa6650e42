---------------------------- MODULE MCRevocation ----------------------------
(* Instances of Revocation for TLC.                                        *)
EXTENDS Revocation, TLC

Symmetry == Permutations(Devices) \cup Permutations(Importers)
=============================================================================
