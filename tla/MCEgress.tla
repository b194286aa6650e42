------------------------------ MODULE MCEgress ------------------------------
(* The instance of Egress for TLC. *)
EXTENDS Egress
=============================================================================
