----------------------------- MODULE MCTcpRelay -----------------------------
(* Instances of TcpRelay for TLC, whose constants are in the configurations. *)
EXTENDS TcpRelay, TLC
=============================================================================
