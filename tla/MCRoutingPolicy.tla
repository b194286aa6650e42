-------------------------- MODULE MCRoutingPolicy --------------------------
(* Instances of RoutingPolicy for TLC: two bridges with one address.       *)
EXTENDS RoutingPolicy, TLC
CONSTANTS n1
Policies == {{"lan", "app"}, {"lan", "net", "dns"}}
SameNet == 1 :> n1 @@ 2 :> n1
=============================================================================
