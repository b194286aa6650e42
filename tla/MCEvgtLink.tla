----------------------------- MODULE MCEvgtLink -----------------------------
(* Instances of EvgtLink for TLC: one tick stands for the heartbeat's      *)
(* interval of 3 seconds, the other limits are rounded to it.              *)
EXTENDS EvgtLink, TLC

Uplink == ("client" :> 2 @@ "server" :> 0)

ASSUME RoundTripInTime == Timing
=============================================================================
