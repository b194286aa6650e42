---------------------------- MODULE MCSupervisor ----------------------------
(* Instances of Supervisor for TLC.                                        *)
EXTENDS Supervisor, TLC

CONSTANTS ru, ee

TwoPaths == <<ru, ee>>
=============================================================================
