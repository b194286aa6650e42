--------------------------- MODULE MCLinkSelector ---------------------------
(* Instances of LinkSelector for TLC.                                      *)
EXTENDS LinkSelector
CONSTANTS gre, tcp, evgt
MCOrder  == <<gre, tcp, evgt>>
MCPause  == [slow |-> 3, fast |-> 2]
MCMisses == [slow |-> 3, fast |-> 2]
=============================================================================
