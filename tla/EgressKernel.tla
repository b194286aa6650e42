---------------------------- MODULE EgressKernel ----------------------------
(***************************************************************************)
(* What a packet of a client meets in the kernel of the entry server: the  *)
(* routes, rules, tables and interfaces that relay-hsvds.py and ingress.py *)
(* make, as the set of the objects that exist; addresses, ports and the    *)
(* text of the rules are left out.  Egress has the scripts.                *)
(***************************************************************************)

VARIABLE kernel

\* Clients of a pool have a way to Estonia.
Path == {"host", "peer", "table"}
Forwards(pool) ==
  Path \cup (IF pool = "ike"
             THEN {"rule", "via", "back", "accept"}
             ELSE {"ruleW", "viaW", "backW", "acceptW", "nat", "clients"})
    \subseteq kernel

\* Nothing holds their packets back from the server's own default route.
Direct(pool) ==
  IF pool = "ike"
  THEN "guard" \notin kernel
       /\ ~("rule" \in kernel /\ {"block", "via"} \cap kernel # {})
  ELSE /\ "clients" \in kernel /\ "entry" \notin kernel
       /\ ~("ruleW" \in kernel /\ {"blockW", "viaW"} \cap kernel # {})

-----------------------------------------------------------------------------
(* No packet of a client leaves by the server's own default route, once    *)
(* the relay is installed and whenever the WireGuard interface exists: at  *)
(* every step of every script, after any failure, reload or reboot.        *)
NeverDirect == \A pool \in {"ike", "wg"} : ~Direct(pool)
=============================================================================
