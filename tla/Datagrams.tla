----------------------------- MODULE Datagrams -----------------------------
(* What one direction of an EvgeniumTunnel session promises to the UDP     *)
(* sockets at its ends: a datagram may be lost on this side of the stream, *)
(* what is not lost arrives once and in order, and the receiver's counter  *)
(* of gaps is the number of lost datagrams before the last one delivered.  *)
EXTENDS Naturals, FiniteSets

VARIABLES submitted, \* datagrams read from the local socket
          missing,   \* those of them that are lost
          delivered, \* the last one written to the remote socket
          gaps       \* what the receiver believes is lost

Init == submitted = 0 /\ missing = {} /\ delivered = 0 /\ gaps = 0

Submit ==
  /\ submitted' = submitted + 1
  /\ missing' \in {missing, missing \cup {submitted'}}
  /\ UNCHANGED <<delivered, gaps>>

Lose ==
  /\ \E lost \in SUBSET ((delivered + 1)..submitted) : missing' = missing \cup lost
  /\ UNCHANGED <<submitted, delivered, gaps>>

Deliver ==
  /\ \E n \in ((delivered + 1)..submitted) \ missing :
       /\ (delivered + 1)..(n - 1) \subseteq missing
       /\ delivered' = n
  /\ gaps' = Cardinality({n \in missing : n < delivered'})
  /\ UNCHANGED <<submitted, missing>>

Spec == Init /\ [][Submit \/ Lose \/ Deliver]_<<submitted, missing, delivered, gaps>>
=============================================================================
