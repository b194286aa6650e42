------------------------------- MODULE Egress -------------------------------
(***************************************************************************)
(* The way of the clients' traffic through the entry server to Estonia:    *)
(* server/connect/infra/relay-hsvds.py (the relay and, for the IKE pool,   *)
(* its guard), server/connect/infra/ingress.py (the WireGuard entry) and   *)
(* the systemd units and timers that run them, evgenium-link among them,   *)
(* which the entry requires.  Three processes change the same routes,      *)
(* rules and tables and take no lock: the relay's unit, its periodic       *)
(* check, and the entry's unit or its periodic sync.  A command may fail,  *)
(* a script be killed, the firewall be reloaded, the namespace be made     *)
(* anew or the server reboot between any two of their steps.               *)
(*                                                                         *)
(* The relay has been installed: its directory exists and nftables.conf    *)
(* includes its guard.                                                     *)
(***************************************************************************)
EXTENDS Integers, EgressKernel

CONSTANTS MaxRepairs,  \* repairs in an hour (5 in the code)
          MaxStarts,   \* starts of the link in ten minutes (3 in its unit)
          MaxFaults    \* bound of the failures, reloads, stops and reboots

ASSUME EgressAssumption ==
  MaxRepairs \in Nat \ {0} /\ MaxStarts \in Nat \ {0} /\ MaxFaults \in Nat

VARIABLES
  owned,       \* ingress-owned.json exists
  hold,        \* resource-hold exists
  repairs,     \* repairs.json: repairs of the last hour
  torn,        \* repairs.json is empty or cut
  relay,       \* evgenium-relay is active
  ingress,     \* evgenium-wireguard-ingress is active
  relayJob, ingressJob, syncJob,  \* systemd: what is queued or runs
  meant,       \* history: an operator stopped the relay, since the last boot
  link,        \* evgenium-link is active, or evg-wg is there without it
  linkJob,     \* systemd: its start or stop is queued
  starts,      \* its starts of the last ten minutes
  refused,     \* the mode file names a mode that link.sh refuses
  at,          \* the step each script is about to take
  faults

disk  == <<owned, hold, repairs, torn>>
carrier == <<link, linkJob, starts, refused>>
units == <<relay, ingress, relayJob, ingressJob, syncJob, meant, carrier>>
vars  == <<kernel, disk, units, at, faults>>

Scripts == {"unit", "check", "entry"}
Relays  == {"unit", "check"}   \* those that run the relay's script

Healthy == {"host", "guard", "accept", "table", "via"} \subseteq kernel
-----------------------------------------------------------------------------
(* The scripts, one step per command.  start, stop, up and down, in order. *)
After ==
  [guard |-> "block", block |-> "rule", rule |-> "link", link |-> "peer",
   peer |-> "net", net |-> "table", table |-> "clear", clear |-> "accept",
   accept |-> "via", via |-> "done",
   unvia |-> "reguard", reguard |-> "reblock", reblock |-> "rerule",
   rerule |-> "unaccept", unaccept |-> "unlink", unlink |-> "untable",
   untable |-> "done",
   own |-> "blockW", blockW |-> "ruleW", ruleW |-> "entry", entry |-> "nat",
   nat |-> "look", look |-> "clearW", clearW |-> "acceptW",
   acceptW |-> "viaW", viaW |-> "backW", backW |-> "clients",
   clients |-> "done",
   unclients |-> "unacceptW", unacceptW |-> "done"]

Do(p, steps) == /\ at[p] \in steps
                /\ at' = [at EXCEPT ![p] = After[at[p]]]
                /\ UNCHANGED <<disk, units, faults>>
Add(objects)    == kernel' = kernel \cup objects
Remove(objects) == kernel' = kernel \ objects
Exist(objects)  == objects \subseteq kernel

\* What goes with the pair of interfaces: every route through it.
Pair == {"host", "peer", "via", "back", "viaW", "backW"}

(* relay-hsvds.py: guard and policy, then the way, and the route last.     *)
Guard(p)  == Do(p, {"guard", "reguard"}) /\ Add({"guard"})
Block(p)  == Do(p, {"block", "reblock"}) /\ Add({"block"})
Rule(p)   == Do(p, {"rule", "rerule"}) /\ Add({"rule"})
AddLink(p) == Do(p, {"link"}) /\ Add({"host"})
MovePeer(p) == Do(p, {"peer"}) /\ Exist({"host"}) /\ Add({"peer"})
Network(p) == Do(p, {"net"}) /\ Exist({"host", "peer"}) /\ Add({"back"})
Table(p)  == Do(p, {"table"}) /\ Add({"table"})
RemoveAccept(p) == Do(p, {"clear", "unaccept"}) /\ Remove({"accept"})
Accept(p) == Do(p, {"accept"}) /\ Add({"accept"})
Via(p)    == Do(p, {"via"}) /\ Exist({"host"}) /\ Add({"via"})
Unvia(p)  == Do(p, {"unvia"}) /\ Remove({"via"})
Unlink(p) == Do(p, {"unlink"}) /\ Remove(Pair)
Untable(p) == Do(p, {"untable"}) /\ Remove({"table"})

(* ingress.py: the same order; the clients' interface is made last.        *)
Own ==
  /\ at["entry"] = "own" /\ ~hold
  /\ owned' = TRUE
  /\ at' = [at EXCEPT !["entry"] = "blockW"]
  /\ UNCHANGED <<kernel, hold, repairs, torn, units, faults>>
MutantBlockW == Do("entry", {"blockW"}) /\ Add({})  \* mutant: no fallback
BlockW   == Do("entry", {"blockW"}) /\ Add({"blockW"})
RuleW    == Do("entry", {"ruleW"}) /\ Add({"ruleW"})
Entry    == Do("entry", {"entry"}) /\ Add({"entry"})
EntryNat == Do("entry", {"nat"}) /\ Add({"nat"})
Look     == Do("entry", {"look"}) /\ Exist({"table"}) /\ UNCHANGED kernel
ClearW   == Do("entry", {"clearW", "unacceptW"}) /\ Remove({"acceptW"})
AcceptW  == Do("entry", {"acceptW"}) /\ Add({"acceptW"})
ViaW     == Do("entry", {"viaW"}) /\ Exist({"host"}) /\ Add({"viaW"})
BackW    == Do("entry", {"backW"}) /\ Exist({"peer"}) /\ Add({"backW"})
Clients  == Do("entry", {"clients"}) /\ Add({"clients"})
Unclients == Do("entry", {"unclients"}) /\ Remove({"clients"})

RelayStep(p) ==
  \/ Guard(p) \/ Block(p) \/ Rule(p) \/ AddLink(p) \/ MovePeer(p)
  \/ Network(p) \/ Table(p) \/ RemoveAccept(p) \/ Accept(p) \/ Via(p)
  \/ Unvia(p) \/ Unlink(p) \/ Untable(p)
EntryStep ==
  \/ Own \/ BlockW \/ RuleW \/ Entry \/ EntryNat \/ Look \/ ClearW \/ AcceptW
  \/ ViaW \/ BackW \/ Clients \/ Unclients
-----------------------------------------------------------------------------
(* systemd.  The entry requires the relay and the link and comes after     *)
(* both, the relay comes after the link, sync requires the entry: a start  *)
(* pulls in what is off, a stop takes down what depends.                   *)

Idle(p) == at[p] = "idle"
To(p, step) == at' = [at EXCEPT ![p] = step]
Disturb == faults < MaxFaults /\ faults' = faults + 1

StartRelay ==
  /\ relayJob = "start" /\ linkJob = "none" /\ Idle("unit")
  /\ To("unit", "guard")
  /\ UNCHANGED <<kernel, disk, units, faults>>
StopRelay ==
  /\ relayJob = "stop" /\ ingressJob = "none" /\ Idle("unit")
  /\ relay' = FALSE /\ To("unit", "unvia")
  /\ UNCHANGED <<kernel, disk, ingress, relayJob, ingressJob, syncJob, meant, carrier,
                 faults>>
StartIngress ==
  /\ ingressJob = "start" /\ relay
  /\ relayJob = "none" /\ linkJob = "none" /\ Idle("entry")
  /\ To("entry", "own")
  /\ UNCHANGED <<kernel, disk, units, faults>>
StopIngress ==
  /\ ingressJob = "stop" /\ Idle("entry")
  /\ ingress' = FALSE
  /\ To("entry", IF owned THEN "unclients" ELSE "done")
  /\ UNCHANGED <<kernel, disk, relay, relayJob, ingressJob, syncJob, meant, carrier,
                 faults>>
Sync ==
  /\ syncJob = "start" /\ ingress /\ ingressJob = "none" /\ Idle("entry")
  /\ To("entry", "own")
  /\ UNCHANGED <<kernel, disk, units, faults>>

(* evgenium-link, a step each way.  With resources held its condition      *)
(* fails and what waits for it goes on; a start that is over the limit,    *)
(* finds evg-wg or fails cancels the starts that require it.               *)
SkipLink ==
  /\ linkJob = "start" /\ hold
  /\ linkJob' = "none"
  /\ UNCHANGED <<kernel, disk, relay, ingress, relayJob, ingressJob, syncJob, meant,
                 link, starts, refused, at, faults>>
LinkFails ==
  /\ \/ starts = MaxStarts /\ UNCHANGED <<link, starts, faults>>
     \/ /\ starts < MaxStarts /\ starts' = starts + 1
        /\ \/ link = "bare" /\ link' = "off" /\ UNCHANGED faults
           \/ link = "off" /\ refused /\ link' = "bare" /\ UNCHANGED faults
           \/ link' \in {"off", "bare"} /\ Disturb
  /\ IF ingressJob = "start"
     THEN ingressJob' = "none" /\ syncJob' = "none"
     ELSE UNCHANGED <<ingressJob, syncJob>>
StartLink ==
  /\ linkJob = "start" /\ ~hold
  /\ linkJob' = "none"
  /\ \/ LinkFails
     \/ /\ starts < MaxStarts /\ starts' = starts + 1
        /\ link = "off" /\ ~refused /\ link' = "on"
        /\ UNCHANGED <<ingressJob, syncJob, faults>>
  /\ UNCHANGED <<kernel, disk, relay, ingress, relayJob, meant, refused, at>>
StopLink ==
  /\ linkJob = "stop" /\ ingressJob = "none"
  /\ linkJob' = "none" /\ link' = "off"
  /\ UNCHANGED <<kernel, disk, relay, ingress, relayJob, ingressJob, syncJob, meant,
                 starts, refused, at, faults>>
WindowPasses ==
  /\ starts > 0
  /\ starts' = 0
  /\ UNCHANGED <<kernel, disk, relay, ingress, relayJob, ingressJob, syncJob, meant,
                 link, linkJob, refused, at, faults>>

\* The sync timer; not while something is being stopped.
SyncElapses ==
  /\ syncJob = "none" /\ Idle("entry")
  /\ "stop" \notin {relayJob, ingressJob, linkJob}
  /\ syncJob' = "start"
  /\ ingressJob' = IF ingress THEN ingressJob ELSE "start"
  /\ relayJob' = IF relay THEN relayJob ELSE "start"
  /\ linkJob' = IF link = "on" THEN linkJob ELSE "start"
  /\ UNCHANGED <<kernel, disk, relay, ingress, meant, link, starts, refused, at, faults>>

\* The check timer: five repairs an hour, of a relay that is active.  The
\* file is read, and written in place: what is left of it when that is cut
\* stops every later check.
CheckElapses ==
  /\ Idle("check") /\ ~hold /\ relay /\ ~Healthy
  /\ ~torn /\ repairs < MaxRepairs
  /\ \/ repairs' = repairs + 1 /\ To("check", "guard") /\ UNCHANGED <<torn, faults>>
     \/ torn' = TRUE /\ Disturb /\ UNCHANGED <<repairs, at>>
  /\ UNCHANGED <<kernel, owned, hold, units>>
HourPasses ==
  /\ repairs > 0
  /\ repairs' = 0
  /\ UNCHANGED <<kernel, owned, hold, torn, units, at, faults>>

UnitDone ==
  /\ at["unit"] = "done" /\ To("unit", "idle")
  /\ relay' = (relayJob = "start") /\ relayJob' = "none"
  /\ UNCHANGED <<kernel, disk, ingress, ingressJob, syncJob, meant, carrier, faults>>
CheckDone ==
  /\ at["check"] = "done" /\ To("check", "idle")
  /\ UNCHANGED <<kernel, disk, units, faults>>
EntryDone ==
  /\ at["entry"] = "done" /\ To("entry", "idle")
  /\ IF ingressJob # "none"
     THEN /\ ingress' = (ingressJob = "start") /\ ingressJob' = "none"
          /\ UNCHANGED syncJob
     ELSE syncJob' = "none" /\ UNCHANGED <<ingress, ingressJob>>
  /\ UNCHANGED <<kernel, disk, relay, relayJob, meant, carrier, faults>>

\* A command fails because of what another script or event took away.
Blocked(p) == \/ at[p] \in {"peer", "via", "viaW"} /\ "host" \notin kernel
              \/ at[p] = "net" /\ ~Exist({"host", "peer"})
              \/ at[p] = "backW" /\ "peer" \notin kernel
              \/ at[p] = "look" /\ "table" \notin kernel
              \/ at[p] = "own" /\ hold

\* A script ends early; a unit it starts fails, with what waits for it.
Fails(p) ==
  /\ ~Idle(p) /\ at[p] # "done"
  /\ Blocked(p) \/ faults < MaxFaults
  /\ faults' = IF Blocked(p) THEN faults ELSE faults + 1
  /\ To(p, "idle")
  /\ \/ p = "unit" /\ relay' = FALSE /\ relayJob' = "none"
        /\ UNCHANGED <<ingress, meant, carrier>>
        /\ IF relayJob = "start" THEN ingressJob' = "none" /\ syncJob' = "none"
                                 ELSE UNCHANGED <<ingressJob, syncJob>>
     \/ p = "check" /\ UNCHANGED units
     \/ p = "entry" /\ ingressJob # "none"
        /\ ingress' = FALSE /\ ingressJob' = "none" /\ syncJob' = "none"
        /\ UNCHANGED <<relay, relayJob, meant, carrier>>
     \/ p = "entry" /\ ingressJob = "none" /\ syncJob' = "none"
        /\ UNCHANGED <<relay, ingress, relayJob, ingressJob, meant, carrier>>
  /\ UNCHANGED <<kernel, disk>>
-----------------------------------------------------------------------------
(* The operator, the resource guard and the rest of the server.            *)

\* A stop kills a sync or a start of what it stops.
TakeDown ==
  /\ ingressJob' = IF ingress THEN "stop" ELSE "none"
  /\ syncJob' = "none" /\ To("entry", "idle")

SystemctlStopRelay ==
  /\ Disturb /\ relay /\ relayJob = "none" /\ ingressJob # "stop"
  /\ relayJob' = "stop" /\ meant' = TRUE /\ TakeDown
  /\ UNCHANGED <<kernel, disk, relay, ingress, carrier>>
SystemctlStopIngress ==
  /\ Disturb /\ ingress /\ ingressJob = "none" /\ relayJob = "none"
  /\ TakeDown
  /\ UNCHANGED <<kernel, disk, relay, ingress, relayJob, meant, carrier>>
\* Also the first half of a restart by the link's health loop.
SystemctlStopLink ==
  /\ Disturb /\ link = "on" /\ linkJob = "none" /\ ingressJob # "stop"
  /\ linkJob' = "stop" /\ TakeDown
  /\ UNCHANGED <<kernel, disk, relay, ingress, relayJob, meant, link, starts, refused>>
ModeChanges ==
  /\ Disturb /\ refused' = ~refused
  /\ UNCHANGED <<kernel, disk, relay, ingress, relayJob, ingressJob, syncJob, meant,
                 link, linkJob, starts, at>>
ResourceHold ==
  /\ Disturb /\ ~hold /\ hold' = TRUE
  /\ ingressJob # "stop" /\ TakeDown
  /\ linkJob' = IF link = "on" THEN "stop" ELSE "none"
  /\ UNCHANGED <<kernel, owned, repairs, torn, relay, ingress, relayJob, meant,
                 link, starts, refused>>
Release ==
  /\ Disturb /\ hold /\ hold' = FALSE
  /\ UNCHANGED <<kernel, owned, repairs, torn, units, at>>

\* nftables.conf has the relay's guard and no other table of these scripts.
ReloadFirewall ==
  /\ Disturb /\ Remove({"entry", "accept", "acceptW"})
  /\ UNCHANGED <<disk, units, at>>
NamespaceLost ==
  /\ Disturb /\ Remove(Pair \cup {"table", "nat"})
  /\ UNCHANGED <<disk, units, at>>
Reboot ==
  /\ Disturb /\ kernel' = {"guard"}
  /\ relay' = FALSE /\ ingress' = FALSE
  /\ relayJob' = "start" /\ ingressJob' = "start" /\ syncJob' = "none"
  /\ link' = "off" /\ linkJob' = "start" /\ starts' = 0 /\ meant' = FALSE
  /\ at' = [p \in Scripts |-> "idle"]
  /\ UNCHANGED <<disk, refused>>
-----------------------------------------------------------------------------
Init ==
  /\ kernel = {"guard"} /\ owned \in BOOLEAN /\ hold = FALSE
  /\ repairs = 0 /\ torn = FALSE
  /\ relay = FALSE /\ ingress = FALSE
  /\ relayJob = "start" /\ ingressJob = "start" /\ syncJob = "none"
  /\ meant = FALSE /\ link = "off" /\ linkJob = "start" /\ starts = 0
  /\ refused \in BOOLEAN
  /\ at = [p \in Scripts |-> "idle"]
  /\ faults = 0

LinkUnit == SkipLink \/ StartLink \/ StopLink
Systemd == StartRelay \/ StopRelay \/ StartIngress \/ StopIngress \/ Sync

Next ==
  \/ \E p \in Relays : RelayStep(p)
  \/ EntryStep \/ Systemd \/ LinkUnit
  \/ UnitDone \/ CheckDone \/ EntryDone
  \/ SyncElapses \/ CheckElapses \/ HourPasses \/ WindowPasses
  \/ \E p \in Scripts : Fails(p)
  \/ SystemctlStopRelay \/ SystemctlStopIngress \/ SystemctlStopLink
  \/ ModeChanges \/ ResourceHold \/ Release
  \/ ReloadFirewall \/ NamespaceLost \/ Reboot

Spec == Init /\ [][Next]_vars

\* Scripts that run go on, queued units start, timers elapse, hours pass.
Progress(p) == \/ IF p = "entry" THEN EntryStep ELSE RelayStep(p)
               \/ p = "unit" /\ UnitDone
               \/ p = "check" /\ CheckDone
               \/ p = "entry" /\ EntryDone
               \/ Fails(p) /\ Blocked(p)
FairSpec ==
  /\ Spec
  /\ \A p \in Scripts : WF_vars(Progress(p))
  /\ WF_vars(Systemd) /\ WF_vars(LinkUnit) /\ WF_vars(SyncElapses)
  /\ WF_vars(CheckElapses) /\ WF_vars(HourPasses) /\ WF_vars(WindowPasses)
-----------------------------------------------------------------------------
=============================================================================
