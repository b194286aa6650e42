--------------------------- MODULE RoutingPolicy ---------------------------
(* The Linux client's exclusions, src/network_policy.py: the saved rules,  *)
(* the five places apply() brings them to, the Waydroid bridge a watcher   *)
(* follows, and the processes that do it: a vpnctl command under           *)
(* operation.lock, the watcher under the same lock, the tunnel's worker    *)
(* without it.                                                             *)
EXTENDS Naturals

CONSTANTS
  Rules,        \* saved policies: sets of what is excluded from the tunnel
  Nets,         \* addresses the bridge gets
  NetOf,        \* the address of the i-th bridge
  MaxBridges, MaxChanges, MaxFaults,   \* bounds
  None

ASSUME PolicyConstants ==
  /\ NetOf \in [1..MaxBridges -> Nets] /\ None \notin Rules \cup Nets
  /\ MaxBridges \in Nat /\ MaxChanges \in Nat /\ MaxFaults \in Nat

Procs == {"worker", "command", "watcher"}

VARIABLES
  file,         \* policy.json
  staged, cfg,  \* policy.new.json and policy.json of /run
  table, boot,  \* the guard's table and full-guard.nft: [rules, net]
  owned,        \* policy-network.json
  ours,         \* our rules and routes are in the kernel
  wayRoutes,    \* routes of the physical table over waydroid0
  cache,        \* waydroid-network.json
  engine,       \* what xray runs, with it the interface TUN and the watcher
  route,        \* the tunnel's table leads to TUN
  link,         \* FULL_HOST exists
  bridge,       \* waydroid0, 0 when it is down
  made,         \* bridges so far
  pc, p, seen,  \* per process: step, loaded rules, bridge it looked at
  old,          \* the command's policy before the change
  lock,         \* operation.lock
  alone, clean, \* history: nothing disturbed the apply in progress, or the last one
  unremoved,    \* history: rules or routes a release could not remove still stand
  changes, faults

runtime == <<staged, cfg>>
kernel  == <<table, ours, wayRoutes, engine, route, link>>
disk    == <<file, boot, owned>>
local   == <<pc, p, seen, old, lock>>
world   == <<bridge, made>>
history == <<alone, clean, unremoved>>
bounds  == <<changes, faults>>
vars    == <<runtime, kernel, disk, cache, local, world, history, bounds>>

Kinds == {"plain", "app", "net", "lan", "dns", "home dns"}
Net(b) == IF b = 0 THEN None ELSE NetOf[b]
NoTable == [rules |-> None, net |-> None]
Addresses(b) == {Net(b)} \ {None}
Busy(q) == pc[q] \notin {"off", "on"}
Releasing == {"releasing", "unmark", "unguard"}

Init ==
  /\ file \in Rules /\ staged = None /\ cfg = None /\ table = NoTable /\ boot = NoTable
  /\ owned = FALSE /\ ours = FALSE /\ wayRoutes = {} /\ cache = None /\ engine = None
  /\ route = FALSE /\ link = FALSE /\ bridge = 0 /\ made = 0
  /\ pc = [q \in Procs |-> "off"] /\ p = [q \in Procs |-> None]
  /\ seen = [q \in Procs |-> 0] /\ old = None /\ lock = None
  /\ alone = FALSE /\ clean = FALSE /\ unremoved = FALSE /\ changes = 0 /\ faults = 0

To(q, s) == pc' = [pc EXCEPT ![q] = s]
Look(q)  == seen' = [seen EXCEPT ![q] = bridge]
\* A process is done with its work, and with the lock if it has it.
Idle(q)  == /\ To(q, IF q = "worker" /\ pc[q] = "route" THEN "on" ELSE "off")
            /\ p' = [p EXCEPT ![q] = None] /\ seen' = [seen EXCEPT ![q] = 0]
            /\ lock' = IF lock = q THEN None ELSE lock
            /\ old' = IF q = "command" THEN None ELSE old
\* The watcher's unit is part of the engine's.
StopWatcher(steps, looks) ==
  /\ pc' = [steps EXCEPT !["watcher"] = "off"] /\ seen' = [looks EXCEPT !["watcher"] = 0]
  /\ lock' = IF lock = "watcher" THEN None ELSE lock
-----------------------------------------------------------------------------
(* apply, for the worker and the command.                                  *)
MutantPrepare(q) ==  \* mutant: a staged file that is there is kept
  /\ pc[q] = "load"
  /\ p' = [p EXCEPT ![q] = file] /\ staged' = (IF staged = None THEN file ELSE staged)
  /\ Look(q) /\ To(q, "own")
  /\ UNCHANGED <<cfg, kernel, disk, cache, old, lock, world, history, bounds>>
\* The policy, xray's configuration, the rules with the bridge's address.
Prepare(q) ==
  /\ pc[q] = "load"
  /\ p' = [p EXCEPT ![q] = file] /\ staged' = file
  /\ Look(q) /\ To(q, "own")
  /\ UNCHANGED <<cfg, kernel, disk, cache, old, lock, world, history, bounds>>

\* Tables and priorities somebody else uses are refused.
Own(q) ==
  /\ pc[q] = "own" /\ (owned \/ ~ours)
  /\ owned' = TRUE
  /\ To(q, "tables")
  /\ UNCHANGED <<runtime, kernel, file, boot, cache, p, seen, old, lock, world, history, bounds>>

Tables(q) ==
  /\ pc[q] = "tables"
  /\ ours' = TRUE /\ unremoved' = FALSE
  /\ To(q, "config")
  /\ UNCHANGED <<runtime, table, wayRoutes, engine, route, link, disk, cache, p, seen, old, lock,
                 world, alone, clean, bounds>>

\* The staged file may have been taken by another apply.
Config(q) ==
  /\ pc[q] = "config" /\ staged # None
  /\ cfg' = staged /\ staged' = None
  /\ To(q, "filter")
  /\ UNCHANGED <<kernel, disk, cache, p, seen, old, lock, world, history, bounds>>

Filter(q) ==
  /\ pc[q] = "filter"
  /\ table' = [rules |-> p[q], net |-> Net(seen[q])] /\ boot' = table'
  /\ To(q, "sync")
  /\ UNCHANGED <<runtime, ours, wayRoutes, engine, route, link, file, owned, cache, p, seen, old,
                 lock, world, history, bounds>>

(* sync_waydroid_network: look, route, set, remember.                      *)
Sync(q) ==
  /\ pc[q] = "sync"
  /\ Look(q) /\ To(q, "bridge")
  /\ UNCHANGED <<runtime, kernel, disk, cache, p, old, lock, world, history, bounds>>

SyncRoute(q) ==
  /\ pc[q] = "bridge" /\ (seen[q] = 0 \/ bridge # 0)
  /\ wayRoutes' = wayRoutes \cup Addresses(seen[q])
  /\ To(q, "set")
  /\ UNCHANGED <<runtime, table, ours, engine, route, link, disk, cache, p, seen, old, lock,
                 world, history, bounds>>

\* The set, then the routes that no longer belong go.
SyncSet(q) ==
  /\ pc[q] = "set" /\ table # NoTable
  /\ table' = [table EXCEPT !.net = Net(seen[q])]
  /\ wayRoutes' = wayRoutes \cap Addresses(seen[q])
  /\ To(q, "remember")
  /\ UNCHANGED <<runtime, ours, engine, route, link, disk, cache, p, seen, old, lock, world, history, bounds>>

Remember(q) ==
  /\ pc[q] = "remember"
  /\ cache' = seen[q]
  /\ IF q = "watcher" THEN Idle(q) ELSE To(q, "engine") /\ UNCHANGED <<p, seen, old, lock>>
  /\ UNCHANGED <<runtime, kernel, disk, world, history, bounds>>

\* systemd restarts xray and, with it, the watcher.
Engine(q) ==
  /\ pc[q] = "engine"
  /\ engine' = cfg
  /\ StopWatcher([pc EXCEPT ![q] = "route"], seen)
  /\ UNCHANGED <<runtime, table, ours, wayRoutes, route, link, disk, cache, p, old,
                 world, history, bounds>>

RouteTun(q) ==
  /\ pc[q] = "route" /\ engine # None
  /\ route' = TRUE
  /\ Idle(q)
  /\ clean' = alone /\ UNCHANGED <<alone, unremoved>>
  /\ UNCHANGED <<runtime, table, ours, wayRoutes, engine, link, disk, cache, world, bounds>>

Apply(q) ==
  \/ Prepare(q) \/ Own(q) \/ Tables(q) \/ Config(q) \/ Filter(q) \/ Sync(q)
  \/ SyncRoute(q) \/ SyncSet(q) \/ Remember(q) \/ Engine(q) \/ RouteTun(q)

\* A step that cannot succeed, or does not.
Stuck(q) ==
  \/ pc[q] = "own" /\ ~owned /\ ours
  \/ pc[q] = "config" /\ staged = None
  \/ pc[q] = "bridge" /\ seen[q] # 0 /\ bridge = 0
  \/ pc[q] = "set" /\ table = NoTable
  \/ pc[q] = "route" /\ engine = None
Fault == faults < MaxFaults /\ faults' = faults + 1 /\ UNCHANGED changes
Fails(q) == Busy(q) /\ ((Stuck(q) /\ UNCHANGED bounds) \/ Fault)
-----------------------------------------------------------------------------
(* change: save, apply if connected, else put the old policy back and try  *)
(* once more.                                                              *)
Change(r) ==
  /\ lock = None /\ pc["command"] = "off" /\ r # file /\ changes < MaxChanges
  /\ changes' = changes + 1
  /\ file' = r /\ old' = file
  /\ IF table # NoTable /\ link
     THEN lock' = "command" /\ To("command", "load") /\ alone' = ~Busy("worker")
     ELSE UNCHANGED <<lock, pc, alone>>
  /\ clean' = FALSE
  /\ UNCHANGED <<runtime, kernel, boot, owned, cache, p, seen, world, unremoved, faults>>

ChangeFails ==
  /\ pc["command"] \notin Releasing /\ Fails("command")
  /\ IF old # None
     THEN file' = old /\ old' = None /\ To("command", "load") /\ UNCHANGED <<p, seen, lock>>
     ELSE Idle("command") /\ UNCHANGED file
  /\ UNCHANGED <<runtime, kernel, boot, owned, cache, world, history>>

\* Interrupted or killed: nothing is put back.
CommandDies ==
  /\ Busy("command") /\ Fault
  /\ Idle("command")
  /\ UNCHANGED <<runtime, kernel, disk, cache, world, history>>

(* watch_waydroid, every second while the engine runs.                     *)
MutantWatch ==  \* mutant: compares the addresses only
  /\ pc["watcher"] = "off" /\ engine # None /\ table # NoTable /\ lock = None
  /\ cache = None \/ Net(cache) # Net(bridge)
  /\ lock' = "watcher" /\ To("watcher", "bridge") /\ Look("watcher")
  /\ UNCHANGED <<runtime, kernel, disk, cache, p, old, world, history, bounds>>
Watch ==
  /\ pc["watcher"] = "off" /\ engine # None /\ table # NoTable /\ lock = None
  /\ cache # bridge
  /\ lock' = "watcher" /\ To("watcher", "bridge") /\ Look("watcher")
  /\ UNCHANGED <<runtime, kernel, disk, cache, p, old, world, history, bounds>>

WatchFails ==
  /\ Fails("watcher")
  /\ Idle("watcher")
  /\ IF pc["watcher"] = "remember" THEN alone' = FALSE /\ clean' = FALSE
                                  ELSE UNCHANGED <<alone, clean>>
  /\ UNCHANGED <<runtime, kernel, disk, cache, world, unremoved>>

(* The worker: cleanup, then activate_full fills the guard, makes the link *)
(* and applies; ensure_route as long as it is connected.                   *)
Connect ==
  /\ pc["worker"] = "off" /\ pc["command"] \notin Releasing
  /\ StopWatcher([pc EXCEPT !["worker"] = "load"], seen)
  /\ alone' = ~Busy("command") /\ clean' = FALSE
  /\ link' = TRUE /\ engine' = None /\ route' = FALSE
  /\ table' = [rules |-> file, net |-> Net(bridge)] /\ boot' = table'
  /\ UNCHANGED <<runtime, ours, wayRoutes, file, owned, cache, p, old, world, unremoved, bounds>>

\* stop: xray and the watcher; FULL_HOST goes as well.
Down == engine' = None /\ route' = FALSE /\ link' = FALSE
Disconnected ==
  /\ \/ pc["worker"] = "on" /\ UNCHANGED bounds
     \/ Fails("worker")
  /\ Down
  /\ StopWatcher([pc EXCEPT !["worker"] = "off"], [seen EXCEPT !["worker"] = 0])
  /\ p' = [p EXCEPT !["worker"] = None]
  /\ UNCHANGED <<runtime, table, ours, wayRoutes, disk, cache, old, world, history>>

EngineDies ==
  /\ engine # None /\ Fault
  /\ engine' = None /\ route' = FALSE
  /\ UNCHANGED <<runtime, table, ours, wayRoutes, link, disk, cache, local, world, history>>

EngineBack ==
  /\ engine = None /\ \E q \in Procs : pc[q] \in {"on", "route"}
  /\ engine' = cfg
  /\ UNCHANGED <<runtime, table, ours, wayRoutes, route, link, disk, cache, local, world, history, bounds>>

EnsureRoute ==
  /\ pc["worker"] = "on" /\ engine # None /\ ~route
  /\ route' = TRUE
  /\ UNCHANGED <<runtime, table, ours, wayRoutes, engine, link, disk, cache, local, world, history, bounds>>

(* disconnect: stop(release=True), then the guard.                         *)
Release ==
  /\ lock = None /\ pc["command"] = "off" /\ pc["worker"] = "off"
  /\ owned \/ table # NoTable
  /\ lock' = "command" /\ Down
  /\ To("command", IF owned THEN "releasing" ELSE "unguard")
  /\ alone' = FALSE /\ clean' = FALSE
  /\ UNCHANGED <<runtime, table, ours, wayRoutes, disk, cache, p, seen, old, world, unremoved, bounds>>

\* ip rule del and ip route flush run with check=False: the release goes on
\* past one that fails, all or a part of what is ours stands.
MutantReleaseTables ==  \* mutant: the mark of ownership goes first
  /\ pc["command"] = "releasing"
  /\ owned' = FALSE
  /\ To("command", "unmark")
  /\ UNCHANGED <<runtime, kernel, file, boot, cache, p, seen, old, lock, world, history, bounds>>
ReleaseTables ==
  /\ pc["command"] = "releasing"
  /\ \/ ours' = FALSE /\ wayRoutes' = {} /\ unremoved' = FALSE
     \/ ours /\ ours' = TRUE /\ wayRoutes' \in {wayRoutes, {}} /\ unremoved' = TRUE
  /\ To("command", "unmark")
  /\ UNCHANGED <<runtime, table, engine, route, link, disk, cache, p, seen, old, lock,
                 world, alone, clean, bounds>>

Unmark ==
  /\ pc["command"] = "unmark"
  /\ owned' = FALSE
  /\ To("command", "unguard")
  /\ UNCHANGED <<runtime, kernel, file, boot, cache, p, seen, old, lock, world, history, bounds>>

\* nft delete runs with check=False as well.
Unguard ==
  /\ pc["command"] = "unguard"
  /\ table' \in {NoTable, table}
  /\ Idle("command")
  /\ UNCHANGED <<runtime, ours, wayRoutes, engine, route, link, disk, cache, world, history, bounds>>

(* The surroundings.                                                       *)
\* The kernel drops the routes of a bridge that goes.
Bridge ==
  /\ \/ bridge # 0 /\ bridge' = 0 /\ made' = made /\ wayRoutes' = {}
     \/ bridge = 0 /\ made < MaxBridges
        /\ made' = made + 1 /\ bridge' = made' /\ UNCHANGED wayRoutes
  /\ UNCHANGED <<runtime, table, ours, engine, route, link, disk, cache, local, history, bounds>>

\* What is in /run and in the kernel is gone; the guard's file is loaded.
Reboot ==
  /\ Fault
  /\ staged' = None /\ cfg' = None /\ cache' = None
  /\ table' = IF table = NoTable THEN NoTable ELSE boot
  /\ ours' = FALSE /\ wayRoutes' = {} /\ engine' = None /\ route' = FALSE /\ link' = FALSE
  /\ pc' = [q \in Procs |-> "off"] /\ p' = [q \in Procs |-> None] /\ seen' = [q \in Procs |-> 0]
  /\ old' = None /\ lock' = None /\ bridge' = 0 /\ alone' = FALSE /\ clean' = FALSE
  /\ unremoved' = FALSE
  /\ UNCHANGED <<disk, made>>

Next ==
  \/ \E q \in {"worker", "command"} : Prepare(q) \/ Own(q) \/ Tables(q) \/ Config(q)
        \/ Filter(q) \/ Sync(q) \/ Engine(q) \/ RouteTun(q)
  \/ \E q \in Procs : SyncRoute(q) \/ SyncSet(q) \/ Remember(q)
  \/ \E r \in Rules : Change(r)
  \/ ChangeFails \/ CommandDies \/ Watch \/ WatchFails \/ Connect \/ Disconnected \/ EngineDies
  \/ EngineBack \/ EnsureRoute \/ Release \/ ReleaseTables \/ Unmark \/ Unguard \/ Bridge \/ Reboot

(* Processes go on, systemd restarts the engine, the watcher looks every   *)
(* second; users, bridges and the worker's connections owe nothing.        *)
Fairness ==
  /\ WF_vars(Apply("worker")) /\ WF_vars(Apply("command") \/ ReleaseTables \/ Unmark \/ Unguard)
  /\ WF_vars(SyncRoute("watcher") \/ SyncSet("watcher") \/ Remember("watcher"))
  /\ WF_vars(Stuck("command") /\ ChangeFails) /\ WF_vars(Stuck("watcher") /\ WatchFails)
  /\ WF_vars(Stuck("worker") /\ Disconnected) /\ SF_vars(Watch) /\ WF_vars(EngineBack)
Spec == Init /\ [][Next]_vars /\ Fairness
-----------------------------------------------------------------------------
(* Where a packet goes, by the filter's route chain, the routing tables,   *)
(* the output chain and the engine.  "home dns" is a question to a server  *)
(* of the local network; "net" stands for networks and ports.              *)
MutantMark(r, k) ==  \* mutant: the local network comes before port 53
  IF k \in {"net", "lan"} \cap r \/ (k = "home dns" /\ {"dns", "lan"} \cap r # {}) THEN "direct"
  ELSE IF k \in {"dns", "home dns"} THEN "vpn" ELSE "none"
Mark(r, k) ==
  IF k \in {"net", "lan"} \cap r \/ (k = "home dns" /\ "dns" \in r) THEN "direct"
  ELSE IF k \in {"dns", "home dns"} THEN "vpn" ELSE "none"

Tunnel == IF link THEN "tunnel" ELSE "blocked"
\* The engine marks its own packets, DNS never by the rule of an application.
EngineOut(k) == IF ~ours THEN "blocked"
                ELSE IF k = "app" /\ k \in engine THEN "direct" ELSE Tunnel
Fate(k) ==
  LET mark == Mark(table.rules, k)
  IN  IF mark = "direct" /\ ours THEN "direct"
      ELSE IF mark = "vpn" /\ ours THEN Tunnel
      ELSE IF route /\ engine # None THEN EngineOut(k)
      ELSE IF mark = "none" THEN "blocked" ELSE Tunnel
-----------------------------------------------------------------------------
TypeOK ==
  /\ file \in Rules /\ {staged, cfg, engine, old} \subseteq Rules \cup {None}
  /\ owned \in BOOLEAN /\ ours \in BOOLEAN /\ wayRoutes \subseteq Nets
  /\ cache \in 0..MaxBridges \cup {None} /\ bridge \in 0..made /\ lock \in Procs \cup {None}
  /\ unremoved \in BOOLEAN

(* With the guard in place and whatever apply, stop, the engine and the    *)
(* worker are in the middle of, a packet leaves directly only if the       *)
(* filter or the engine excludes it; DNS to a home server does not because *)
(* home devices do (README, "Protection").  After an apply that ran alone  *)
(* the filter, the routing tables and the engine agree: exactly what the   *)
(* saved policy excludes leaves directly.                                  *)
Excludes(r, k) == k \notin {"dns", "plain"} /\ (IF k = "home dns" THEN "dns" ELSE k) \in r
OnlyExcludedLeave ==
  /\ table # NoTable => \A k \in Kinds : Fate(k) = "direct" =>
       Excludes(table.rules, k) \/ (engine # None /\ Excludes(engine, k))
  /\ clean /\ engine # None /\ route => \A k \in Kinds : Fate(k) = "direct" <=> Excludes(file, k)

(* What apply put into tables and priorities that others may use carries   *)
(* its mark through crashes and reboots, or is what a release failed to    *)
(* remove and went past.  Without that failure the next apply never takes  *)
(* its own leftovers for another program's (policy-network.json).          *)
LeftoversAreOwned == ours => owned \/ unremoved

(* An apply that ran alone to its end leaves one policy in all the places, *)
(* whatever half-done ones left before it, and nothing but a further       *)
(* change, connection or release disturbs it.                              *)
CleanIsWhole ==
  clean => /\ table.rules = file /\ cfg = file /\ boot.rules = file
           /\ staged = None /\ engine \in {file, None} /\ owned

(* Once an apply ran alone to its end and the engine stays up, the guard's *)
(* set and the routes come to follow the bridge for good, also one that is *)
(* recreated with the same address (README, "Waydroid").                   *)
Tracked == wayRoutes = Addresses(bridge) /\ table.net = Net(bridge)
BridgeIsTracked == <>[](clean /\ engine # None) => <>[]Tracked
=============================================================================
