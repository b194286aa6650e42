------------------------ MODULE RoutingPolicyProofs ------------------------
(* Proofs about RoutingPolicy, for any policies, bridges and failures.     *)
EXTENDS RoutingPolicy, TLAPS

(* The mark of ownership is written before the tables are filled and taken *)
(* away after they were emptied, or could not be.  Of the three processes  *)
(* only a release takes it away, and none begins to apply meanwhile.       *)
OwnershipInv ==
  /\ pc = [q \in Procs |-> pc[q]]
  /\ LeftoversAreOwned
  /\ \A q \in Procs : pc[q] = "tables" => owned
  /\ pc["watcher"] # "tables"
  /\ pc["command"] \in {"releasing", "unmark"} => pc["worker"] = "off"
  /\ pc["command"] = "unmark" /\ ours => unremoved

\* What neither claims nor gives up anything.
Bystander ==
  /\ owned' = owned
  /\ ours' = ours
  /\ unremoved' = unremoved
  /\ pc' = [q \in Procs |-> pc'[q]]
  /\ \A q \in Procs : pc'[q] = "tables" => pc[q] = "tables"
  /\ pc'["command"] \in {"releasing", "unmark"} =>
       pc["command"] = pc'["command"] /\ pc'["worker"] = "off"

LEMMA BystanderKeeps == OwnershipInv /\ Bystander => OwnershipInv'
BY DEF OwnershipInv, Bystander, LeftoversAreOwned, Procs

LEMMA MoveIsBystander ==
  ASSUME OwnershipInv, NEW q \in Procs, NEW s, To(q, s), pc[q] # "off", s \notin {"tables", "releasing", "unmark"},
         owned' = owned, ours' = ours, unremoved' = unremoved
  PROVE  Bystander
BY DEF OwnershipInv, Bystander, To, Procs

LEMMA IdleIsBystander ==
  ASSUME OwnershipInv, NEW q \in Procs, Idle(q), pc[q] # "off", owned' = owned, ours' = ours,
         unremoved' = unremoved
  PROVE  Bystander
<1>1. PICK s \in {"on", "off"} : To(q, s)
  BY DEF Idle
<1> QED
  BY <1>1, MoveIsBystander

LEMMA InitOwnership == Init => OwnershipInv
BY DEF Init, OwnershipInv, LeftoversAreOwned, Procs

LEMMA ApplyOwnership ==
  ASSUME OwnershipInv, NEW q \in Procs, Apply(q), Own(q) => q # "watcher"
  PROVE  OwnershipInv'
<1> USE BystanderKeeps
<1>1. CASE Prepare(q)
  BY <1>1, MoveIsBystander DEF Prepare, kernel, disk, history
<1>2. CASE Own(q)
  <2>1. q # "watcher" /\ pc["command"] # "releasing"
    BY <1>2 DEF Own, OwnershipInv, Procs, history
  <2> QED
    BY <1>2, <2>1 DEF Own, To, OwnershipInv, LeftoversAreOwned, Procs, kernel, history
<1>3. CASE Tables(q)
  BY <1>3 DEF Tables, To, OwnershipInv, LeftoversAreOwned, Procs, disk
<1>4. CASE Config(q)
  BY <1>4, MoveIsBystander DEF Config, kernel, disk, history
<1>5. CASE Filter(q)
  BY <1>5, MoveIsBystander DEF Filter, history
<1>6. CASE Sync(q)
  BY <1>6, MoveIsBystander DEF Sync, kernel, disk, history
<1>7. CASE SyncRoute(q)
  BY <1>7, MoveIsBystander DEF SyncRoute, disk, history
<1>8. CASE SyncSet(q)
  BY <1>8, MoveIsBystander DEF SyncSet, disk, history
<1>9. CASE Remember(q)
  BY <1>9, MoveIsBystander, IdleIsBystander DEF Remember, disk, kernel, history
<1>10. CASE Engine(q)
  BY <1>10, BystanderKeeps DEF Engine, StopWatcher, Bystander, OwnershipInv, Procs, disk, history
<1>11. CASE RouteTun(q)
  BY <1>11, IdleIsBystander DEF RouteTun, disk, history
<1> QED
  BY <1>1, <1>2, <1>3, <1>4, <1>5, <1>6, <1>7, <1>8, <1>9, <1>10, <1>11 DEF Apply

LEMMA OwnershipStep == OwnershipInv /\ [Next]_vars => OwnershipInv'
<1> SUFFICES ASSUME OwnershipInv, [Next]_vars PROVE OwnershipInv'
  OBVIOUS
<1> USE BystanderKeeps
<1>1. ASSUME NEW q \in Procs, Apply(q), Own(q) => q # "watcher" PROVE OwnershipInv'
  BY <1>1, ApplyOwnership
<1>2. ASSUME NEW r \in Rules, Change(r) PROVE OwnershipInv'
  BY <1>2 DEF Change, To, Bystander, OwnershipInv, Procs, kernel, history
<1>3. CASE ChangeFails
  <2>1. owned' = owned /\ ours' = ours /\ unremoved' = unremoved /\ pc["command"] # "off"
    BY <1>3 DEF ChangeFails, kernel, Fails, Busy, history
  <2>2. CASE To("command", "load")
    BY <2>1, <2>2, MoveIsBystander DEF Procs
  <2>3. CASE Idle("command")
    BY <2>1, <2>3, IdleIsBystander DEF Procs
  <2> QED
    BY <1>3, <2>2, <2>3 DEF ChangeFails
<1>4. CASE CommandDies
  BY <1>4, IdleIsBystander DEF CommandDies, Busy, kernel, disk, Procs, history
<1>5. CASE Watch
  BY <1>5 DEF Watch, To, Bystander, OwnershipInv, Procs, kernel, disk, history
<1>6. CASE WatchFails
  BY <1>6, IdleIsBystander DEF WatchFails, Fails, Busy, kernel, disk, Procs, history
<1>7. CASE Connect
  BY <1>7 DEF Connect, StopWatcher, Bystander, OwnershipInv, Procs, Releasing, history
<1>8. CASE Disconnected
  BY <1>8 DEF Disconnected, StopWatcher, Bystander, OwnershipInv, Procs, disk, history
<1>9. CASE EngineDies \/ EngineBack \/ EnsureRoute \/ Bridge
  BY <1>9 DEF EngineDies, EngineBack, EnsureRoute, Bridge, Bystander, OwnershipInv, disk, local, history
<1>10. CASE Release
  BY <1>10 DEF Release, To, OwnershipInv, LeftoversAreOwned, Procs, disk
<1>11. CASE ReleaseTables
  BY <1>11 DEF ReleaseTables, To, OwnershipInv, LeftoversAreOwned, Procs, disk
<1>12. CASE Unguard
  BY <1>12, IdleIsBystander DEF Unguard, disk, Procs, history
<1>13. CASE Reboot
  BY <1>13 DEF Reboot, OwnershipInv, LeftoversAreOwned, Procs
<1>14. CASE UNCHANGED vars
  <2>1. owned' = owned /\ ours' = ours /\ unremoved' = unremoved /\ pc' = pc
    BY <1>14 DEF vars, kernel, disk, local, history
  <2> QED
    BY <2>1 DEF OwnershipInv, LeftoversAreOwned
<1>15. ASSUME NEW q \in {"worker", "command"},
              \/ Prepare(q) \/ Own(q) \/ Tables(q) \/ Config(q) \/ Filter(q) \/ Sync(q)
              \/ Engine(q) \/ RouteTun(q)
       PROVE  OwnershipInv'
  <2>1. q \in Procs /\ q # "watcher" /\ Apply(q)
    BY <1>15 DEF Apply, Procs
  <2> QED
    BY <1>1, <2>1
<1>16. ASSUME NEW q \in Procs, SyncRoute(q) \/ SyncSet(q) \/ Remember(q) PROVE OwnershipInv'
  <2>1. Apply(q) /\ ~Own(q)
    BY <1>16 DEF Apply, Own, SyncRoute, SyncSet, Remember
  <2> QED
    BY <1>1, <2>1
<1>17. CASE Unmark
  BY <1>17 DEF Unmark, To, OwnershipInv, LeftoversAreOwned, Procs, kernel, history
<1> QED
  BY <1>2, <1>3, <1>4, <1>5, <1>6, <1>7, <1>8, <1>9, <1>10, <1>11, <1>12, <1>13, <1>14, <1>15, <1>16, <1>17
     DEF Next

(* What apply put into the kernel's tables carries the mark of ownership   *)
(* or is what a release failed to remove, for any policies and any number  *)
(* of crashes and reboots, with the worker, a command and the watcher      *)
(* between any two steps of each other.                                    *)
THEOREM PolicyLeftoversAreOwned == Spec => []LeftoversAreOwned
<1>1. Init => OwnershipInv
  BY InitOwnership
<1>2. OwnershipInv /\ [Next]_vars => OwnershipInv'
  BY OwnershipStep
<1>3. OwnershipInv => LeftoversAreOwned
  BY DEF OwnershipInv
<1> QED
  BY <1>1, <1>2, <1>3, PTL DEF Spec
-----------------------------------------------------------------------------
(* An apply that nothing disturbs.  Filled says which of the places hold   *)
(* the saved policy at each of its steps.                                  *)
Appliers == {"worker", "command"}
Loaded == {"own", "tables", "config", "filter"}
Placed == {"sync", "bridge", "set", "remember", "engine", "route"}

Guarded(t) == t = NoTable \/ (t = [rules |-> t.rules, net |-> t.net] /\ t.rules \in Rules)

Shape ==
  /\ pc = [q \in Procs |-> pc[q]] /\ p = [q \in Procs |-> p[q]]
  /\ file \in Rules /\ old \in Rules \cup {None}
  /\ \A q \in Appliers : pc[q] \in Loaded => p[q] \in Rules
  /\ Guarded(table) /\ Guarded(boot) /\ (table # NoTable => boot # NoTable)
  /\ pc["worker"] # "off" => table # NoTable /\ link
  /\ pc["command"] \in Releasing => pc["worker"] = "off"

Filled(q) ==
  /\ pc[q] \in Loaded => p[q] = file
  /\ pc[q] \in {"own", "tables", "config"} => staged = file
  /\ pc[q] = "tables" => owned
  /\ pc[q] \in {"config", "filter"} \cup Placed => owned /\ ours
  /\ pc[q] \in {"filter"} \cup Placed => cfg = file /\ staged = None
  /\ pc[q] \in Placed => table.rules = file /\ boot.rules = file
  /\ pc[q] = "route" => engine \in {file, None}

AloneInv ==
  alone => ~(Busy("worker") /\ Busy("command")) /\ \A q \in Appliers : Filled(q)
CleanInv ==
  clean => ~Busy("worker") /\ ~Busy("command") /\ ours /\ CleanIsWhole

WholeInv == Shape /\ AloneInv /\ CleanInv

LEMMA RulesAreSome == None \notin Rules
BY PolicyConstants

LEMMA InitWhole == Init => WholeInv
BY DEF Init, Releasing, WholeInv, Shape, AloneInv, CleanInv, Guarded, Procs, Appliers, Loaded, Placed

\* What touches neither an apply nor its places.
Aside ==
  /\ UNCHANGED <<file, old, staged, cfg, owned, ours, boot>>
  /\ pc' = [q \in Procs |-> pc'[q]] /\ p' = [q \in Procs |-> p'[q]]
  /\ \A q \in Appliers : pc'[q] = pc[q] /\ p'[q] = p[q]
  /\ table' = table \/ (table # NoTable /\ \E n : table' = [table EXCEPT !.net = n])
  /\ engine' \in {engine, cfg, None}
  /\ pc["worker"] # "off" => link'
  /\ (alone' => alone) /\ (clean' => clean)

LEMMA SetKeepsTable ==
  ASSUME Guarded(table),
         table' = table \/ (table # NoTable /\ \E n : table' = [table EXCEPT !.net = n])
  PROVE  table'.rules = table.rules /\ Guarded(table') /\ (table' # NoTable <=> table # NoTable)
<1>1. CASE table' = table
  BY <1>1
<1>2. CASE table # NoTable /\ \E n : table' = [table EXCEPT !.net = n]
  <2>1. PICK n : table' = [table EXCEPT !.net = n]
    BY <1>2
  <2>2. table = [rules |-> table.rules, net |-> table.net] /\ table.rules \in Rules
    BY <1>2 DEF Guarded
  <2>3. table' = [rules |-> table.rules, net |-> n]
    BY <2>1, <2>2
  <2> QED
    BY <1>2, <2>2, <2>3, RulesAreSome DEF Guarded, NoTable
<1> QED
  BY <1>1, <1>2

LEMMA AsideKeeps == WholeInv /\ Aside => WholeInv'
<1> SUFFICES ASSUME WholeInv, Aside PROVE WholeInv'
  OBVIOUS
<1>1. table'.rules = table.rules /\ Guarded(table') /\ (table' # NoTable <=> table # NoTable)
  BY SetKeepsTable DEF WholeInv, Shape, Aside
<1>2. \A q \in Appliers : pc'[q] = pc[q] /\ p'[q] = p[q]
  BY DEF Aside
<1>3. "worker" \in Appliers /\ "command" \in Appliers
  BY DEF Appliers
<1>4. Shape'
  BY <1>1, <1>2, <1>3 DEF WholeInv, Shape, Aside, Guarded, Releasing
<1>5. AloneInv'
  BY <1>1, <1>2, <1>3 DEF WholeInv, AloneInv, Aside, Filled, Busy, Placed
<1>6. CleanInv'
  BY <1>1, <1>2, <1>3 DEF WholeInv, CleanInv, CleanIsWhole, Aside, Busy
<1> QED
  BY <1>4, <1>5, <1>6 DEF WholeInv

LEMMA ApplyWhole ==
  ASSUME WholeInv, NEW q \in Appliers, Apply(q)
  PROVE  WholeInv'
<1> USE DEF Appliers, Procs, Loaded, Placed, Busy, Releasing
<1>0. /\ Busy(q) /\ ~clean
      /\ \A o \in Appliers \ {q} : alone => ~Busy(o)
  BY DEF Apply, Prepare, Own, Tables, Config, Filter, Sync, SyncRoute, SyncSet, Remember, Engine,
         RouteTun, WholeInv, AloneInv, CleanInv
<1>1. CASE Prepare(q)
  <2>1. Shape'
    BY <1>1 DEF WholeInv, Shape, Prepare, Look, To, kernel, disk
  <2>2. AloneInv'
    BY <1>0, <1>1 DEF WholeInv, Shape, AloneInv, Filled, Prepare, Look, To, kernel, disk, history
  <2>3. CleanInv'
    BY <1>0, <1>1 DEF CleanInv, Prepare, history
  <2> QED
    BY <2>1, <2>2, <2>3 DEF WholeInv
<1>2. CASE Own(q)
  <2>1. Shape'
    BY <1>2 DEF WholeInv, Shape, Own, To, kernel, runtime
  <2>2. AloneInv'
    BY <1>0, <1>2 DEF WholeInv, Shape, AloneInv, Filled, Own, To, kernel, runtime, history
  <2>3. CleanInv'
    BY <1>0, <1>2 DEF CleanInv, Own, history
  <2> QED
    BY <2>1, <2>2, <2>3 DEF WholeInv
<1>3. CASE Tables(q)
  <2>1. Shape'
    BY <1>3 DEF WholeInv, Shape, Tables, To, disk, runtime
  <2>2. AloneInv'
    BY <1>0, <1>3 DEF WholeInv, Shape, AloneInv, Filled, Tables, To, disk, runtime, history
  <2>3. CleanInv'
    BY <1>0, <1>3 DEF CleanInv, Tables, history
  <2> QED
    BY <2>1, <2>2, <2>3 DEF WholeInv
<1>4. CASE Config(q)
  <2>1. Shape'
    BY <1>4 DEF WholeInv, Shape, Config, To, disk, kernel
  <2>2. AloneInv'
    BY <1>0, <1>4 DEF WholeInv, Shape, AloneInv, Filled, Config, To, disk, kernel, history
  <2>3. CleanInv'
    BY <1>0, <1>4 DEF CleanInv, Config, history
  <2> QED
    BY <2>1, <2>2, <2>3 DEF WholeInv
<1>5. CASE Filter(q)
  <2>0. Guarded(table') /\ table' # NoTable /\ table'.rules = p[q]
    BY <1>5, RulesAreSome DEF WholeInv, Shape, Filter, Guarded, NoTable
  <2>1. Shape'
    BY <1>5, <2>0 DEF WholeInv, Shape, Filter, To
  <2>2. AloneInv'
    BY <1>0, <1>5, <2>0 DEF WholeInv, Shape, AloneInv, Filled, Filter, To, runtime, history
  <2>3. CleanInv'
    BY <1>0, <1>5 DEF CleanInv, Filter, history
  <2> QED
    BY <2>1, <2>2, <2>3 DEF WholeInv
<1>6. CASE Sync(q) \/ SyncRoute(q)
  <2>1. Shape'
    BY <1>6 DEF WholeInv, Shape, Sync, SyncRoute, Look, To, disk, kernel
  <2>2. AloneInv'
    <3>1. /\ pc[q] \in {"sync", "bridge"} /\ \E s \in {"bridge", "set"} : To(q, s)
          /\ UNCHANGED <<file, staged, cfg, table, boot, owned, ours, engine, p, history>>
      BY <1>6 DEF Sync, SyncRoute, disk, kernel, runtime
    <3> QED
      BY <1>0, <3>1 DEF WholeInv, Shape, AloneInv, Filled, To, history
  <2>3. CleanInv'
    BY <1>0, <1>6 DEF CleanInv, Sync, SyncRoute, history
  <2> QED
    BY <2>1, <2>2, <2>3 DEF WholeInv
<1>7. CASE SyncSet(q)
  <2>0. table'.rules = table.rules /\ Guarded(table') /\ (table' # NoTable <=> table # NoTable)
    BY <1>7, SetKeepsTable DEF WholeInv, Shape, SyncSet
  <2>1. Shape'
    BY <1>7, <2>0 DEF WholeInv, Shape, SyncSet, To, disk
  <2>2. AloneInv'
    BY <1>0, <1>7, <2>0 DEF WholeInv, Shape, AloneInv, Filled, SyncSet, To, disk, runtime, history
  <2>3. CleanInv'
    BY <1>0, <1>7 DEF CleanInv, SyncSet, history
  <2> QED
    BY <2>1, <2>2, <2>3 DEF WholeInv
<1>8. CASE Remember(q)
  <2>0. To(q, "engine") /\ UNCHANGED <<p, old>>
    BY <1>8 DEF Remember
  <2>1. Shape'
    BY <1>8, <2>0 DEF WholeInv, Shape, Remember, To, disk, kernel
  <2>2. AloneInv'
    BY <1>0, <1>8, <2>0 DEF WholeInv, Shape, AloneInv, Filled, Remember, To, disk, kernel, runtime, history
  <2>3. CleanInv'
    BY <1>0, <1>8 DEF CleanInv, Remember, history
  <2> QED
    BY <2>1, <2>2, <2>3 DEF WholeInv
<1>9. CASE Engine(q)
  <2>1. Shape'
    BY <1>9 DEF WholeInv, Shape, Engine, StopWatcher, disk
  <2>2. AloneInv'
    BY <1>0, <1>9 DEF WholeInv, Shape, AloneInv, Filled, Engine, StopWatcher, disk, runtime, history
  <2>3. CleanInv'
    BY <1>0, <1>9 DEF CleanInv, Engine, history
  <2> QED
    BY <2>1, <2>2, <2>3 DEF WholeInv
<1>10. CASE RouteTun(q)
  <2>0. \E s \in {"on", "off"} : To(q, s) /\ (q = "command" => s = "off")
    BY <1>10 DEF RouteTun, Idle
  <2>1. Shape'
    BY <1>10, <2>0 DEF WholeInv, Shape, RouteTun, Idle, To, disk
  <2>2. AloneInv'
    BY <1>0, <1>10, <2>0 DEF WholeInv, Shape, AloneInv, Filled, RouteTun, Idle, To, disk, runtime
  <2>3. CleanInv'
    BY <1>0, <1>10, <2>0 DEF WholeInv, Shape, AloneInv, Filled, CleanInv, CleanIsWhole, RouteTun, To, disk, runtime
  <2> QED
    BY <2>1, <2>2, <2>3 DEF WholeInv
<1> QED
  BY <1>1, <1>2, <1>3, <1>4, <1>5, <1>6, <1>7, <1>8, <1>9, <1>10 DEF Apply

LEMMA WatcherIsAside ==
  ASSUME WholeInv, SyncRoute("watcher") \/ SyncSet("watcher") \/ Remember("watcher")
  PROVE  Aside
<1> USE DEF Appliers, Procs, Releasing
<1>1. CASE SyncRoute("watcher")
  BY <1>1 DEF SyncRoute, Aside, To, WholeInv, Shape, disk, runtime, history
<1>2. CASE SyncSet("watcher")
  BY <1>2 DEF SyncSet, Aside, To, WholeInv, Shape, disk, runtime, history
<1>3. CASE Remember("watcher")
  <2>1. \E s \in {"on", "off"} : To("watcher", s)
    BY <1>3 DEF Remember, Idle
  <2> QED
    BY <1>3, <2>1 DEF Remember, Idle, Aside, To, WholeInv, Shape, disk, runtime, kernel, history
<1> QED
  BY <1>1, <1>2, <1>3

LEMMA WholeStep == WholeInv /\ [Next]_vars => WholeInv'
<1> SUFFICES ASSUME WholeInv, [Next]_vars PROVE WholeInv'
  OBVIOUS
<1> USE DEF Appliers, Procs, Releasing
<1>1. ASSUME NEW q \in Appliers, Apply(q) PROVE WholeInv'
  BY <1>1, ApplyWhole
<1>2. ASSUME NEW r \in Rules, Change(r) PROVE WholeInv'
  <2>1. ~clean' /\ file' = r /\ pc["command"] = "off" /\ table' = table /\ boot' = boot /\ link' = link
    BY <1>2 DEF Change, kernel
  <2>2. Shape'
    BY <1>2, <2>1 DEF WholeInv, Shape, Change, To, Loaded, Guarded
  <2>3. AloneInv'
    <3>1. CASE table # NoTable /\ link
      BY <1>2, <2>1, <3>1 DEF WholeInv, Shape, AloneInv, Filled, Change, To, Busy, Loaded, Placed
    <3>2. CASE ~(table # NoTable /\ link)
      <4>1. pc["worker"] = "off" /\ pc' = pc
        BY <1>2, <3>2 DEF WholeInv, Shape, Change
      <4> QED
        BY <2>1, <4>1 DEF AloneInv, Filled, Busy, Loaded, Placed
    <3> QED
      BY <3>1, <3>2
  <2> QED
    BY <2>1, <2>2, <2>3 DEF WholeInv, CleanInv
<1>3. CASE ChangeFails
  <2>1. /\ UNCHANGED <<table, boot, link, alone, clean>> /\ Busy("command")
        /\ pc["command"] \notin Releasing
    BY <1>3 DEF ChangeFails, Fails, kernel, history
  <2>2. CASE file' = old /\ old # None /\ old' = None /\ To("command", "load") /\ UNCHANGED p
    <3>1. Shape'
      BY <2>1, <2>2 DEF WholeInv, Shape, To, Loaded, Guarded
    <3>2. AloneInv'
      BY <2>1, <2>2 DEF WholeInv, Shape, AloneInv, Filled, To, Busy, Loaded, Placed
    <3> QED
      BY <2>1, <3>1, <3>2 DEF WholeInv, CleanInv
  <2>3. CASE Idle("command") /\ file' = file
    <3>1. Shape'
      BY <2>1, <2>3 DEF WholeInv, Shape, Idle, To, Loaded, Guarded
    <3>2. AloneInv'
      BY <1>3, <2>1, <2>3 DEF WholeInv, Shape, AloneInv, Filled, Idle, To, Busy, Loaded, Placed, ChangeFails,
                              runtime, kernel
    <3> QED
      BY <2>1, <3>1, <3>2 DEF WholeInv, CleanInv
  <2> QED
    BY <1>3, <2>2, <2>3 DEF ChangeFails
<1>4. CASE CommandDies
  <2>1. /\ UNCHANGED <<table, boot, link, alone, clean, file>> /\ Busy("command") /\ Idle("command")
        /\ UNCHANGED <<staged, cfg, ours, owned, engine>>
    BY <1>4 DEF CommandDies, kernel, history, disk, runtime
  <2>2. Shape'
    BY <2>1 DEF WholeInv, Shape, Idle, To, Loaded, Guarded
  <2>3. AloneInv'
    BY <2>1 DEF WholeInv, Shape, AloneInv, Filled, Idle, To, Busy, Loaded, Placed
  <2> QED
    BY <2>1, <2>2, <2>3 DEF WholeInv, CleanInv
<1>5. CASE Watch \/ WatchFails \/ EngineDies \/ EngineBack \/ EnsureRoute \/ Bridge
  <2>1. CASE Watch
    BY <2>1, AsideKeeps DEF Watch, Aside, To, Look, WholeInv, Shape, disk, runtime, kernel, history
  <2>2. CASE WatchFails
    <3>1. \E s \in {"on", "off"} : To("watcher", s)
      BY <2>2 DEF WatchFails, Idle
    <3> QED
      BY <2>2, <3>1, AsideKeeps DEF WatchFails, Aside, To, Idle, WholeInv, Shape, disk, runtime, kernel, history
  <2>3. CASE EngineDies \/ EngineBack \/ EnsureRoute \/ Bridge
    BY <2>3, AsideKeeps DEF EngineDies, EngineBack, EnsureRoute, Bridge, Aside, WholeInv, Shape, local,
                            disk, runtime, history
  <2> QED
    BY <1>5, <2>1, <2>2, <2>3
<1>6. ASSUME SyncRoute("watcher") \/ SyncSet("watcher") \/ Remember("watcher") PROVE WholeInv'
  BY <1>6, WatcherIsAside, AsideKeeps
<1>7. CASE Connect
  <2>1. Guarded(table') /\ table' # NoTable /\ boot' = table' /\ ~clean'
    BY <1>7, RulesAreSome DEF Connect, WholeInv, Shape, Guarded, NoTable
  <2>2. Shape'
    BY <1>7, <2>1 DEF WholeInv, Shape, Connect, StopWatcher, Loaded
  <2>3. AloneInv'
    BY <1>7, <2>1 DEF AloneInv, WholeInv, Shape, Filled, Connect, StopWatcher, Busy, Loaded, Placed
  <2> QED
    BY <2>1, <2>2, <2>3 DEF WholeInv, CleanInv
<1>8. CASE Disconnected
  <2>1. /\ UNCHANGED <<table, boot, file, staged, cfg, ours, owned, alone, clean, old>> /\ engine' = None
        /\ pc' = [[pc EXCEPT !["worker"] = "off"] EXCEPT !["watcher"] = "off"]
        /\ p' = [p EXCEPT !["worker"] = None]
    BY <1>8 DEF Disconnected, Down, StopWatcher, disk, runtime, history
  <2>2. Shape'
    BY <2>1 DEF WholeInv, Shape, Loaded, Guarded
  <2>3. AloneInv'
    BY <2>1 DEF WholeInv, Shape, AloneInv, Filled, Busy, Loaded, Placed
  <2>4. CleanInv'
    BY <2>1 DEF WholeInv, Shape, CleanInv, CleanIsWhole, Busy
  <2> QED
    BY <2>2, <2>3, <2>4 DEF WholeInv
<1>9. CASE Release \/ ReleaseTables \/ Unmark \/ Unguard
  <2>1. /\ pc["command"] \in {"off", "releasing", "unmark", "unguard"} /\ pc["worker"] = "off" /\ UNCHANGED <<file, boot>>
        /\ \E s \in {"off", "releasing", "unmark", "unguard"} : pc' = [pc EXCEPT !["command"] = s]
        /\ p' = [q \in Procs |-> p'[q]] /\ old' \in Rules \cup {None}
        /\ table' \in {table, NoTable}
    BY <1>9 DEF Release, ReleaseTables, Unmark, Unguard, To, Idle, WholeInv, Shape, disk, kernel
  <2>2. Shape'
    BY <2>1 DEF WholeInv, Shape, Loaded, Guarded
  <2>3. AloneInv'
    BY <2>1 DEF WholeInv, Shape, AloneInv, Filled, Busy, Loaded, Placed
  <2>4. ~clean'
    BY <1>9 DEF WholeInv, CleanInv, Busy, Release, ReleaseTables, Unmark, Unguard, history
  <2> QED
    BY <2>2, <2>3, <2>4 DEF WholeInv, CleanInv
<1>10. CASE Reboot
  <2>1. Shape'
    BY <1>10 DEF Reboot, WholeInv, Shape, Loaded, Guarded, disk
  <2> QED
    BY <1>10, <2>1 DEF Reboot, WholeInv, AloneInv, CleanInv
<1>11. CASE UNCHANGED vars
  <2>1. /\ UNCHANGED <<file, old, staged, cfg, owned, ours, boot, pc, p, table, engine, link, alone, clean>>
    BY <1>11 DEF vars, runtime, kernel, disk, local, history
  <2> QED
    BY <2>1, AsideKeeps DEF Aside, WholeInv, Shape
<1>12. ASSUME NEW q \in Appliers,
              \/ Prepare(q) \/ Own(q) \/ Tables(q) \/ Config(q) \/ Filter(q) \/ Sync(q)
              \/ Engine(q) \/ RouteTun(q) \/ SyncRoute(q) \/ SyncSet(q) \/ Remember(q)
       PROVE  WholeInv'
  BY <1>1, <1>12 DEF Apply
<1> QED
  BY <1>2, <1>3, <1>4, <1>5, <1>6, <1>7, <1>8, <1>9, <1>10, <1>11, <1>12 DEF Next

LEMMA WholeAlways == Spec => []WholeInv
<1>1. Init => WholeInv
  BY InitWhole
<1>2. WholeInv /\ [Next]_vars => WholeInv'
  BY WholeStep
<1> QED
  BY <1>1, <1>2, PTL DEF Spec

(* An apply that ran alone to its end leaves one policy in the file, the   *)
(* engine's configuration, the filter and the file a reboot loads it from, *)
(* whatever half-done changes and deaths left before it.                   *)
THEOREM PolicyCleanIsWhole == Spec => []CleanIsWhole
<1>1. WholeInv => CleanIsWhole
  BY DEF WholeInv, CleanInv, CleanIsWhole
<1> QED
  BY <1>1, WholeAlways, PTL

(* No packet leaves directly that filter or engine do not exclude, and     *)
(* after such an apply those that do are the ones the saved policy         *)
(* excludes: the filter, the tables, the route and the engine agree.       *)
THEOREM PolicyOnlyExcludedLeave == Spec => []OnlyExcludedLeave
<1>1. WholeInv => OnlyExcludedLeave
  <2> SUFFICES ASSUME WholeInv PROVE OnlyExcludedLeave
    OBVIOUS
  <2>1. ASSUME NEW k \in Kinds, Fate(k) = "direct"
        PROVE  Excludes(table.rules, k) \/ (engine # None /\ Excludes(engine, k))
    BY <2>1 DEF Fate, Mark, EngineOut, Tunnel, Kinds, Excludes
  <2>2. ASSUME clean, engine # None, route, NEW k \in Kinds
        PROVE  Fate(k) = "direct" <=> Excludes(file, k)
    <3>1. table.rules = file /\ engine = file /\ ours
      BY <2>2 DEF WholeInv, CleanInv, CleanIsWhole
    <3> QED
      BY <2>2, <3>1 DEF Fate, Mark, EngineOut, Tunnel, Kinds, Excludes
  <2> QED
    BY <2>1, <2>2 DEF OnlyExcludedLeave
<1> QED
  BY <1>1, WholeAlways, PTL
=============================================================================
