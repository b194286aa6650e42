----------------------------- MODULE Supervisor -----------------------------
(***************************************************************************)
(* The Linux client's tunnel supervisor, src/starfive_tunnel.py: the       *)
(* worker of the systemd unit, the vpnctl commands connect, repair and     *)
(* disconnect (one at a time, under operation.lock; the worker does not    *)
(* take that lock), and the kill switch they share.                        *)
(*                                                                         *)
(* What the kernel holds is lost at a reboot, what is on disk stays; both  *)
(* processes may die between any two steps.  The filter is one bit here:   *)
(* guard closes the physical interface for everything but the tunnel.      *)
(***************************************************************************)
EXTENDS Ranking, FiniteSets

CONSTANTS Resolvers,   \* contents others write to /etc/resolv.conf
          MaxFaults,   \* bound of crashes, command failures and reboots
          MaxIgnored,  \* bound of the removals that have failed and stand
          MaxChanges,  \* bound of the changes of the surroundings
          Own,         \* /etc/resolv.conf is the supervisor's own file
          None         \* no path, no content

ASSUME SupervisorAssumption ==
  /\ None \notin Paths /\ None \notin Resolvers /\ Own \notin Resolvers
  /\ Own # None /\ NoRanking \notin Rankings
  /\ MaxFaults \in Nat /\ MaxIgnored \in Nat /\ MaxChanges \in Nat

VARIABLES
  state,       \* full-network.json: none, inactive or active
  original,    \* its resolver_original
  ruleFile,    \* full-guard.nft is written
  enabled,     \* the guard's unit is enabled
  ranking,     \* ranking.json
  recalibrate, \* the marker file of a repair
  resolver,    \* /etc/resolv.conf
  guard,       \* the nft table is in the kernel
  rules,       \* the ip rules that send traffic to the tunnel's table
  route,       \* the tunnel's default route in that table
  wire,        \* the path the tunnel runs on
  pc,          \* the worker's next step, "off" when the unit is not running
  job,         \* the job systemd runs on the unit
  current, failures, slow,   \* the worker's local variables
  cli,         \* the step of the command that holds operation.lock
  phase,       \* the stage shown to the user
  up, good,    \* the physical link; the paths that work
  promised,    \* history: connected since the last explicit disconnect
  leftover,    \* history: what a release went past without having removed it
  foreign,     \* history: what others last wrote to /etc/resolv.conf
  faults, changes

disk    == <<state, original, ruleFile, enabled>>
rank    == <<ranking, recalibrate>>
kernel  == <<guard, rules, route, wire>>
worker  == <<pc, job, current, failures, slow>>
world   == <<up, good, foreign, changes>>
history == <<promised, leftover>>
vars == <<disk, rank, resolver, kernel, worker, cli, phase, world, history, faults>>

Starting   == {"clean", "prepare", "measure", "unmark"}
Activating == {"guard", "file", "enable", "switch", "resolver", "announce"}
Running    == {"connect", "watch", "lost", "clear", "exit", "post"}
Releasing  == {"restore", "rules", "disable", "drop", "unlink"}

Reachable(p) == p # None /\ up /\ p \in good
\* full_rule_collision: rules of ours without the state file are taken for
\* another program's, and no path can be brought up.
Collides == state = "none" /\ rules
Stopping == job # "none"
-----------------------------------------------------------------------------
Init ==
  /\ state = "none" /\ original = None /\ ruleFile = FALSE /\ enabled = FALSE
  /\ ranking = NoRanking /\ recalibrate = FALSE
  /\ resolver \in Resolvers /\ foreign = resolver
  /\ guard = FALSE /\ rules = FALSE /\ route = FALSE /\ wire = None
  /\ pc = "off" /\ job = "none" /\ current = None /\ failures = 0 /\ slow = 0
  /\ cli = "idle" /\ phase = "off"
  /\ up = TRUE /\ good = Paths
  /\ promised = FALSE /\ leftover = {}
  /\ faults = 0 /\ changes = 0

To(label) == pc' = label /\ UNCHANGED <<job, current, failures, slow>>

\* stop_candidate and cleanup: the tunnel and its route go, nothing else.
MutantTakeDown == /\ wire' = None /\ route' = FALSE  \* mutant: releases the guard
                  /\ guard' = FALSE /\ UNCHANGED rules
TakeDown == /\ wire' = None /\ route' = FALSE
            /\ UNCHANGED <<guard, rules>>

\* use_resolver_file: remember what was there, once, then install our own.
UseResolverFile ==
  /\ original' = IF original = None THEN resolver ELSE original
  /\ resolver' = Own
  /\ UNCHANGED <<state, ruleFile, enabled>>

(* The worker: prepare, choose a path.                                     *)
WorkerClean ==
  /\ pc = "clean"
  /\ TakeDown
  /\ ruleFile' = (ruleFile \/ guard)  \* refresh_retained_guard
  /\ To("prepare") /\ phase' = "prepare"
  /\ UNCHANGED <<state, original, enabled, rank, resolver, cli, world, history, faults>>

\* There is no physical route to set the network up on, or the token is refused
\* or the server out of reach: the worker ends in "failed".
SetupFails ==
  /\ pc = "prepare" /\ ~up
  /\ phase' = "failed" /\ To("exit")
  /\ UNCHANGED <<disk, rank, resolver, kernel, cli, world, history, faults>>

EnrollFails ==
  /\ pc = "prepare" /\ up /\ faults < MaxFaults
  /\ faults' = faults + 1
  /\ phase' = "failed" /\ To("exit")
  /\ UNCHANGED <<disk, rank, resolver, kernel, cli, world, history>>

PrepareFails == SetupFails \/ EnrollFails

MutantPrepare ==  \* mutant: the saved ranking is not used
  /\ pc = "prepare" /\ up
  /\ IF recalibrate THEN ranking' = ranking /\ current' = None /\ pc' = "measure"
     ELSE /\ ranking' = Bootstrap
          /\ current' = FirstOf(ranking', Candidates(ranking'))
          /\ pc' = "connect"
  /\ UNCHANGED <<disk, recalibrate, resolver, kernel, job, failures, slow, cli,
                 phase, world, history, faults>>
Prepare ==
  /\ pc = "prepare" /\ up
  /\ IF recalibrate THEN ranking' = ranking /\ current' = None /\ pc' = "measure"
     ELSE /\ ranking' = IF ranking = NoRanking \/ Candidates(ranking) = {}
                        THEN Bootstrap ELSE ranking
          /\ current' = FirstOf(ranking', Candidates(ranking'))
          /\ pc' = "connect"
  /\ UNCHANGED <<disk, recalibrate, resolver, kernel, job, failures, slow, cli,
                 phase, world, history, faults>>

\* A repair probes every path; a probe that gets through creates the state.
Measure ==
  /\ pc = "measure" /\ ~Stopping
  /\ \E ok \in SUBSET {p \in Paths : Reachable(p) /\ ~Collides} :
     \E o \in OrdersOf(ok) :
       /\ ranking' = Build(ok, o)
       /\ state' = IF state = "none" /\ ok # {} THEN "inactive" ELSE state
  /\ To("unmark") /\ phase' = "ranking"
  /\ UNCHANGED <<original, ruleFile, enabled, recalibrate, resolver, kernel, cli,
                 world, history, faults>>

Unmark ==
  /\ pc = "unmark"
  /\ recalibrate' = FALSE
  /\ current' = FirstOf(ranking, Candidates(ranking)) /\ pc' = "connect"
  /\ UNCHANGED <<disk, ranking, resolver, kernel, job, failures, slow, cli,
                 phase, world, history, faults>>

(* start_candidate: carrier, IKE, data plane, egress check.                *)
StartCandidate ==
  /\ pc = "connect" /\ ~Stopping /\ Reachable(current) /\ ~Collides
  /\ wire' = current
  /\ state' = IF state = "none" THEN "inactive" ELSE state
  /\ To("guard") /\ phase' = "handshake"
  /\ UNCHANGED <<original, ruleFile, enabled, rank, resolver, guard, rules,
                 route, cli, world, history, faults>>

CandidateFails ==
  /\ pc = "connect" /\ ~Stopping /\ (~Reachable(current) \/ Collides)
  /\ \/ state' = state
     \/ ~Collides /\ state = "none" /\ state' = "inactive"
  /\ To("lost") /\ phase' = "handshake"
  /\ UNCHANGED <<original, ruleFile, enabled, rank, resolver, kernel, cli,
                 world, history, faults>>

(* activate_full: close, persist, switch, resolve, test, announce.         *)
InstallGuard ==
  /\ pc = "guard" /\ Reachable(wire)
  /\ guard' = TRUE /\ leftover' = leftover \ {"guard"}
  /\ To("file") /\ phase' = "routing"
  /\ UNCHANGED <<disk, rank, resolver, rules, route, wire, cli, world, promised, faults>>

PersistFile ==
  /\ pc = "file"
  /\ ruleFile' = TRUE
  /\ To("enable")
  /\ UNCHANGED <<state, original, enabled, rank, resolver, kernel, cli, phase,
                 world, history, faults>>

PersistUnit ==
  /\ pc = "enable"
  /\ enabled' = TRUE /\ leftover' = leftover \ {"unit"}
  /\ To("switch")
  /\ UNCHANGED <<state, original, ruleFile, rank, resolver, kernel, cli, phase,
                 world, promised, faults>>

SwitchTraffic ==
  /\ pc = "switch"
  /\ route' = TRUE /\ rules' = TRUE /\ leftover' = leftover \ {"rules"}
  /\ To("resolver")
  /\ UNCHANGED <<disk, rank, resolver, guard, wire, cli, phase, world, promised, faults>>

\* systemd-resolved gets a link entry, or the resolver file is replaced.
SwitchResolver ==
  /\ pc = "resolver"
  /\ UseResolverFile \/ UNCHANGED <<disk, resolver>>
  /\ To("announce")
  /\ UNCHANGED <<rank, kernel, cli, phase, world, history, faults>>

\* policy.apply, the DNS repair if needed, the test of the host's egress.
Announce ==
  /\ pc = "announce" /\ Reachable(wire)
  /\ \/ UNCHANGED <<original, resolver>>
     \/ /\ original' = IF original = None THEN resolver ELSE original
        /\ resolver' = Own
  /\ state' = "active"
  /\ pc' = "watch" /\ failures' = 0 /\ slow' = 0
  /\ phase' = "connected" /\ promised' = TRUE
  /\ UNCHANGED <<ruleFile, enabled, rank, kernel, job, current, cli, world,
                 leftover, faults>>

ActivationFails ==
  /\ pc \in Activating /\ (~Reachable(wire) \/ faults < MaxFaults)
  /\ faults' = IF Reachable(wire) THEN faults + 1 ELSE faults
  /\ To("lost")
  /\ UNCHANGED <<disk, rank, resolver, kernel, cli, phase, world, history>>

(* The watch loop: every five seconds path_healthy, sometimes the speed.   *)
Healthy ==
  /\ pc = "watch" /\ ~Stopping /\ Reachable(wire)
  /\ UseResolverFile \/ UNCHANGED <<disk, resolver>>  \* recover_system_dns
  /\ failures' = 0 /\ phase' = "connected"
  /\ \/ slow' = slow /\ pc' = pc                \* no sample is due
     \/ slow' = 0 /\ pc' = pc                   \* a good or missing sample
     \/ /\ slow' = slow + 1                     \* a degraded one
        /\ pc' = IF slow' >= 3 THEN "lost" ELSE pc
  /\ UNCHANGED <<rank, kernel, job, current, cli, world, history, faults>>

Unhealthy ==
  /\ pc = "watch" /\ ~Stopping /\ ~Reachable(wire)
  /\ failures' = failures + 1
  /\ IF failures' >= 2 THEN pc' = "lost" /\ UNCHANGED phase
     ELSE pc' = pc /\ phase' = "checking"
  /\ UNCHANGED <<disk, rank, resolver, kernel, job, current, slow, cli, world,
                 history, faults>>

\* A missing physical interface is not a transport's defeat.
MutantCharge ==  \* mutant: the next path is not taken
  /\ pc = "lost" /\ ~Stopping
  /\ ranking' = IF up THEN Lose(ranking, current) ELSE ranking
  /\ pc' = "clear" /\ phase' = "repairing"
  /\ UNCHANGED <<disk, current, recalibrate, resolver, kernel, job, failures, slow,
                 cli, world, history, faults>>
Charge ==
  /\ pc = "lost" /\ ~Stopping
  /\ IF up THEN /\ ranking' = Lose(ranking, current)
                /\ current' = NextAfter(ranking', current, None)
     ELSE UNCHANGED <<ranking, current>>
  /\ pc' = "clear" /\ phase' = "repairing"
  /\ UNCHANGED <<disk, recalibrate, resolver, kernel, job, failures, slow, cli,
                 world, history, faults>>

Clear ==
  /\ pc = "clear"
  /\ TakeDown
  /\ IF current # None THEN To("connect") /\ UNCHANGED phase
     ELSE To("exit") /\ phase' = IF Stopping THEN phase ELSE "failed"
  /\ UNCHANGED <<disk, rank, resolver, cli, world, history, faults>>

\* STOP is seen where the loops look at it; the exit cleans up once more.
MutantSeeStop ==  \* mutant: a stop is taken for a lost connection
  /\ Stopping /\ pc \in {"measure", "connect", "watch", "lost"}
  /\ To(IF pc = "measure" THEN "exit" ELSE "clear")
  /\ UNCHANGED <<disk, rank, resolver, kernel, cli, phase, world, history, faults>>
SeeStop ==
  /\ Stopping /\ pc \in {"measure", "connect", "watch", "lost"}
  /\ To("exit")
  /\ UNCHANGED <<disk, rank, resolver, kernel, cli, phase, world, history, faults>>

Off == pc' = "off" /\ current' = None /\ failures' = 0 /\ slow' = 0

WorkerExit ==
  /\ pc = "exit"
  /\ TakeDown
  /\ Off /\ UNCHANGED job
  /\ phase' = IF Stopping THEN "off" ELSE phase
  /\ UNCHANGED <<disk, rank, resolver, cli, world, history, faults>>

Work == \/ WorkerClean \/ Prepare \/ Measure \/ Unmark \/ StartCandidate
        \/ CandidateFails \/ InstallGuard \/ PersistFile \/ PersistUnit
        \/ SwitchTraffic \/ SwitchResolver \/ Announce \/ Healthy \/ Unhealthy
        \/ Charge \/ Clear \/ SeeStop \/ WorkerExit
        \/ SetupFails \/ (ActivationFails /\ ~Reachable(wire))
-----------------------------------------------------------------------------
(* systemd.  A worker that dies is cleaned up after (ExecStopPost) and     *)
(* started again (Restart=on-failure), unless it is being stopped.         *)
WorkerDies ==
  /\ pc \notin {"off", "post"} /\ faults < MaxFaults
  /\ faults' = faults + 1
  /\ To("post")
  /\ UNCHANGED <<disk, rank, resolver, kernel, cli, phase, world, history>>

StopPost ==
  /\ pc = "post"
  /\ TakeDown
  /\ IF Stopping THEN Off ELSE /\ pc' = "clean"
                              /\ UNCHANGED <<current, failures, slow>>
  /\ UNCHANGED <<disk, rank, resolver, job, cli, phase, world, history, faults>>

JobDone ==
  /\ Stopping /\ pc = "off"
  /\ job' = "none"
  /\ pc' = IF job = "restart" THEN "clean" ELSE "off"
  /\ UNCHANGED <<disk, rank, resolver, kernel, current, failures, slow, cli,
                 phase, world, history, faults>>

(* vpnctl.  connect and repair only start the unit; it works on its own.   *)
\* start leaves a running worker alone and waits for one that stops.
Connect ==
  /\ cli = "idle"
  /\ IF pc = "off" THEN pc' = "clean" /\ job' = "none"
     ELSE pc' = pc /\ job' = IF Stopping THEN "restart" ELSE "none"
  /\ phase' = "starting"
  /\ UNCHANGED <<disk, rank, resolver, kernel, current, failures, slow, cli,
                 world, history, faults>>

Repair ==
  /\ cli = "idle"
  /\ recalibrate' = TRUE
  /\ IF pc = "off" THEN pc' = "clean" /\ job' = "none"
     ELSE pc' = pc /\ job' = "restart"
  /\ phase' = "starting"
  /\ UNCHANGED <<disk, ranking, resolver, kernel, current, failures, slow, cli,
                 world, history, faults>>

\* save_token, for another account: only while the unit is not running.
SaveToken ==
  /\ cli = "idle" /\ pc = "off" /\ job = "none"
  /\ ranking' = NoRanking /\ recalibrate' = FALSE
  /\ phase' = "off"
  /\ UNCHANGED <<disk, resolver, kernel, worker, cli, world, history, faults>>

BeginDisconnect ==
  /\ cli = "idle"
  /\ cli' = "stop"
  /\ job' = IF pc = "off" THEN "none" ELSE "stop"
  /\ UNCHANGED <<disk, rank, resolver, kernel, pc, current, failures, slow,
                 phase, world, history, faults>>

\* systemctl stop has returned; cleanup, and nothing to release if no state.
MutantStopped ==  \* mutant: the unit is not waited for
  /\ cli = "stop"
  /\ TakeDown
  /\ cli' = IF state = "none" THEN "done" ELSE "restore"
  /\ UNCHANGED <<disk, rank, resolver, worker, phase, world, history, faults>>
Stopped ==
  /\ cli = "stop" /\ pc = "off" /\ job = "none"
  /\ TakeDown
  /\ cli' = IF state = "none" THEN "done" ELSE "restore"
  /\ UNCHANGED <<disk, rank, resolver, worker, phase, world, history, faults>>

\* cleanup_full(release=True), step by step.  Others' changes stay.  The rules,
\* the unit and the filter are removed with check=False: the release goes on
\* past a removal that failed.
RestoreResolver ==
  /\ cli = "restore"
  /\ resolver' = IF original # None /\ resolver = Own THEN original ELSE resolver
  /\ cli' = "rules" /\ promised' = FALSE
  /\ UNCHANGED <<disk, rank, kernel, worker, phase, world, leftover,
                 faults>>

Removed(thing) == leftover' = leftover \ {thing}
Ignored(thing) == /\ Cardinality(leftover \cup {thing}) <= MaxIgnored
                  /\ leftover' = leftover \cup {thing}

DropRules ==
  /\ cli = "rules"
  /\ route' = FALSE
  /\ \/ rules' = FALSE /\ Removed("rules")
     \/ rules /\ rules' = TRUE /\ Ignored("rules")
  /\ cli' = "disable"
  /\ UNCHANGED <<disk, rank, resolver, guard, wire, worker, phase, world,
                 promised, faults>>

DisableGuard ==
  /\ cli = "disable"
  /\ \/ enabled' = FALSE /\ Removed("unit")
     \/ enabled /\ enabled' = TRUE /\ Ignored("unit")
  /\ cli' = "drop"
  /\ UNCHANGED <<state, original, ruleFile, rank, resolver, kernel, worker,
                 phase, world, promised, faults>>

MutantDropGuard ==  \* mutant: the state goes before the guard
  /\ cli = "drop"
  /\ state' = "none" /\ original' = None
  /\ cli' = "unlink"
  /\ UNCHANGED <<ruleFile, enabled, rank, resolver, kernel, worker, phase, world,
                 history, faults>>
DropGuard ==
  /\ cli = "drop"
  /\ \/ guard' = FALSE /\ Removed("guard")
     \/ guard /\ guard' = TRUE /\ Ignored("guard")
  /\ cli' = "unlink"
  /\ UNCHANGED <<disk, rank, resolver, rules, route, wire, worker, phase, world,
                 promised, faults>>

UnlinkState ==
  /\ cli = "unlink"
  /\ state' = "none" /\ original' = None
  /\ cli' = "done"
  /\ UNCHANGED <<ruleFile, enabled, rank, resolver, kernel, worker, phase, world,
                 history, faults>>

EndDisconnect ==
  /\ cli = "done"
  /\ cli' = "idle" /\ phase' = "off"
  /\ UNCHANGED <<disk, rank, resolver, kernel, worker, world, history, faults>>

\* The command is interrupted, or waits for systemd longer than 25 seconds.
CliDies ==
  /\ cli # "idle" /\ faults < MaxFaults
  /\ faults' = faults + 1
  /\ cli' = "idle"
  /\ UNCHANGED <<disk, rank, resolver, kernel, worker, phase, world, history>>

Disconnecting == \/ Stopped \/ RestoreResolver \/ DropRules \/ DisableGuard
                 \/ DropGuard \/ UnlinkState \/ EndDisconnect

(* The host and its network.                                               *)
\* The guard's unit loads the file before the network comes up, a unit that
\* could not be disabled too.
Reboot ==
  /\ faults < MaxFaults
  /\ faults' = faults + 1
  /\ guard' = (enabled /\ ruleFile) /\ rules' = FALSE
  /\ leftover' = IF "unit" \in leftover THEN {"unit", "guard"} ELSE {}
  /\ route' = FALSE /\ wire' = None
  /\ Off /\ job' = "none" /\ cli' = "idle"
  /\ UNCHANGED <<disk, rank, resolver, phase, world, promised>>

ChangeWorld ==
  /\ changes < MaxChanges
  /\ changes' = changes + 1
  /\ \/ up' = ~up /\ UNCHANGED <<good, resolver, foreign>>
     \/ /\ \E p \in Paths : good' = (good \ {p}) \cup ({p} \ good)
        /\ UNCHANGED <<up, resolver, foreign>>
     \/ /\ \E c \in Resolvers : resolver' = c /\ foreign' = c
        /\ UNCHANGED <<up, good>>
  /\ UNCHANGED <<disk, rank, kernel, worker, cli, phase, history, faults>>
-----------------------------------------------------------------------------
Next ==
  \/ WorkerClean \/ PrepareFails \/ Prepare \/ Measure \/ Unmark
  \/ StartCandidate \/ CandidateFails
  \/ InstallGuard \/ PersistFile \/ PersistUnit \/ SwitchTraffic
  \/ SwitchResolver \/ Announce \/ ActivationFails
  \/ Healthy \/ Unhealthy \/ Charge \/ Clear \/ SeeStop \/ WorkerExit
  \/ WorkerDies \/ StopPost \/ JobDone
  \/ Connect \/ Repair \/ SaveToken \/ BeginDisconnect \/ Disconnecting \/ CliDies
  \/ Reboot \/ ChangeWorld

Spec == Init /\ [][Next]_vars

\* The worker, systemd and a running command go on; users owe nothing.
FairSpec == /\ Spec
            /\ WF_vars(Work) /\ WF_vars(StopPost \/ JobDone)
            /\ WF_vars(Disconnecting)
-----------------------------------------------------------------------------
(* Properties.                                                             *)

TypeOK ==
  /\ state \in {"none", "inactive", "active"}
  /\ original \in Resolvers \cup {Own, None}
  /\ ruleFile \in BOOLEAN /\ enabled \in BOOLEAN
  /\ ranking \in Rankings \cup {NoRanking} /\ recalibrate \in BOOLEAN
  /\ resolver \in Resolvers \cup {Own} /\ foreign \in Resolvers
  /\ guard \in BOOLEAN /\ rules \in BOOLEAN /\ route \in BOOLEAN
  /\ wire \in Paths \cup {None} /\ current \in Paths \cup {None}
  /\ pc \in {"off"} \cup Starting \cup Activating \cup Running
  /\ job \in {"none", "stop", "restart"}
  /\ failures \in 0..2 /\ slow \in 0..3
  /\ cli \in {"idle", "stop", "done"} \cup Releasing
  /\ phase \in {"off", "starting", "prepare", "ranking", "handshake", "routing",
                "connected", "checking", "repairing", "failed"}
  /\ up \in BOOLEAN /\ good \subseteq Paths
  /\ promised \in BOOLEAN /\ leftover \subseteq {"rules", "unit", "guard"}
  /\ faults \in Nat /\ changes \in Nat

(* The kill switch: once the user was told "connected", ordinary traffic   *)
(* has no way around the tunnel until an explicit disconnect, over lost    *)
(* paths, repairs, crashes of either process and reboots (README.md:131).  *)
ProtectionHolds == promised => guard

(* Whatever blocks the network can be undone: the guard, its unit and the  *)
(* ip rules never stand without full-network.json, without which           *)
(* cleanup_full(release=True) returns before it undoes anything, except    *)
(* the very thing whose removal a release tried, failed to do and went     *)
(* past (and the guard that a unit left that way loads at a reboot).       *)
BlockCanBeUndone ==
  state = "none" => /\ guard   => "guard" \in leftover
                    /\ enabled => "unit"  \in leftover
                    /\ rules   => "rules" \in leftover

(* A disconnect that reports success has stopped the worker, given the     *)
(* resolver back and removed the state file; of the guard, its unit and    *)
(* the rules only what could not be removed is left, and what was removed  *)
(* after an earlier failure is no longer counted as left.                  *)
DisconnectRestores ==
  cli = "done" => /\ pc = "off" /\ resolver # Own /\ state = "none"
                  /\ guard   => "guard" \in leftover
                  /\ enabled => "unit"  \in leftover
                  /\ rules   => "rules" \in leftover

(* The losses of a path are not forgotten as long as some path is left to  *)
(* try: only a recalibration takes them back.  With every path excluded a  *)
(* plain connect measures anew and forgets them, so that one can connect.  *)
LossesSurviveWhileUsable ==
  [][ranking # NoRanking /\ ranking' # NoRanking /\ ~recalibrate
       /\ Candidates(ranking) # {} =>
       \A p \in Paths : ranking'.losses[p] >= ranking.losses[p]]_vars

(* With the link up, the worker does not repair forever: again and again   *)
(* it is connected, or has given up.                                       *)
RecoveryEnds == []<>(~up \/ pc = "off" \/ (pc = "watch" /\ failures = 0))

(* A disconnect always ends, however the worker's stop was interrupted.    *)
DisconnectEnds == cli = "stop" ~> cli = "idle"
-----------------------------------------------------------------------------
(* The inductive invariant behind the first three safety properties.       *)

\* The order of activate_full: closed, on disk, enabled, and only then used.
ClosedFirst ==
  /\ pc \in {"file", "enable", "switch", "resolver", "announce"} => guard
  /\ pc \in {"enable", "switch", "resolver", "announce"} => ruleFile
  /\ pc \in {"switch", "resolver", "announce"} => enabled
  /\ pc \in {"watch"} \cup Activating => state # "none"
\* The order of cleanup_full, which works alone.
ReleasedInOrder ==
  /\ cli \in {"done"} \cup Releasing => pc = "off" /\ job = "none"
  /\ cli \in {"rules", "disable", "drop", "unlink"} =>
       ~promised /\ resolver # Own
  /\ cli \in {"disable", "drop", "unlink"} => (rules => "rules" \in leftover)
  /\ cli \in {"drop", "unlink"} => (enabled => "unit" \in leftover)
  /\ cli = "unlink" => (guard => "guard" \in leftover)
\* What was promised survives a reboot.
PromiseIsDurable == promised => guard /\ ruleFile /\ enabled
\* An own resolver file can be given back.
ResolverIsSaved ==
  /\ resolver \in Resolvers \cup {Own} /\ original \in Resolvers \cup {None}
  /\ resolver = Own => original # None
  /\ state = "none" => original = None

SafetyInv == /\ ClosedFirst /\ ReleasedInOrder /\ PromiseIsDurable
             /\ ResolverIsSaved /\ BlockCanBeUndone /\ DisconnectRestores

(* The inductive invariant behind the ranking's properties.                *)

Trying == {"connect", "watch", "lost"} \cup Activating
\* A worker past its choice of a path has a ranking; one that measures was
\* asked to, and all paths are candidates of what it measured.
RankingIsThere ==
  /\ pc \in {"unmark", "clear"} \cup Trying => ranking # NoRanking
  /\ pc \in {"measure", "unmark"} => recalibrate
  /\ pc = "unmark" => Candidates(ranking) = Paths
\* The path it tries, or takes next, is not excluded.
CurrentIsCandidate ==
  /\ pc \in Trying => current \in Candidates(ranking)
  /\ pc = "clear" => current \in Candidates(ranking) \cup {None}
  /\ pc \in {"watch"} \cup Activating => wire = current
\* The counters of the watch loop have not reached their limits in it.
LimitsAreAhead == pc = "watch" => failures < 2 /\ slow < 3

(* The tunnel is only ever brought up and watched over a path that has not *)
(* lost three times, whatever is measured, charged and restarted between.  *)
TunnelUsesCandidate ==
  pc \in {"watch"} \cup Activating => wire \in Candidates(ranking)

RankingInv == TypeOK /\ RankingIsThere /\ CurrentIsCandidate /\ LimitsAreAhead
=============================================================================
