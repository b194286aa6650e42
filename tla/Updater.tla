------------------------------- MODULE Updater -------------------------------
(* vpnctl's updates: `vpn update', `manager-rollback' and install.sh with  *)
(* the releases and the links to them, finish_installation with its marker,*)
(* and the retirement of the old VPN, with Xray's binary, over interruptions. *)
EXTENDS Naturals

CONSTANTS
  Versions,      \* each in a directory of its name under releases
  Fresh,         \* the directory install.sh makes, and the version in it
  FreshVersion,
  Procs,         \* commands running at a time
  MaxRuns,       \* bound: commands
  MaxFaults,     \* bound: interruptions, reboots and failed steps
  None

ASSUME UpdaterConstants ==
  /\ FreshVersion \in Versions /\ Fresh \notin Versions
  /\ None \notin Versions \cup {Fresh} \cup Procs
  /\ {MaxRuns, MaxFaults} \subseteq Nat

VARIABLES
  rel,           \* releases: "none", "half" or "whole"
  current, previous,
  pending,       \* install-pending exists
  proc,          \* what a command is at
  lock,          \* the holder of operation.lock
  worker,        \* the tunnel's unit runs
  xray, xprev,   \* Xray and xray.previous: "none", "half", "old" or "safe"
  complete,      \* install-complete.json exists
  old, oldguard, \* the old VPN's unit, "left" if it runs on without its file; its table
  guard, marker, \* the new filter, with its unit; unified-migrated
  wish,          \* history: the user was promised protection
  exposed,       \* history: the table's unit was not active when it was retired
  owed,          \* history: the restart of the tunnel that new links owe, see Lapses
  stale,         \* history: a release was unpacked where it was in use, see Lock, Local
  runs, faults

links  == <<rel, current, previous>>
binary == <<xray, xprev, complete>>
legacy == <<old, oldguard, guard, marker, wish, exposed>>
vars   == <<links, binary, pending, proc, lock, worker, legacy, owed, stale, runs, faults>>

Dirs   == Versions \cup {Fresh}
Ver(d) == IF d = Fresh THEN FreshVersion ELSE d
Ended  == [at |-> "none", op |-> "none", code |-> None, dest |-> None,
           re |-> FALSE, pend |-> FALSE, active |-> FALSE]

Init ==
  /\ \E v \in Versions : /\ current = v /\ worker \in BOOLEAN
                         /\ rel = [d \in Dirs |-> IF d = v THEN "whole" ELSE "none"]
  /\ previous = None /\ pending = FALSE
  /\ proc = [p \in Procs |-> Ended] /\ lock = None
  /\ old \in {"up", "gone"} /\ oldguard = (old = "up") /\ (oldguard => ~worker)
  /\ guard = worker /\ wish = (oldguard \/ guard) /\ exposed = FALSE
  /\ xray \in {"none", "old"} /\ xprev = "none" /\ complete = FALSE
  /\ marker = FALSE /\ owed = "none" /\ stale = FALSE /\ runs = 0 /\ faults = 0

Fault == faults < MaxFaults /\ faults' = faults + 1
At(p, at) == proc[p].at = at
Goto(p, at) == proc' = [proc EXCEPT ![p].at = at]
\* The command ends; a lock it holds is released with its descriptor.
End(p) == /\ proc' = [proc EXCEPT ![p] = Ended]
          /\ lock' = IF lock = p THEN None ELSE lock

\* New links owe a running tunnel a restart, which only the command knows of
\* until finish_installation writes its marker.  Cut or refused before, nobody
\* does, unless the marker of an earlier one stands and no other is finishing.
Carries(p) == proc[p].at = "exec" \/ (proc[p].re /\ proc[p].at \in {"wait", "finish"})
Lapses(p)  == owed = "due" /\ Carries(p) /\ ~(pending /\ lock \in {None, p})
Cut(p)     == End(p) /\ owed' = IF Lapses(p) THEN "forgotten" ELSE owed
-----------------------------------------------------------------------------
(* main() and operation_guard                                              *)
Start(p, op) ==
  /\ proc[p] = Ended /\ runs < MaxRuns /\ runs' = runs + 1
  /\ op \in {"update", "rollback", "off"} => rel[current] = "whole"
  /\ op = "pause" => worker
  /\ proc' = [proc EXCEPT ![p] = [Ended EXCEPT !.at = IF op = "pause" THEN "retire" ELSE "wait",
                                               !.op = op, !.code = Ver(current)]]
  /\ UNCHANGED <<binary, links, pending, lock, worker, legacy, owed, stale, faults>>

\* `vpn-manager-admin local' takes no lock: it may work beside another command,
\* or on the release that is in use.
Unlocked(q) == proc[q].op = "local"
Local(p, v) ==
  /\ proc[p] = Ended /\ runs < MaxRuns /\ runs' = runs + 1 /\ rel[current] = "whole"
  /\ proc' = [proc EXCEPT ![p] = [Ended EXCEPT !.at = "unpack", !.op = "local", !.dest = v]]
  /\ stale' = (stale \/ v = current \/ lock # None \/ \E q \in Procs : Unlocked(q))
  /\ UNCHANGED <<binary, links, pending, lock, worker, legacy, owed, faults>>

\* install.sh has files of its own; the others run what was current.
Lock(p) ==
  /\ At(p, "wait") /\ lock = None
  /\ lock' = p
  /\ Goto(p, proc[p].op)
  /\ stale' = (stale \/ (proc[p].op = "update" /\ proc[p].code # Ver(current))
                    \/ \E q \in Procs : Unlocked(q))
  /\ UNCHANGED <<binary, links, pending, worker, legacy, owed, runs, faults>>

\* Fifteen seconds of waiting.
Busy(p) ==
  /\ At(p, "wait") /\ lock # None
  /\ Cut(p) /\ UNCHANGED <<binary, links, pending, worker, legacy, stale, runs, faults>>

\* manager_update_manifest: the manifest offers any version.
SameVersion(p, v) == v = proc[p].code

Check(p, v) ==
  /\ At(p, "update")
  /\ proc' = IF SameVersion(p, v) THEN [proc EXCEPT ![p].at = "finish", ![p].re = FALSE]
             ELSE [proc EXCEPT ![p].at = "unpack", ![p].dest = v]
  /\ UNCHANGED <<binary, links, pending, lock, worker, legacy, owed, stale, runs, faults>>

\* rmtree and copytree are two steps in which the directory is incomplete.
Unpack(p) ==
  /\ At(p, "unpack")
  /\ rel' = [rel EXCEPT ![proc[p].dest] = "half"] /\ Goto(p, "copy")
  /\ UNCHANGED <<binary, current, previous, pending, lock, worker, legacy, owed, stale, runs, faults>>

Copy(p) ==
  /\ At(p, "copy")
  /\ rel' = [rel EXCEPT ![proc[p].dest] = "whole"]
  /\ Goto(p, IF proc[p].op = "install" THEN "previous" ELSE "unlink")
  /\ UNCHANGED <<binary, current, previous, pending, lock, worker, legacy, owed, stale, runs, faults>>

Unlink(p) ==
  /\ At(p, "unlink") /\ previous' = None /\ Goto(p, "previous")
  /\ UNCHANGED <<binary, rel, current, pending, lock, worker, legacy, owed, stale, runs, faults>>

Previous(p) ==
  /\ At(p, "previous") /\ previous' = current /\ Goto(p, "swap")
  /\ UNCHANGED <<binary, rel, current, pending, lock, worker, legacy, owed, stale, runs, faults>>

\* os.replace of the link, then of /usr/local/sbin/vpnctl, which leads to it.
\* A rollback never restarts the tunnel.
Swap(p) ==
  /\ At(p, "swap") /\ current' = proc[p].dest
  /\ Goto(p, IF proc[p].op = "rollback" THEN "files" ELSE "exec")
  /\ owed' = IF worker /\ proc[p].op # "rollback" THEN "due" ELSE owed
  /\ UNCHANGED <<binary, rel, previous, pending, lock, worker, legacy, stale, runs, faults>>

\* The releases and the links to them, the same in vpnctl and vpnadmin.
Relink(p) == Unpack(p) \/ Copy(p) \/ Unlink(p) \/ Previous(p) \/ Swap(p)

\* execv closes the lock's descriptor; internal-after-update waits for it anew.
Exec(p) ==
  /\ At(p, "exec") /\ lock' = IF lock = p THEN None ELSE lock
  /\ proc' = [proc EXCEPT ![p] = [Ended EXCEPT !.at = "wait", !.op = "finish", !.re = TRUE,
                                               !.code = Ver(current)]]
  /\ UNCHANGED <<binary, links, pending, worker, legacy, owed, stale, runs, faults>>

\* manager_rollback runs the target's self-test first.
Rollback(p) ==
  /\ At(p, "rollback")
  /\ IF previous # None /\ rel[previous] = "whole"
     THEN proc' = [proc EXCEPT ![p].at = "swap", ![p].dest = previous] /\ lock' = lock
     ELSE End(p)
  /\ UNCHANGED <<binary, links, pending, worker, legacy, owed, stale, runs, faults>>

Install(p) ==
  /\ At(p, "install") /\ rel[Fresh] = "none"
  /\ proc' = [proc EXCEPT ![p].at = "unpack", ![p].dest = Fresh]
  /\ UNCHANGED <<binary, links, pending, lock, worker, legacy, owed, stale, runs, faults>>
-----------------------------------------------------------------------------
(* finish_installation                                                     *)
Finish(p) ==
  /\ At(p, "finish")
  /\ proc' = [proc EXCEPT ![p].at = "files", ![p].pend = pending]
  /\ pending' = TRUE
  /\ owed' = IF proc[p].re /\ worker THEN "due" ELSE owed
  /\ UNCHANGED <<binary, links, lock, worker, legacy, stale, runs, faults>>

\* Links and wrappers, which come first; manager_rollback ends with them.
Files(p) ==
  /\ At(p, "files")
  /\ \/ /\ faults' = faults
        /\ IF proc[p].op = "rollback" THEN End(p) ELSE Goto(p, "gui") /\ lock' = lock
     \/ Fault /\ End(p)
  /\ UNCHANGED <<binary, links, pending, worker, legacy, owed, stale, runs>>

\* A step that leaves these files alone and may raise.
MayRaise(p, at, next) ==
  /\ At(p, at)
  /\ \/ Goto(p, next) /\ UNCHANGED <<lock, faults>>
     \/ Fault /\ End(p)
  /\ UNCHANGED <<binary, links, pending, worker, legacy, owed, stale, runs>>

Gui(p) == MayRaise(p, "gui", "packages")
\* ensure_dependencies: packages and the tunnel's own binary, by its checksum.
Packages(p) == MayRaise(p, "packages", "core")

\* core_update: the checked download is put beside, the old binary kept.
Core(p) ==
  /\ At(p, "core")
  /\ IF xray = "safe" THEN Goto(p, "active") /\ xprev' = xprev
     ELSE Goto(p, "replace") /\ xprev' = IF xray = "none" THEN xprev ELSE xray
  /\ UNCHANGED <<links, xray, complete, pending, lock, worker, legacy, owed, stale, runs, faults>>

Replace(p) ==
  /\ At(p, "replace") /\ xray' = "safe"
  /\ \/ Goto(p, "active") /\ faults' = faults
     \/ Fault /\ Goto(p, "comeback")
  /\ UNCHANGED <<links, xprev, complete, pending, lock, worker, legacy, owed, stale, runs>>

\* The new binary did not come up: the old one is copied back, and fail().
ComeBack(p) ==
  /\ At(p, "comeback")
  /\ IF xprev = "none" THEN End(p) /\ xray' = xray
     ELSE xray' = "half" /\ Goto(p, "copyback") /\ lock' = lock
  /\ UNCHANGED <<links, xprev, complete, pending, worker, legacy, owed, stale, runs, faults>>

CopyBack(p) ==
  /\ At(p, "copyback") /\ xray' = xprev /\ End(p)
  /\ UNCHANGED <<links, xprev, complete, pending, worker, legacy, owed, stale, runs, faults>>

OldActive == old \in {"up", "left"}

\* was_active and has_token: who had the old VPN only may have no token yet.
WasActive(p) ==
  /\ At(p, "active")
  /\ \E on \in {worker, OldActive \/ worker} :
       proc' = [proc EXCEPT ![p].at = "retire", ![p].active = on]
  /\ UNCHANGED <<binary, links, pending, lock, worker, legacy, owed, stale, runs, faults>>

\* retire_legacy: the filter stands before the old VPN is stopped, if its unit
\* is active; the table of one that failed is deleted without.
Retire(p) ==
  /\ At(p, "retire")
  /\ IF marker THEN Goto(p, "retired") /\ UNCHANGED <<guard, exposed>>
     ELSE /\ Goto(p, "disable") /\ guard' = (guard \/ OldActive)
          /\ exposed' = (exposed \/ (oldguard /\ ~guard'))
  /\ UNCHANGED <<binary, links, pending, lock, worker, old, oldguard, marker, wish, owed, stale, runs, faults>>

\* A failed systemctl is ignored, the unit's file goes all the same.
Disable(p) ==
  /\ At(p, "disable") /\ Goto(p, "table")
  /\ old' \in {"gone", IF OldActive THEN "left" ELSE "gone"}
  /\ UNCHANGED <<binary, links, pending, lock, worker, oldguard, guard, marker, wish, exposed, owed, stale, runs, faults>>

\* A failed nft is ignored.
Table(p) ==
  /\ At(p, "table") /\ oldguard' \in {FALSE, oldguard} /\ Goto(p, "marker")
  /\ UNCHANGED <<binary, links, pending, lock, worker, old, guard, marker, wish, exposed, owed, stale, runs, faults>>

Marker(p) ==
  /\ At(p, "marker") /\ marker' = TRUE /\ Goto(p, "retired")
  /\ UNCHANGED <<binary, links, pending, lock, worker, old, oldguard, guard, wish, exposed, owed, stale, runs, faults>>

MutantReconnects(p) == proc[p].active /\ proc[p].re

Reconnects(p) == proc[p].active /\ (proc[p].re \/ proc[p].pend)

\* The worker's own call ends here; connect(repair=True) may raise.  The unit
\* it starts runs what the links lead to.
Reconnect(p) ==
  /\ At(p, "retired")
  /\ \/ /\ proc[p].op = "pause" /\ End(p)
        /\ UNCHANGED <<worker, guard, wish, owed, faults>>
     \/ /\ proc[p].op # "pause" /\ Goto(p, "complete") /\ lock' = lock /\ faults' = faults
        /\ IF Reconnects(p)
           THEN worker' = TRUE /\ guard' = TRUE /\ wish' = TRUE /\ owed' = "none"
           ELSE UNCHANGED <<worker, guard, wish, owed>>
     \/ /\ proc[p].op # "pause" /\ Reconnects(p) /\ Fault /\ End(p)
        /\ UNCHANGED <<worker, guard, wish, owed>>
  /\ UNCHANGED <<binary, links, pending, old, oldguard, marker, exposed, stale, runs>>

Complete(p) ==
  /\ At(p, "complete") /\ pending' = FALSE /\ complete' = TRUE /\ End(p)
  /\ UNCHANGED <<links, xray, xprev, worker, legacy, owed, stale, runs, faults>>
-----------------------------------------------------------------------------
(* Around them: vpn off, a tunnel that dies, interruptions.                *)
Off(p) ==
  /\ At(p, "off") /\ End(p)
  /\ worker' = FALSE /\ guard' = FALSE /\ wish' = FALSE /\ owed' = "none"
  /\ UNCHANGED <<binary, links, pending, old, oldguard, marker, exposed, stale, runs, faults>>

WorkerDies ==
  /\ worker /\ Fault
  /\ worker' = FALSE /\ owed' = "none"
  /\ UNCHANGED <<binary, links, pending, proc, lock, legacy, stale, runs>>

\* The old VPN's unit fails or is stopped, its kill switch stands.
OldDies ==
  /\ OldActive /\ Fault
  /\ old' = IF old = "up" THEN "down" ELSE "gone"
  /\ UNCHANGED <<binary, links, pending, proc, lock, worker, oldguard, guard, marker, wish, exposed, owed, stale, runs>>

\* Four attempts at a download have failed, or what came is not what was promised.
DownloadFails(p) ==
  /\ At(p, "update") \/ (At(p, "core") /\ xray # "safe")
  /\ Fault /\ End(p)
  /\ UNCHANGED <<binary, links, pending, worker, legacy, owed, stale, runs>>

\* The ten minutes' alarm, a signal, an exception of the file system.
Interrupted(p) ==
  /\ proc[p] # Ended /\ Fault /\ Cut(p)
  /\ UNCHANGED <<binary, links, pending, worker, legacy, stale, runs>>

\* The old unit brings its table back, the guard's unit the new filter.
Reboot ==
  /\ Fault /\ proc' = [p \in Procs |-> Ended] /\ lock' = None
  /\ worker' = FALSE /\ owed' = "none"
  /\ old' = IF old \in {"up", "down"} THEN "up" ELSE "gone"
  /\ oldguard' = (old' = "up")
  /\ UNCHANGED <<binary, links, pending, guard, marker, wish, exposed, stale, runs>>

Next ==
  \/ \E p \in Procs :
       \/ \E op \in {"update", "rollback", "install", "pause", "off"} : Start(p, op)
       \/ \E v \in Versions : Check(p, v) \/ Local(p, v)
       \/ Lock(p) \/ Busy(p) \/ Relink(p) \/ Exec(p)
       \/ Rollback(p) \/ Install(p) \/ Finish(p) \/ Files(p) \/ Gui(p) \/ Packages(p) \/ Core(p) \/ Replace(p) \/ ComeBack(p)
       \/ CopyBack(p) \/ WasActive(p) \/ DownloadFails(p) \/ Retire(p) \/ Disable(p) \/ Table(p)
       \/ Marker(p) \/ Reconnect(p) \/ Complete(p) \/ Off(p) \/ Interrupted(p)
  \/ WorkerDies \/ OldDies \/ Reboot

Spec == Init /\ [][Next]_vars
-----------------------------------------------------------------------------
CurrentIsWhole == stale \/ rel[current] = "whole"
RestartIsNotForgotten == owed = "due" => pending \/ \E p \in Procs : Carries(p)
XrayIsSafe == complete => xray = "safe"
MigrationKeepsProtection == wish => guard \/ oldguard \/ exposed

\* However an update is cut, it can be repeated and nothing is lost meanwhile:
\* the command the link leads to is whole; the restart that new links owe to a
\* running tunnel is known to the command that made them or marked as pending;
\* an installation that was completed has the Xray that was checked; and the
\* protection the user was promised has no gap while the old VPN is retired.
\* Four things are excepted, for the code does not do them.  For the first, a
\* command that got the lock after its own release had been replaced, and a local
\* update, which takes no lock, beside another command or of the release in use
\* (stale).  For the second, a command cut or refused between its links and its
\* marker: the repetition finds its own version, marks nothing of a restart, and
\* the tunnel runs the old code on (Lapses).  For the last, an old VPN whose unit
\* had failed under its kill switch when it was retired: the switch is deleted
\* and no filter raised (exposed).
InterruptedUpdateIsSafe ==
  CurrentIsWhole /\ RestartIsNotForgotten /\ XrayIsSafe /\ MigrationKeepsProtection
-----------------------------------------------------------------------------
(* The inductive invariant behind it.  Steps of the same command are named  *)
(* by what the lock protects and by how far finish_installation has come.   *)

Moving    == {"unpack", "copy", "unlink", "previous", "swap"}
Upgrading == {"replace", "comeback", "copyback"}
Retiring  == {"retire", "disable", "table", "marker", "retired"}
Finishing == {"files", "gui", "packages", "core", "active", "complete"} \cup Upgrading \cup Retiring
Labels    == {"none", "wait", "update", "rollback", "install", "off", "exec", "finish"}
               \cup Moving \cup Finishing
Job == [at : Labels, op : {"none", "update", "rollback", "install", "pause", "off", "local", "finish"},
        code : Versions \cup {None}, dest : Dirs \cup {None},
        re : BOOLEAN, pend : BOOLEAN, active : BOOLEAN]

CommandsOK == proc \in [Procs -> Job] /\ lock \in Procs \cup {None}
FilesOK ==
  /\ rel \in [Dirs -> {"none", "half", "whole"}]
  /\ current \in Dirs /\ previous \in Dirs \cup {None}
  /\ xray \in {"none", "half", "old", "safe"} /\ xprev \in {"none", "half", "old"}
  /\ runs \in Nat /\ faults \in Nat
FlagsOK ==
  /\ pending \in BOOLEAN /\ complete \in BOOLEAN /\ old \in {"up", "down", "left", "gone"}
  /\ oldguard \in BOOLEAN /\ guard \in BOOLEAN /\ marker \in BOOLEAN
  /\ wish \in BOOLEAN /\ exposed \in BOOLEAN /\ stale \in BOOLEAN
  /\ worker \in BOOLEAN
  /\ owed \in {"none", "due", "forgotten"}
\* What is unpacked or linked to has a name, what waits or finishes has a task.
TaskFits == \A p \in Procs : LET at == proc[p].at  op == proc[p].op IN
  /\ at \in Moving => proc[p].dest # None
  /\ at = "wait" => op \in {"update", "rollback", "install", "off", "finish"}
  /\ at = "wait" /\ proc[p].re => op = "finish"
  /\ at \in {"update", "finish"} => op \in {"update", "finish"}
  /\ at \in Finishing =>
       \/ op \in {"update", "finish"}
       \/ op = "rollback" /\ at = "files"
       \/ op = "pause" /\ at \in Retiring
TypeOK == CommandsOK /\ FilesOK /\ FlagsOK /\ TaskFits

\* Which commands go on beside others: those that wait, the worker's own call
\* of retire_legacy, and local.  The lock is held by all the others.
Aside(p) == \/ proc[p].at \in {"none", "wait"}
            \/ proc[p].op = "pause" /\ proc[p].at \in Retiring
            \/ proc[p].op = "local" /\ proc[p].at \in Moving \cup {"exec"}
OneAtATime == \A p \in Procs : Aside(p) \/ lock = p

\* As long as no command was stale, no other touches the links beside local.
LocalIsAlone ==
  \A p \in Procs : proc[p].op = "local" =>
    stale \/ (lock = None /\ \A q \in Procs \ {p} : proc[q].op # "local")

\* The release that is being made is not the one in use, the one the link is
\* about to lead to is whole.
MovesKeepCurrent ==
  \A p \in Procs : stale \/
    /\ proc[p].at = "update" => proc[p].code = Ver(current)
    /\ proc[p].at \in {"unpack", "copy"} => proc[p].dest \in Dirs \ {current}
    /\ proc[p].at \in {"unlink", "previous", "swap"} =>
         proc[p].dest \in Dirs /\ rel[proc[p].dest] = "whole"

\* finish_installation: Xray is safe as soon as it has been checked.
FinishKnows ==
  \A p \in Procs : proc[p].at \in Finishing /\ proc[p].op \in {"update", "finish"} =>
    /\ proc[p].at \in Upgrading => ~complete
    /\ proc[p].at \in Retiring \cup {"active", "complete"} => xray = "safe"

\* A restart that is owed: a command still carries it to its marker, or it is
\* marked and whoever is finishing took the marker down and will act on it.
Remembers(p) ==
  proc[p].at \in Finishing /\ proc[p].op \in {"update", "finish"} =>
    /\ proc[p].re \/ proc[p].pend
    /\ proc[p].at \in Retiring => proc[p].active
    /\ proc[p].at # "complete"
RestartIsKnown ==
  /\ owed # "none" => worker
  /\ owed = "due" => \/ \E p \in Procs : Carries(p)
                     \/ pending /\ \A p \in Procs : Remembers(p)

RetiringIsGuarded ==
  /\ \A p \in Procs : proc[p].at \in {"disable", "table"} => (wish => guard \/ exposed)
  /\ old \in {"left", "gone"} => (wish => guard \/ exposed)

UpdaterInv ==
  /\ TypeOK /\ OneAtATime /\ LocalIsAlone /\ MovesKeepCurrent /\ FinishKnows
  /\ RestartIsKnown /\ RetiringIsGuarded /\ InterruptedUpdateIsSafe
=============================================================================
