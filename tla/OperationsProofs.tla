-------------------------- MODULE OperationsProofs --------------------------
(***************************************************************************)
(* Proofs about what is around the tunnels: the updates of the client      *)
(* (Updater), voluntary reports (Reports) and the egress of the server     *)
(* (Egress), each for all values of its constants.  The three components   *)
(* have nothing in common; the definitions of Reports and Egress are        *)
(* reached through R and E, what these promise is said of ReportFiles and  *)
(* EgressKernel.                                                           *)
(***************************************************************************)
EXTENDS Updater, ReportFiles, EgressKernel, TLAPS

CONSTANTS MaxIds, Contents, Collectors, Web, Threads, PerHour, DayCap,
          WebLimit, MaxSends, MaxHours

VARIABLES preview, thread, locks, limits, hour, attempts, sends, losses

R == INSTANCE Reports WITH lock <- locks, faults <- losses

CONSTANTS MaxRepairs, MaxStarts

VARIABLES owned, hold, repairs, relay, ingress, relayJob, ingressJob,
          syncJob, at, failures, torn, meant, link, linkJob, starts, refused

E == INSTANCE Egress WITH faults <- failures
-----------------------------------------------------------------------------
(* Updates.  The steps of a command, one after the other.                  *)
Commands == {"update", "rollback", "install", "pause", "off"}
CommandStep(p) ==
  \/ \E op \in Commands : Start(p, op)
  \/ \E v \in Versions : Check(p, v) \/ Local(p, v)
  \/ Lock(p) \/ Busy(p) \/ Relink(p) \/ Exec(p)
  \/ Rollback(p) \/ Install(p) \/ Finish(p) \/ Files(p) \/ Gui(p) \/ Packages(p)
  \/ Core(p) \/ Replace(p) \/ ComeBack(p) \/ CopyBack(p) \/ WasActive(p)
  \/ DownloadFails(p) \/ Retire(p) \/ Disable(p) \/ Table(p) \/ Marker(p)
  \/ Reconnect(p) \/ Complete(p) \/ Off(p) \/ Interrupted(p)

LEMMA NextByCommand ==
  Next <=> (\E p \in Procs : CommandStep(p)) \/ WorkerDies \/ OldDies \/ Reboot
BY DEF Next, CommandStep, Commands

\* A step of one command leaves the others alone.
LEMMA OthersStay ==
  ASSUME CommandsOK, NEW p \in Procs, CommandStep(p)
  PROVE  \A q \in Procs : q # p => proc'[q] = proc[q]
<1> USE UpdaterConstants DEF CommandsOK, Goto, End
<1>1. ASSUME NEW op \in Commands, Start(p, op)
      PROVE  \A q \in Procs : q # p => proc'[q] = proc[q]
  BY <1>1 DEF Start
<1>2. ASSUME NEW v \in Versions, Local(p, v)
      PROVE  \A q \in Procs : q # p => proc'[q] = proc[q]
  BY <1>2 DEF Local, Unlocked
<1>3. ASSUME NEW v \in Versions, Check(p, v)
      PROVE  \A q \in Procs : q # p => proc'[q] = proc[q]
  BY <1>3 DEF Check, SameVersion
<1>4. CASE Lock(p)
  BY <1>4 DEF Lock, Unlocked
<1>5. CASE Busy(p)
  BY <1>5 DEF Busy, Cut
<1>6. CASE Unpack(p)
  BY <1>6 DEF Unpack
<1>7. CASE Copy(p)
  BY <1>7 DEF Copy
<1>8. CASE Unlink(p)
  BY <1>8 DEF Unlink
<1>9. CASE Previous(p)
  BY <1>9 DEF Previous
<1>10. CASE Swap(p)
  BY <1>10 DEF Swap
<1>11. CASE Exec(p)
  BY <1>11 DEF Exec
<1>12. CASE Rollback(p)
  BY <1>12 DEF Rollback
<1>13. CASE Install(p)
  BY <1>13 DEF Install
<1>14. CASE Finish(p)
  BY <1>14 DEF Finish
<1>15. CASE Files(p)
  BY <1>15 DEF Files, Fault
<1>16. CASE Gui(p)
  BY <1>16 DEF Gui, MayRaise, Fault
<1>17. CASE Packages(p)
  BY <1>17 DEF Packages, MayRaise, Fault
<1>18. CASE Core(p)
  BY <1>18 DEF Core
<1>19. CASE Replace(p)
  BY <1>19 DEF Replace, Fault
<1>20. CASE ComeBack(p)
  BY <1>20 DEF ComeBack
<1>21. CASE CopyBack(p)
  BY <1>21 DEF CopyBack
<1>22. CASE WasActive(p)
  BY <1>22 DEF WasActive, OldActive
<1>23. CASE DownloadFails(p)
  BY <1>23 DEF DownloadFails, Fault
<1>24. CASE Retire(p)
  BY <1>24 DEF Retire, OldActive
<1>25. CASE Disable(p)
  BY <1>25 DEF Disable, OldActive
<1>26. CASE Table(p)
  BY <1>26 DEF Table
<1>27. CASE Marker(p)
  BY <1>27 DEF Marker
<1>28. CASE Reconnect(p)
  BY <1>28 DEF Reconnect, Reconnects, Fault
<1>29. CASE Complete(p)
  BY <1>29 DEF Complete
<1>30. CASE Off(p)
  BY <1>30 DEF Off
<1>31. CASE Interrupted(p)
  BY <1>31 DEF Interrupted, Cut, Fault
<1> QED
  BY <1>1, <1>2, <1>3, <1>4, <1>5, <1>6, <1>7, <1>8, <1>9, <1>10, <1>11,
     <1>12, <1>13, <1>14, <1>15, <1>16, <1>17, <1>18, <1>19, <1>20, <1>21,
     <1>22, <1>23, <1>24, <1>25, <1>26, <1>27, <1>28, <1>29, <1>30, <1>31
  DEF CommandStep, Relink

\* ... and makes no command of what is none.
LEMMA StillCommands ==
  ASSUME CommandsOK, NEW p \in Procs, CommandStep(p)
  PROVE  proc' = [q \in Procs |-> proc'[q]]
<1> USE UpdaterConstants DEF CommandsOK, Goto, End
<1>1. ASSUME NEW op \in Commands, Start(p, op)
      PROVE  proc' = [q \in Procs |-> proc'[q]]
  BY <1>1 DEF Start
<1>2. ASSUME NEW v \in Versions, Local(p, v)
      PROVE  proc' = [q \in Procs |-> proc'[q]]
  BY <1>2 DEF Local, Unlocked
<1>3. ASSUME NEW v \in Versions, Check(p, v)
      PROVE  proc' = [q \in Procs |-> proc'[q]]
  BY <1>3 DEF Check, SameVersion
<1>4. CASE Lock(p)
  BY <1>4 DEF Lock, Unlocked
<1>5. CASE Busy(p)
  BY <1>5 DEF Busy, Cut
<1>6. CASE Unpack(p)
  BY <1>6 DEF Unpack
<1>7. CASE Copy(p)
  BY <1>7 DEF Copy
<1>8. CASE Unlink(p)
  BY <1>8 DEF Unlink
<1>9. CASE Previous(p)
  BY <1>9 DEF Previous
<1>10. CASE Swap(p)
  BY <1>10 DEF Swap
<1>11. CASE Exec(p)
  BY <1>11 DEF Exec
<1>12. CASE Rollback(p)
  BY <1>12 DEF Rollback
<1>13. CASE Install(p)
  BY <1>13 DEF Install
<1>14. CASE Finish(p)
  BY <1>14 DEF Finish
<1>15. CASE Files(p)
  BY <1>15 DEF Files, Fault
<1>16. CASE Gui(p)
  BY <1>16 DEF Gui, MayRaise, Fault
<1>17. CASE Packages(p)
  BY <1>17 DEF Packages, MayRaise, Fault
<1>18. CASE Core(p)
  BY <1>18 DEF Core
<1>19. CASE Replace(p)
  BY <1>19 DEF Replace, Fault
<1>20. CASE ComeBack(p)
  BY <1>20 DEF ComeBack
<1>21. CASE CopyBack(p)
  BY <1>21 DEF CopyBack
<1>22. CASE WasActive(p)
  BY <1>22 DEF WasActive, OldActive
<1>23. CASE DownloadFails(p)
  BY <1>23 DEF DownloadFails, Fault
<1>24. CASE Retire(p)
  BY <1>24 DEF Retire, OldActive
<1>25. CASE Disable(p)
  BY <1>25 DEF Disable, OldActive
<1>26. CASE Table(p)
  BY <1>26 DEF Table
<1>27. CASE Marker(p)
  BY <1>27 DEF Marker
<1>28. CASE Reconnect(p)
  BY <1>28 DEF Reconnect, Reconnects, Fault
<1>29. CASE Complete(p)
  BY <1>29 DEF Complete
<1>30. CASE Off(p)
  BY <1>30 DEF Off
<1>31. CASE Interrupted(p)
  BY <1>31 DEF Interrupted, Cut, Fault
<1> QED
  BY <1>1, <1>2, <1>3, <1>4, <1>5, <1>6, <1>7, <1>8, <1>9, <1>10, <1>11,
     <1>12, <1>13, <1>14, <1>15, <1>16, <1>17, <1>18, <1>19, <1>20, <1>21,
     <1>22, <1>23, <1>24, <1>25, <1>26, <1>27, <1>28, <1>29, <1>30, <1>31
  DEF CommandStep, Relink

\* The lock is free or held by a command.
LEMMA LockStep ==
  ASSUME CommandsOK, NEW p \in Procs, CommandStep(p)
  PROVE  lock' \in Procs \cup {None}
<1> USE UpdaterConstants DEF CommandsOK, Goto, End
<1>1. ASSUME NEW op \in Commands, Start(p, op) PROVE lock' \in Procs \cup {None}
  BY <1>1 DEF Start, MayRaise
<1>2. ASSUME NEW v \in Versions, Local(p, v) PROVE lock' \in Procs \cup {None}
  BY <1>2 DEF Local, Unlocked, MayRaise
<1>3. ASSUME NEW v \in Versions, Check(p, v) PROVE lock' \in Procs \cup {None}
  BY <1>3 DEF Check, SameVersion, MayRaise
<1>4. CASE Lock(p)
  BY <1>4 DEF Lock, Unlocked, MayRaise
<1>5. CASE Busy(p)
  BY <1>5 DEF Busy, Cut, MayRaise
<1>6. CASE Unpack(p)
  BY <1>6 DEF Unpack, MayRaise
<1>7. CASE Copy(p)
  BY <1>7 DEF Copy, MayRaise
<1>8. CASE Unlink(p)
  BY <1>8 DEF Unlink, MayRaise
<1>9. CASE Previous(p)
  BY <1>9 DEF Previous, MayRaise
<1>10. CASE Swap(p)
  BY <1>10 DEF Swap, MayRaise
<1>11. CASE Exec(p)
  BY <1>11 DEF Exec, MayRaise
<1>12. CASE Rollback(p)
  BY <1>12 DEF Rollback, MayRaise
<1>13. CASE Install(p)
  BY <1>13 DEF Install, MayRaise
<1>14. CASE Finish(p)
  BY <1>14 DEF Finish, MayRaise
<1>15. CASE Files(p)
  BY <1>15 DEF Files, Fault, MayRaise
<1>16. CASE Gui(p)
  BY <1>16 DEF Gui, MayRaise, Fault, MayRaise
<1>17. CASE Packages(p)
  BY <1>17 DEF Packages, MayRaise, Fault, MayRaise
<1>18. CASE Core(p)
  BY <1>18 DEF Core, MayRaise
<1>19. CASE Replace(p)
  BY <1>19 DEF Replace, Fault, MayRaise
<1>20. CASE ComeBack(p)
  BY <1>20 DEF ComeBack, MayRaise
<1>21. CASE CopyBack(p)
  BY <1>21 DEF CopyBack, MayRaise
<1>22. CASE WasActive(p)
  BY <1>22 DEF WasActive, MayRaise
<1>23. CASE DownloadFails(p)
  BY <1>23 DEF DownloadFails, Fault, MayRaise
<1>24. CASE Retire(p)
  BY <1>24 DEF Retire, MayRaise
<1>25. CASE Disable(p)
  BY <1>25 DEF Disable, MayRaise
<1>26. CASE Table(p)
  BY <1>26 DEF Table, MayRaise
<1>27. CASE Marker(p)
  BY <1>27 DEF Marker, MayRaise
<1>28. CASE Reconnect(p)
  BY <1>28 DEF Reconnect, Reconnects, Fault, MayRaise
<1>29. CASE Complete(p)
  BY <1>29 DEF Complete, MayRaise
<1>30. CASE Off(p)
  BY <1>30 DEF Off, MayRaise
<1>31. CASE Interrupted(p)
  BY <1>31 DEF Interrupted, Cut, Fault, MayRaise
<1> QED
  BY <1>1, <1>2, <1>3, <1>4, <1>5, <1>6, <1>7, <1>8, <1>9, <1>10, <1>11,
     <1>12, <1>13, <1>14, <1>15, <1>16, <1>17, <1>18, <1>19, <1>20, <1>21,
     <1>22, <1>23, <1>24, <1>25, <1>26, <1>27, <1>28, <1>29, <1>30, <1>31
  DEF CommandStep, Relink

\* A command stays one of the program.
LEMMA JobStep ==
  ASSUME CommandsOK, FilesOK, FlagsOK, TaskFits, NEW p \in Procs, CommandStep(p)
  PROVE  proc'[p] \in Job
<1> USE UpdaterConstants DEF CommandsOK, FilesOK, FlagsOK, TaskFits, At, Goto,
   End, Commands
<1>a. /\ proc[p] = [at |-> proc[p].at, op |-> proc[p].op, code |-> proc[p].code,
                  dest |-> proc[p].dest, re |-> proc[p].re, pend |-> proc[p].pend,
                  active |-> proc[p].active]
      /\ proc[p].at \in Labels /\ proc[p].code \in Versions \cup {None}
      /\ proc[p].dest \in Dirs \cup {None} /\ proc[p].re \in BOOLEAN
      /\ proc[p].pend \in BOOLEAN /\ proc[p].active \in BOOLEAN
  BY DEF Job
<1>b. Ended \in Job
  BY DEF Job, Ended, Labels
<1>c. Ver(current) \in Versions /\ Fresh \in Dirs /\ \A d \in Versions : d \in Dirs
  BY DEF Ver, Dirs
<1>d. \A b \in {worker, OldActive \/ worker} : b \in BOOLEAN
  OBVIOUS
<1> USE <1>a, <1>b, <1>c, <1>d DEF Job, Labels, Moving, Finishing, Upgrading,
   Retiring
<1>1. ASSUME NEW op \in Commands, Start(p, op) PROVE proc'[p] \in Job
  <2>1. proc'[p] = [at |-> IF op = "pause" THEN "retire" ELSE "wait", op |-> op,
                    code |-> Ver(current), dest |-> None, re |-> FALSE,
                    pend |-> FALSE, active |-> FALSE]
    BY <1>1 DEF Start, Ended
  <2> QED
    BY <2>1
<1>2. ASSUME NEW v \in Versions, Local(p, v) PROVE proc'[p] \in Job
  BY <1>2 DEF Local, Unlocked
<1>3. ASSUME NEW v \in Versions, Check(p, v) PROVE proc'[p] \in Job
  BY <1>3 DEF Check, SameVersion
<1>4. CASE Lock(p)
  BY <1>4 DEF Lock, Unlocked
<1>5. CASE Busy(p)
  BY <1>5 DEF Busy, Cut
<1>6. CASE Unpack(p)
  BY <1>6 DEF Unpack
<1>7. CASE Copy(p)
  BY <1>7 DEF Copy
<1>8. CASE Unlink(p)
  BY <1>8 DEF Unlink
<1>9. CASE Previous(p)
  BY <1>9 DEF Previous
<1>10. CASE Swap(p)
  BY <1>10 DEF Swap
<1>11. CASE Exec(p)
  BY <1>11 DEF Exec
<1>12. CASE Rollback(p)
  BY <1>12 DEF Rollback
<1>13. CASE Install(p)
  BY <1>13 DEF Install
<1>14. CASE Finish(p)
  BY <1>14 DEF Finish
<1>15. CASE Files(p)
  BY <1>15 DEF Files, Fault
<1>16. CASE Gui(p)
  BY <1>16 DEF Gui, MayRaise, Fault
<1>17. CASE Packages(p)
  BY <1>17 DEF Packages, MayRaise, Fault
<1>18. CASE Core(p)
  BY <1>18 DEF Core
<1>19. CASE Replace(p)
  BY <1>19 DEF Replace, Fault
<1>20. CASE ComeBack(p)
  BY <1>20 DEF ComeBack
<1>21. CASE CopyBack(p)
  BY <1>21 DEF CopyBack
<1>22. CASE WasActive(p)
  <2>1. PICK on \in {worker, OldActive \/ worker} :
               proc' = [proc EXCEPT ![p].at = "retire", ![p].active = on]
    BY <1>22 DEF WasActive, OldActive
  <2>2. on \in BOOLEAN
    BY <1>d
  <2>3. proc'[p] = [proc[p] EXCEPT !.at = "retire", !.active = on]
    BY <2>1
  <2> QED
    BY <2>2, <2>3
<1>23. CASE DownloadFails(p)
  BY <1>23 DEF DownloadFails, Fault
<1>24. CASE Retire(p)
  BY <1>24 DEF Retire, OldActive
<1>25. CASE Disable(p)
  BY <1>25 DEF Disable, OldActive
<1>26. CASE Table(p)
  BY <1>26 DEF Table
<1>27. CASE Marker(p)
  BY <1>27 DEF Marker
<1>28. CASE Reconnect(p)
  BY <1>28 DEF Reconnect, Reconnects, Fault
<1>29. CASE Complete(p)
  BY <1>29 DEF Complete
<1>30. CASE Off(p)
  BY <1>30 DEF Off
<1>31. CASE Interrupted(p)
  BY <1>31 DEF Interrupted, Cut, Fault
<1> QED
  BY <1>1, <1>2, <1>3, <1>4, <1>5, <1>6, <1>7, <1>8, <1>9, <1>10, <1>11,
     <1>12, <1>13, <1>14, <1>15, <1>16, <1>17, <1>18, <1>19, <1>20, <1>21,
     <1>22, <1>23, <1>24, <1>25, <1>26, <1>27, <1>28, <1>29, <1>30, <1>31
  DEF CommandStep, Relink

\* What is on disk and the tunnel keep their types.
LEMMA FilesStep ==
  ASSUME CommandsOK, FilesOK, TaskFits, NEW p \in Procs, CommandStep(p)
  PROVE  FilesOK'
<1> USE UpdaterConstants DEF CommandsOK, FilesOK, TaskFits, Moving, Job, Dirs,
   At, Goto, End, binary, links, legacy
<1>1. ASSUME NEW op \in Commands, Start(p, op) PROVE FilesOK'
  BY <1>1 DEF Start
<1>2. ASSUME NEW v \in Versions, Local(p, v) PROVE FilesOK'
  BY <1>2 DEF Local, Unlocked
<1>3. ASSUME NEW v \in Versions, Check(p, v) PROVE FilesOK'
  BY <1>3 DEF Check, SameVersion
<1>4. CASE Lock(p)
  BY <1>4 DEF Lock, Unlocked
<1>5. CASE Busy(p)
  BY <1>5 DEF Busy, Cut
<1>6. CASE Unpack(p)
  BY <1>6 DEF Unpack
<1>7. CASE Copy(p)
  BY <1>7 DEF Copy
<1>8. CASE Unlink(p)
  BY <1>8 DEF Unlink
<1>9. CASE Previous(p)
  BY <1>9 DEF Previous
<1>10. CASE Swap(p)
  BY <1>10 DEF Swap
<1>11. CASE Exec(p)
  BY <1>11 DEF Exec
<1>12. CASE Rollback(p)
  BY <1>12 DEF Rollback
<1>13. CASE Install(p)
  BY <1>13 DEF Install
<1>14. CASE Finish(p)
  BY <1>14 DEF Finish
<1>15. CASE Files(p)
  BY <1>15 DEF Files, Fault
<1>16. CASE Gui(p)
  BY <1>16 DEF Gui, MayRaise, Fault
<1>17. CASE Packages(p)
  BY <1>17 DEF Packages, MayRaise, Fault
<1>18. CASE Core(p)
  BY <1>18 DEF Core
<1>19. CASE Replace(p)
  BY <1>19 DEF Replace, Fault
<1>20. CASE ComeBack(p)
  BY <1>20 DEF ComeBack
<1>21. CASE CopyBack(p)
  BY <1>21 DEF CopyBack
<1>22. CASE WasActive(p)
  BY <1>22 DEF WasActive, OldActive
<1>23. CASE DownloadFails(p)
  BY <1>23 DEF DownloadFails, Fault
<1>24. CASE Retire(p)
  BY <1>24 DEF Retire, OldActive
<1>25. CASE Disable(p)
  BY <1>25 DEF Disable, OldActive
<1>26. CASE Table(p)
  BY <1>26 DEF Table
<1>27. CASE Marker(p)
  BY <1>27 DEF Marker
<1>28. CASE Reconnect(p)
  BY <1>28 DEF Reconnect, Reconnects, Fault
<1>29. CASE Complete(p)
  BY <1>29 DEF Complete
<1>30. CASE Off(p)
  BY <1>30 DEF Off
<1>31. CASE Interrupted(p)
  BY <1>31 DEF Interrupted, Cut, Fault
<1> QED
  BY <1>1, <1>2, <1>3, <1>4, <1>5, <1>6, <1>7, <1>8, <1>9, <1>10, <1>11,
     <1>12, <1>13, <1>14, <1>15, <1>16, <1>17, <1>18, <1>19, <1>20, <1>21,
     <1>22, <1>23, <1>24, <1>25, <1>26, <1>27, <1>28, <1>29, <1>30, <1>31
  DEF CommandStep, Relink

\* So do the switches.
LEMMA FlagsStep ==
  ASSUME CommandsOK, FilesOK, FlagsOK, NEW p \in Procs, CommandStep(p)
  PROVE  FlagsOK'
<1> USE UpdaterConstants DEF CommandsOK, FilesOK, FlagsOK, Job, At, Goto, End,
   binary, links, legacy
<1>1. ASSUME NEW op \in Commands, Start(p, op) PROVE FlagsOK'
  BY <1>1 DEF Start
<1>2. ASSUME NEW v \in Versions, Local(p, v) PROVE FlagsOK'
  BY <1>2 DEF Local, Unlocked
<1>3. ASSUME NEW v \in Versions, Check(p, v) PROVE FlagsOK'
  BY <1>3 DEF Check, SameVersion
<1>4. CASE Lock(p)
  BY <1>4 DEF Lock, Unlocked
<1>5. CASE Busy(p)
  BY <1>5 DEF Busy, Cut
<1>6. CASE Unpack(p)
  BY <1>6 DEF Unpack
<1>7. CASE Copy(p)
  BY <1>7 DEF Copy
<1>8. CASE Unlink(p)
  BY <1>8 DEF Unlink
<1>9. CASE Previous(p)
  BY <1>9 DEF Previous
<1>10. CASE Swap(p)
  BY <1>10 DEF Swap
<1>11. CASE Exec(p)
  BY <1>11 DEF Exec
<1>12. CASE Rollback(p)
  BY <1>12 DEF Rollback
<1>13. CASE Install(p)
  BY <1>13 DEF Install
<1>14. CASE Finish(p)
  BY <1>14 DEF Finish
<1>15. CASE Files(p)
  BY <1>15 DEF Files, Fault
<1>16. CASE Gui(p)
  BY <1>16 DEF Gui, MayRaise, Fault
<1>17. CASE Packages(p)
  BY <1>17 DEF Packages, MayRaise, Fault
<1>18. CASE Core(p)
  BY <1>18 DEF Core
<1>19. CASE Replace(p)
  BY <1>19 DEF Replace, Fault
<1>20. CASE ComeBack(p)
  BY <1>20 DEF ComeBack
<1>21. CASE CopyBack(p)
  BY <1>21 DEF CopyBack
<1>22. CASE WasActive(p)
  BY <1>22 DEF WasActive, OldActive
<1>23. CASE DownloadFails(p)
  BY <1>23 DEF DownloadFails, Fault
<1>24. CASE Retire(p)
  BY <1>24 DEF Retire, OldActive
<1>25. CASE Disable(p)
  BY <1>25 DEF Disable, OldActive
<1>26. CASE Table(p)
  <2>1. oldguard' = FALSE \/ oldguard' = oldguard
    BY <1>26 DEF Table
  <2>2. oldguard' \in BOOLEAN
    BY <2>1
  <2> QED
    BY <1>26, <2>2 DEF Table
<1>27. CASE Marker(p)
  BY <1>27 DEF Marker
<1>28. CASE Reconnect(p)
  <2>1. /\ pending' = pending /\ complete' = complete /\ old' = old
        /\ oldguard' = oldguard /\ marker' = marker
        /\ exposed' = exposed /\ stale' = stale
    BY <1>28 DEF Reconnect
  <2>2. \/ worker' = TRUE /\ guard' = TRUE /\ wish' = TRUE /\ owed' = "none"
        \/ worker' = worker /\ guard' = guard /\ wish' = wish /\ owed' = owed
    BY <1>28 DEF Reconnect
  <2> QED
    BY <2>1, <2>2
<1>29. CASE Complete(p)
  BY <1>29 DEF Complete
<1>30. CASE Off(p)
  BY <1>30 DEF Off
<1>31. CASE Interrupted(p)
  BY <1>31 DEF Interrupted, Cut, Fault
<1> QED
  BY <1>1, <1>2, <1>3, <1>4, <1>5, <1>6, <1>7, <1>8, <1>9, <1>10, <1>11,
     <1>12, <1>13, <1>14, <1>15, <1>16, <1>17, <1>18, <1>19, <1>20, <1>21,
     <1>22, <1>23, <1>24, <1>25, <1>26, <1>27, <1>28, <1>29, <1>30, <1>31
  DEF CommandStep, Relink

\* Who waits has a task, who unpacks a directory.
LEMMA TaskStep ==
  ASSUME TypeOK, NEW p \in Procs, CommandStep(p)
  PROVE  TaskFits'
<1> USE UpdaterConstants DEF TypeOK, TaskFits, Moving, Finishing, Upgrading,
   Retiring, Dirs, Commands, CommandsOK, FilesOK, Job, At, Goto, End, Ended,
   binary, links, legacy
<1> USE OthersStay
<1>1. ASSUME NEW op \in Commands, Start(p, op) PROVE TaskFits'
  BY <1>1 DEF Start
<1>2. ASSUME NEW v \in Versions, Local(p, v) PROVE TaskFits'
  BY <1>2 DEF Local, Unlocked
<1>3. ASSUME NEW v \in Versions, Check(p, v) PROVE TaskFits'
  BY <1>3 DEF Check, SameVersion
<1>4. CASE Lock(p)
  BY <1>4 DEF Lock, Unlocked
<1>5. CASE Busy(p)
  BY <1>5 DEF Busy, Cut
<1>6. CASE Unpack(p)
  BY <1>6 DEF Unpack
<1>7. CASE Copy(p)
  BY <1>7 DEF Copy
<1>8. CASE Unlink(p)
  BY <1>8 DEF Unlink
<1>9. CASE Previous(p)
  BY <1>9 DEF Previous
<1>10. CASE Swap(p)
  BY <1>10 DEF Swap
<1>11. CASE Exec(p)
  BY <1>11 DEF Exec
<1>12. CASE Rollback(p)
  BY <1>12 DEF Rollback
<1>13. CASE Install(p)
  BY <1>13 DEF Install
<1>14. CASE Finish(p)
  BY <1>14 DEF Finish
<1>15. CASE Files(p)
  BY <1>15 DEF Files, Fault
<1>16. CASE Gui(p)
  BY <1>16 DEF Gui, MayRaise, Fault
<1>17. CASE Packages(p)
  BY <1>17 DEF Packages, MayRaise, Fault
<1>18. CASE Core(p)
  BY <1>18 DEF Core
<1>19. CASE Replace(p)
  BY <1>19 DEF Replace, Fault
<1>20. CASE ComeBack(p)
  BY <1>20 DEF ComeBack
<1>21. CASE CopyBack(p)
  BY <1>21 DEF CopyBack
<1>22. CASE WasActive(p)
  BY <1>22 DEF WasActive, OldActive
<1>23. CASE DownloadFails(p)
  BY <1>23 DEF DownloadFails, Fault
<1>24. CASE Retire(p)
  BY <1>24 DEF Retire, OldActive
<1>25. CASE Disable(p)
  BY <1>25 DEF Disable, OldActive
<1>26. CASE Table(p)
  BY <1>26 DEF Table
<1>27. CASE Marker(p)
  BY <1>27 DEF Marker
<1>28. CASE Reconnect(p)
  BY <1>28 DEF Reconnect, Reconnects, Fault
<1>29. CASE Complete(p)
  BY <1>29 DEF Complete
<1>30. CASE Off(p)
  BY <1>30 DEF Off
<1>31. CASE Interrupted(p)
  BY <1>31 DEF Interrupted, Cut, Fault
<1> QED
  BY <1>1, <1>2, <1>3, <1>4, <1>5, <1>6, <1>7, <1>8, <1>9, <1>10, <1>11,
     <1>12, <1>13, <1>14, <1>15, <1>16, <1>17, <1>18, <1>19, <1>20, <1>21,
     <1>22, <1>23, <1>24, <1>25, <1>26, <1>27, <1>28, <1>29, <1>30, <1>31
  DEF CommandStep, Relink

\* The lock: one command at a time, beside those that take none.
LEMMA OneStep ==
  ASSUME TypeOK, OneAtATime, NEW p \in Procs, CommandStep(p)
  PROVE  OneAtATime'
<1> USE UpdaterConstants DEF TypeOK, CommandsOK, FilesOK, Job, Ended, At, Goto,
   End, OneAtATime, Aside, Moving, Retiring, Finishing, Commands, binary,
   links, legacy
<1>1. ASSUME NEW op \in Commands, Start(p, op) PROVE OneAtATime'
  BY <1>1 DEF Start
<1>2. ASSUME NEW v \in Versions, Local(p, v) PROVE OneAtATime'
  BY <1>2 DEF Local, Unlocked
<1>3. ASSUME NEW v \in Versions, Check(p, v) PROVE OneAtATime'
  BY <1>3 DEF Check, SameVersion
<1>4. CASE Lock(p)
  BY <1>4 DEF Lock, Unlocked
<1>5. CASE Busy(p)
  BY <1>5 DEF Busy, Cut
<1>6. CASE Unpack(p)
  BY <1>6 DEF Unpack
<1>7. CASE Copy(p)
  BY <1>7 DEF Copy
<1>8. CASE Unlink(p)
  BY <1>8 DEF Unlink
<1>9. CASE Previous(p)
  BY <1>9 DEF Previous
<1>10. CASE Swap(p)
  BY <1>10 DEF Swap
<1>11. CASE Exec(p)
  BY <1>11 DEF Exec
<1>12. CASE Rollback(p)
  BY <1>12 DEF Rollback
<1>13. CASE Install(p)
  BY <1>13 DEF Install
<1>14. CASE Finish(p)
  BY <1>14 DEF Finish
<1>15. CASE Files(p)
  BY <1>15 DEF Files, Fault
<1>16. CASE Gui(p)
  BY <1>16 DEF Gui, MayRaise, Fault
<1>17. CASE Packages(p)
  BY <1>17 DEF Packages, MayRaise, Fault
<1>18. CASE Core(p)
  BY <1>18 DEF Core
<1>19. CASE Replace(p)
  BY <1>19 DEF Replace, Fault
<1>20. CASE ComeBack(p)
  BY <1>20 DEF ComeBack
<1>21. CASE CopyBack(p)
  BY <1>21 DEF CopyBack
<1>22. CASE WasActive(p)
  BY <1>22 DEF WasActive, OldActive
<1>23. CASE DownloadFails(p)
  BY <1>23 DEF DownloadFails, Fault
<1>24. CASE Retire(p)
  BY <1>24 DEF Retire, OldActive
<1>25. CASE Disable(p)
  BY <1>25 DEF Disable, OldActive
<1>26. CASE Table(p)
  BY <1>26 DEF Table
<1>27. CASE Marker(p)
  BY <1>27 DEF Marker
<1>28. CASE Reconnect(p)
  BY <1>28 DEF Reconnect, Reconnects, Fault
<1>29. CASE Complete(p)
  BY <1>29 DEF Complete
<1>30. CASE Off(p)
  BY <1>30 DEF Off
<1>31. CASE Interrupted(p)
  BY <1>31 DEF Interrupted, Cut, Fault
<1> QED
  BY <1>1, <1>2, <1>3, <1>4, <1>5, <1>6, <1>7, <1>8, <1>9, <1>10, <1>11,
     <1>12, <1>13, <1>14, <1>15, <1>16, <1>17, <1>18, <1>19, <1>20, <1>21,
     <1>22, <1>23, <1>24, <1>25, <1>26, <1>27, <1>28, <1>29, <1>30, <1>31
  DEF CommandStep, Relink

\* A local update is alone, or a command was stale.
LEMMA LocalStep ==
  ASSUME TypeOK, OneAtATime, LocalIsAlone, NEW p \in Procs, CommandStep(p)
  PROVE  LocalIsAlone'
<1> USE UpdaterConstants DEF TypeOK, OneAtATime, LocalIsAlone, Aside, Moving,
   Retiring, Finishing, Commands, CommandsOK, FilesOK, Job, At, Goto, End,
   Ended, binary, links, legacy
<1> USE OthersStay
<1>1. ASSUME NEW op \in Commands, Start(p, op) PROVE LocalIsAlone'
  BY <1>1 DEF Start
<1>2. ASSUME NEW v \in Versions, Local(p, v) PROVE LocalIsAlone'
  BY <1>2 DEF Local, Unlocked
<1>3. ASSUME NEW v \in Versions, Check(p, v) PROVE LocalIsAlone'
  BY <1>3 DEF Check, SameVersion
<1>4. CASE Lock(p)
  BY <1>4 DEF Lock, Unlocked
<1>5. CASE Busy(p)
  BY <1>5 DEF Busy, Cut
<1>6. CASE Unpack(p)
  BY <1>6 DEF Unpack
<1>7. CASE Copy(p)
  BY <1>7 DEF Copy
<1>8. CASE Unlink(p)
  BY <1>8 DEF Unlink
<1>9. CASE Previous(p)
  BY <1>9 DEF Previous
<1>10. CASE Swap(p)
  BY <1>10 DEF Swap
<1>11. CASE Exec(p)
  BY <1>11 DEF Exec
<1>12. CASE Rollback(p)
  BY <1>12 DEF Rollback
<1>13. CASE Install(p)
  BY <1>13 DEF Install
<1>14. CASE Finish(p)
  BY <1>14 DEF Finish
<1>15. CASE Files(p)
  BY <1>15 DEF Files, Fault
<1>16. CASE Gui(p)
  BY <1>16 DEF Gui, MayRaise, Fault
<1>17. CASE Packages(p)
  BY <1>17 DEF Packages, MayRaise, Fault
<1>18. CASE Core(p)
  BY <1>18 DEF Core
<1>19. CASE Replace(p)
  BY <1>19 DEF Replace, Fault
<1>20. CASE ComeBack(p)
  BY <1>20 DEF ComeBack
<1>21. CASE CopyBack(p)
  BY <1>21 DEF CopyBack
<1>22. CASE WasActive(p)
  BY <1>22 DEF WasActive, OldActive
<1>23. CASE DownloadFails(p)
  BY <1>23 DEF DownloadFails, Fault
<1>24. CASE Retire(p)
  BY <1>24 DEF Retire, OldActive
<1>25. CASE Disable(p)
  BY <1>25 DEF Disable, OldActive
<1>26. CASE Table(p)
  BY <1>26 DEF Table
<1>27. CASE Marker(p)
  BY <1>27 DEF Marker
<1>28. CASE Reconnect(p)
  BY <1>28 DEF Reconnect, Reconnects, Fault
<1>29. CASE Complete(p)
  BY <1>29 DEF Complete
<1>30. CASE Off(p)
  BY <1>30 DEF Off
<1>31. CASE Interrupted(p)
  BY <1>31 DEF Interrupted, Cut, Fault
<1> QED
  BY <1>1, <1>2, <1>3, <1>4, <1>5, <1>6, <1>7, <1>8, <1>9, <1>10, <1>11,
     <1>12, <1>13, <1>14, <1>15, <1>16, <1>17, <1>18, <1>19, <1>20, <1>21,
     <1>22, <1>23, <1>24, <1>25, <1>26, <1>27, <1>28, <1>29, <1>30, <1>31
  DEF CommandStep, Relink

\* The release in use is not the one that is being made.
LEMMA MovesStep ==
  ASSUME TypeOK, OneAtATime, LocalIsAlone, MovesKeepCurrent, CurrentIsWhole, NEW p
         \in Procs, CommandStep(p)
  PROVE  MovesKeepCurrent' /\ CurrentIsWhole'
<1> USE UpdaterConstants DEF TypeOK, OneAtATime, LocalIsAlone,
   MovesKeepCurrent, CurrentIsWhole, Aside, Moving, Retiring, Dirs, Ver,
   Commands, CommandsOK, FilesOK, Job, At, Goto, End, Ended, binary, links,
   legacy
<1> USE OthersStay
<1>1. ASSUME NEW op \in Commands, Start(p, op)
      PROVE  MovesKeepCurrent' /\ CurrentIsWhole'
  BY <1>1 DEF Start
<1>2. ASSUME NEW v \in Versions, Local(p, v)
      PROVE  MovesKeepCurrent' /\ CurrentIsWhole'
  BY <1>2 DEF Local, Unlocked
<1>3. ASSUME NEW v \in Versions, Check(p, v)
      PROVE  MovesKeepCurrent' /\ CurrentIsWhole'
  BY <1>3 DEF Check, SameVersion
<1>4. CASE Lock(p)
  <2>1. proc[p].op \in {"update", "rollback", "install", "off", "finish"}
    BY <1>4 DEF Lock, TaskFits
  <2>2. \A q \in Procs : q # p => proc'[q] = proc[q]
    BY OthersStay
  <2>3. proc'[p].at = proc[p].op /\ proc'[p].code = proc[p].code
    BY <1>4 DEF Lock
  <2>4. stale \/ stale' \/ proc[p].op # "update" \/ proc[p].code = Ver(current)
    BY <1>4 DEF Lock
  <2>5. stale => stale'
    BY <1>4 DEF Lock
  <2> QED
    BY <1>4, <2>1, <2>2, <2>3, <2>4, <2>5 DEF Lock
<1>5. CASE Busy(p)
  BY <1>5 DEF Busy, Cut
<1>6. CASE Unpack(p)
  BY <1>6 DEF Unpack
<1>7. CASE Copy(p)
  BY <1>7 DEF Copy
<1>8. CASE Unlink(p)
  BY <1>8 DEF Unlink
<1>9. CASE Previous(p)
  BY <1>9 DEF Previous
<1>10. CASE Swap(p)
  BY <1>10 DEF Swap
<1>11. CASE Exec(p)
  BY <1>11 DEF Exec
<1>12. CASE Rollback(p)
  BY <1>12 DEF Rollback
<1>13. CASE Install(p)
  BY <1>13 DEF Install
<1>14. CASE Finish(p)
  BY <1>14 DEF Finish
<1>15. CASE Files(p)
  BY <1>15 DEF Files, Fault
<1>16. CASE Gui(p)
  BY <1>16 DEF Gui, MayRaise, Fault
<1>17. CASE Packages(p)
  BY <1>17 DEF Packages, MayRaise, Fault
<1>18. CASE Core(p)
  BY <1>18 DEF Core
<1>19. CASE Replace(p)
  BY <1>19 DEF Replace, Fault
<1>20. CASE ComeBack(p)
  BY <1>20 DEF ComeBack
<1>21. CASE CopyBack(p)
  BY <1>21 DEF CopyBack
<1>22. CASE WasActive(p)
  BY <1>22 DEF WasActive, OldActive
<1>23. CASE DownloadFails(p)
  BY <1>23 DEF DownloadFails, Fault
<1>24. CASE Retire(p)
  BY <1>24 DEF Retire, OldActive
<1>25. CASE Disable(p)
  BY <1>25 DEF Disable, OldActive
<1>26. CASE Table(p)
  BY <1>26 DEF Table
<1>27. CASE Marker(p)
  BY <1>27 DEF Marker
<1>28. CASE Reconnect(p)
  BY <1>28 DEF Reconnect, Reconnects, Fault
<1>29. CASE Complete(p)
  BY <1>29 DEF Complete
<1>30. CASE Off(p)
  BY <1>30 DEF Off
<1>31. CASE Interrupted(p)
  BY <1>31 DEF Interrupted, Cut, Fault
<1> QED
  BY <1>1, <1>2, <1>3, <1>4, <1>5, <1>6, <1>7, <1>8, <1>9, <1>10, <1>11,
     <1>12, <1>13, <1>14, <1>15, <1>16, <1>17, <1>18, <1>19, <1>20, <1>21,
     <1>22, <1>23, <1>24, <1>25, <1>26, <1>27, <1>28, <1>29, <1>30, <1>31
  DEF CommandStep, Relink

\* finish_installation checks Xray before it calls the installation complete.
LEMMA FinishStep ==
  ASSUME TypeOK, OneAtATime, FinishKnows, XrayIsSafe, NEW p \in Procs, CommandStep(p)
  PROVE  FinishKnows' /\ XrayIsSafe'
<1> USE UpdaterConstants DEF TypeOK, OneAtATime, FinishKnows, TaskFits, Aside,
   XrayIsSafe, Finishing, Upgrading, Retiring,
   CommandsOK, FilesOK, Job, At, Goto, End, Ended, binary, links, legacy
<1> USE OthersStay
<1>1. ASSUME NEW op \in Commands, Start(p, op)
      PROVE  FinishKnows' /\ XrayIsSafe'
  BY <1>1 DEF Start
<1>2. ASSUME NEW v \in Versions, Local(p, v)
      PROVE  FinishKnows' /\ XrayIsSafe'
  BY <1>2 DEF Local, Unlocked
<1>3. ASSUME NEW v \in Versions, Check(p, v)
      PROVE  FinishKnows' /\ XrayIsSafe'
  BY <1>3 DEF Check, SameVersion
<1>4. CASE Lock(p)
  BY <1>4 DEF Lock, Unlocked
<1>5. CASE Busy(p)
  BY <1>5 DEF Busy, Cut
<1>6. CASE Unpack(p)
  BY <1>6 DEF Unpack
<1>7. CASE Copy(p)
  BY <1>7 DEF Copy
<1>8. CASE Unlink(p)
  BY <1>8 DEF Unlink
<1>9. CASE Previous(p)
  BY <1>9 DEF Previous
<1>10. CASE Swap(p)
  BY <1>10 DEF Swap
<1>11. CASE Exec(p)
  BY <1>11 DEF Exec
<1>12. CASE Rollback(p)
  BY <1>12 DEF Rollback
<1>13. CASE Install(p)
  BY <1>13 DEF Install
<1>14. CASE Finish(p)
  <2>1. \A q \in Procs : q # p => proc'[q] = proc[q]
    BY OthersStay
  <2>2. proc'[p].at = "files" /\ complete' = complete /\ xray' = xray
    BY <1>14 DEF Finish
  <2> QED
    BY <2>1, <2>2
<1>15. CASE Files(p)
  BY <1>15 DEF Files, Fault
<1>16. CASE Gui(p)
  BY <1>16 DEF Gui, MayRaise, Fault
<1>17. CASE Packages(p)
  BY <1>17 DEF Packages, MayRaise, Fault
<1>18. CASE Core(p)
  BY <1>18 DEF Core
<1>19. CASE Replace(p)
  BY <1>19 DEF Replace, Fault
<1>20. CASE ComeBack(p)
  BY <1>20 DEF ComeBack
<1>21. CASE CopyBack(p)
  BY <1>21 DEF CopyBack
<1>22. CASE WasActive(p)
  BY <1>22 DEF WasActive, OldActive
<1>23. CASE DownloadFails(p)
  BY <1>23 DEF DownloadFails, Fault
<1>24. CASE Retire(p)
  BY <1>24 DEF Retire, OldActive
<1>25. CASE Disable(p)
  BY <1>25 DEF Disable, OldActive
<1>26. CASE Table(p)
  BY <1>26 DEF Table
<1>27. CASE Marker(p)
  BY <1>27 DEF Marker
<1>28. CASE Reconnect(p)
  BY <1>28 DEF Reconnect, Reconnects, Fault
<1>29. CASE Complete(p)
  BY <1>29 DEF Complete
<1>30. CASE Off(p)
  BY <1>30 DEF Off
<1>31. CASE Interrupted(p)
  BY <1>31 DEF Interrupted, Cut, Fault
<1> QED
  BY <1>1, <1>2, <1>3, <1>4, <1>5, <1>6, <1>7, <1>8, <1>9, <1>10, <1>11,
     <1>12, <1>13, <1>14, <1>15, <1>16, <1>17, <1>18, <1>19, <1>20, <1>21,
     <1>22, <1>23, <1>24, <1>25, <1>26, <1>27, <1>28, <1>29, <1>30, <1>31
  DEF CommandStep, Relink

\* The restart that new links owe.  A step keeps it known when it leaves the
\* debt and its marker alone, when its command goes on carrying what it carried
\* and when it still remembers what it had remembered.
Keeps(p) ==
  /\ owed' = owed /\ pending' = pending /\ worker' = worker
  /\ owed = "due" /\ Carries(p) => Carries(p)'
  /\ owed = "due" /\ Remembers(p) => Remembers(p)'

LEMMA KeepsKnown ==
  ASSUME RestartIsKnown, NEW p \in Procs, \A q \in Procs : q # p => proc'[q] = proc[q],
         Keeps(p)
  PROVE  RestartIsKnown'
<1>1. \A q \in Procs : q # p => (Carries(q)' <=> Carries(q)) /\ (Remembers(q)' <=> Remembers(q))
  BY DEF Carries, Remembers
<1>2. (owed # "none" => worker)'
  BY DEF RestartIsKnown, Keeps
<1>3. ASSUME owed' = "due"
      PROVE  (\E q \in Procs : Carries(q)') \/ (pending' /\ \A q \in Procs : Remembers(q)')
  <2>1. owed = "due" /\ pending' = pending
    BY <1>3 DEF Keeps
  <2>2. CASE \E q \in Procs : Carries(q)
    <3>1. PICK q \in Procs : Carries(q)
      BY <2>2
    <3>2. Carries(q)'
      BY <3>1, <1>1, <2>1 DEF Keeps
    <3> QED
      BY <3>2
  <2>3. CASE pending /\ \A q \in Procs : Remembers(q)
    BY <2>3, <1>1, <2>1 DEF Keeps
  <2> QED
    BY <2>1, <2>2, <2>3 DEF RestartIsKnown
<1> QED
  BY <1>2, <1>3 DEF RestartIsKnown

LEMMA RestartStep ==
  ASSUME TypeOK, OneAtATime, RestartIsKnown, NEW p \in Procs, CommandStep(p)
  PROVE  RestartIsKnown'
<1> USE UpdaterConstants DEF TypeOK, TaskFits, Finishing, Upgrading, Retiring, Moving,
   CommandsOK, Job, At, Goto, End, Ended, legacy, Keeps, Carries, Remembers
<1>a. \A q \in Procs : q # p => proc'[q] = proc[q]
  BY OthersStay
<1>b. Keeps(p) => RestartIsKnown'
  <2> HIDE DEF Keeps, Carries, Remembers
  <2> QED
    BY <1>a, KeepsKnown
<1>c. lock \in {None, p} => \A q \in Procs : q # p => Remembers(q)'
  <2> SUFFICES ASSUME lock \in {None, p}, NEW q \in Procs, q # p PROVE Remembers(q)'
    OBVIOUS
  <2>1. Aside(q)
    BY DEF OneAtATime
  <2>2. proc'[q] = proc[q]
    BY <1>a
  <2> QED
    BY <2>1, <2>2 DEF Aside
<1>1. ASSUME NEW op \in Commands, Start(p, op) PROVE RestartIsKnown'
  <2>1. Keeps(p)
    BY <1>1 DEF Start, Commands
  <2> QED
    BY <2>1, <1>b
<1>2. ASSUME NEW v \in Versions, Local(p, v) PROVE RestartIsKnown'
  <2>1. Keeps(p)
    BY <1>2 DEF Local
  <2> QED
    BY <2>1, <1>b
<1>3. ASSUME NEW v \in Versions, Check(p, v) PROVE RestartIsKnown'
  <2>1. Keeps(p)
    BY <1>3 DEF Check
  <2> QED
    BY <2>1, <1>b
<1>d. ASSUME Cut(p), pending' = pending, worker' = worker PROVE RestartIsKnown'
  <2>1. proc'[p] = Ended /\ ~Carries(p)' /\ Remembers(p)'
    BY <1>d DEF Cut
  <2>2. CASE Lapses(p)
    BY <1>d, <2>2 DEF Cut, Lapses, RestartIsKnown
  <2>3. CASE ~Lapses(p) /\ (owed = "due" => ~Carries(p))
    <3>1. Keeps(p)
      BY <1>d, <2>1, <2>3 DEF Cut
    <3> QED
      BY <3>1, <1>b
  <2>4. CASE ~Lapses(p) /\ owed = "due" /\ Carries(p)
    <3>1. owed' = owed /\ pending' /\ lock \in {None, p}
      BY <1>d, <2>4 DEF Cut, Lapses
    <3>2. \A q \in Procs : Remembers(q)'
      BY <3>1, <2>1, <1>c
    <3> HIDE DEF Remembers, Carries
    <3> QED
      BY <3>1, <3>2, <1>d DEF RestartIsKnown
  <2> QED
    BY <2>2, <2>3, <2>4
<1>4. CASE Lock(p)
  <2>1. Keeps(p)
    BY <1>4 DEF Lock
  <2> QED
    BY <2>1, <1>b
<1>5. CASE Busy(p)
  <2>1. Cut(p) /\ pending' = pending /\ worker' = worker
    BY <1>5 DEF Busy
  <2> QED
    BY <2>1, <1>d
<1>6. CASE Unpack(p)
  <2>1. Keeps(p)
    BY <1>6 DEF Unpack
  <2> QED
    BY <2>1, <1>b
<1>7. CASE Copy(p)
  <2>1. Keeps(p)
    BY <1>7 DEF Copy
  <2> QED
    BY <2>1, <1>b
<1>8. CASE Unlink(p)
  <2>1. Keeps(p)
    BY <1>8 DEF Unlink
  <2> QED
    BY <2>1, <1>b
<1>9. CASE Previous(p)
  <2>1. Keeps(p)
    BY <1>9 DEF Previous
  <2> QED
    BY <2>1, <1>b
<1>10. CASE Swap(p)
  <2>1. CASE worker /\ proc[p].op # "rollback"
    <3>1. Carries(p)' /\ worker'
      BY <1>10, <2>1 DEF Swap
    <3> HIDE DEF Carries
    <3> QED
      BY <3>1 DEF RestartIsKnown
  <2>2. CASE ~(worker /\ proc[p].op # "rollback")
    <3>1. owed' = owed /\ pending' = pending /\ worker' = worker
      BY <1>10, <2>2 DEF Swap
    <3>2. ~Carries(p) /\ (owed = "due" => worker)
      BY <1>10 DEF Swap, RestartIsKnown
    <3>3. owed = "due" => Remembers(p)'
      BY <1>10, <2>2, <3>2 DEF Swap
    <3>4. Keeps(p)
      BY <3>1, <3>2, <3>3
    <3> QED
      BY <3>4, <1>b
  <2> QED
    BY <2>1, <2>2
<1>11. CASE Exec(p)
  <2>1. Keeps(p)
    BY <1>11 DEF Exec
  <2> QED
    BY <2>1, <1>b
<1>12. CASE Rollback(p)
  <2>1. Keeps(p)
    BY <1>12 DEF Rollback
  <2> QED
    BY <2>1, <1>b
<1>13. CASE Install(p)
  <2>1. Keeps(p)
    BY <1>13 DEF Install
  <2> QED
    BY <2>1, <1>b
<1>14. CASE Finish(p)
  <2>1. /\ proc'[p].at = "files" /\ proc'[p].re = proc[p].re /\ proc'[p].pend = pending
        /\ pending' = TRUE /\ worker' = worker
    BY <1>14 DEF Finish
  <2>2. lock = p
    BY <1>14 DEF Finish, OneAtATime, Aside
  <2>3. owed' = IF proc[p].re /\ worker THEN "due" ELSE owed
    BY <1>14 DEF Finish
  <2>4. (owed # "none" => worker)'
    BY <2>1, <2>3 DEF RestartIsKnown
  <2>5. ASSUME owed' = "due", ~(\E q \in Procs : Carries(q)')
        PROVE  Remembers(p)'
    <3>1. CASE proc[p].re
      BY <2>1, <3>1
    <3>2. CASE ~proc[p].re
      <4>1. owed = "due"
        BY <2>3, <2>5, <3>2
      <4>2. ~Carries(p)
        BY <1>14, <3>2 DEF Finish
      <4>3. \A q \in Procs : ~Carries(q)
        BY <4>2, <1>a, <2>5
      <4>4. pending
        BY <4>1, <4>3 DEF RestartIsKnown
      <4> QED
        BY <2>1, <4>4
    <3> QED
      BY <3>1, <3>2
  <2>6. \A q \in Procs : q # p => Remembers(q)'
    BY <2>2, <1>c
  <2> HIDE DEF Carries, Remembers
  <2> QED
    BY <2>1, <2>4, <2>5, <2>6 DEF RestartIsKnown
<1>15. CASE Files(p)
  <2>1. Keeps(p)
    BY <1>15 DEF Files, Fault
  <2> QED
    BY <2>1, <1>b
<1>16. CASE Gui(p)
  <2>1. Keeps(p)
    BY <1>16 DEF Gui, MayRaise, Fault
  <2> QED
    BY <2>1, <1>b
<1>17. CASE Packages(p)
  <2>1. Keeps(p)
    BY <1>17 DEF Packages, MayRaise, Fault
  <2> QED
    BY <2>1, <1>b
<1>18. CASE Core(p)
  <2>1. Keeps(p)
    BY <1>18 DEF Core
  <2> QED
    BY <2>1, <1>b
<1>19. CASE Replace(p)
  <2>1. Keeps(p)
    BY <1>19 DEF Replace, Fault
  <2> QED
    BY <2>1, <1>b
<1>20. CASE ComeBack(p)
  <2>1. Keeps(p)
    BY <1>20 DEF ComeBack
  <2> QED
    BY <2>1, <1>b
<1>21. CASE CopyBack(p)
  <2>1. Keeps(p)
    BY <1>21 DEF CopyBack
  <2> QED
    BY <2>1, <1>b
<1>22. CASE WasActive(p)
  <2>1. PICK on \in {worker, OldActive \/ worker} :
          proc' = [proc EXCEPT ![p].at = "retire", ![p].active = on]
    BY <1>22 DEF WasActive
  <2>2. /\ proc'[p].re = proc[p].re /\ proc'[p].pend = proc[p].pend
        /\ proc'[p].op = proc[p].op /\ proc'[p].at = "retire" /\ proc'[p].active = on
    BY <2>1
  <2>3. owed = "due" => on
    BY DEF RestartIsKnown
  <2>4. proc[p].at = "active" /\ owed' = owed /\ pending' = pending /\ worker' = worker
    BY <1>22 DEF WasActive
  <2>5. Keeps(p)
    BY <2>2, <2>3, <2>4
  <2> QED
    BY <2>5, <1>b
<1>23. CASE DownloadFails(p)
  <2>1. Keeps(p)
    BY <1>23 DEF DownloadFails, Fault
  <2> QED
    BY <2>1, <1>b
<1>24. CASE Retire(p)
  <2>1. Keeps(p)
    BY <1>24 DEF Retire
  <2> QED
    BY <2>1, <1>b
<1>25. CASE Disable(p)
  <2>1. Keeps(p)
    BY <1>25 DEF Disable
  <2> QED
    BY <2>1, <1>b
<1>26. CASE Table(p)
  <2>1. Keeps(p)
    BY <1>26 DEF Table
  <2> QED
    BY <2>1, <1>b
<1>27. CASE Marker(p)
  <2>1. Keeps(p)
    BY <1>27 DEF Marker
  <2> QED
    BY <2>1, <1>b
<1>28. CASE Reconnect(p)
  <2>1. CASE proc[p].op = "pause" \/ faults' # faults
    <3>1. Keeps(p)
      BY <1>28, <2>1 DEF Reconnect
    <3> QED
      BY <3>1, <1>b
  <2>2. CASE Reconnects(p) /\ proc[p].op # "pause" /\ faults' = faults
    <3>1. owed' = "none"
      BY <1>28, <2>2 DEF Reconnect, Fault, FilesOK
    <3> QED
      BY <3>1 DEF RestartIsKnown
  <2>3. CASE ~Reconnects(p) /\ proc[p].op # "pause" /\ faults' = faults
    <3>1. Keeps(p)
      BY <1>28, <2>3 DEF Reconnect, Reconnects
    <3> QED
      BY <3>1, <1>b
  <2> QED
    BY <2>1, <2>2, <2>3
<1>29. CASE Complete(p)
  <2>1. owed' = owed /\ worker' = worker /\ ~Carries(p)
    BY <1>29 DEF Complete
  <2>2. ASSUME owed = "due" PROVE \E q \in Procs : Carries(q)'
    <3>1. proc[p].op \in {"update", "finish"} /\ ~Remembers(p)
      BY <1>29 DEF Complete
    <3>2. PICK q \in Procs : Carries(q)
      BY <2>2, <3>1 DEF RestartIsKnown
    <3>3. Carries(q)'
      BY <3>2, <2>1, <1>a
    <3> QED
      BY <3>3
  <2> HIDE DEF Carries, Remembers
  <2> QED
    BY <2>1, <2>2 DEF RestartIsKnown
<1>30. CASE Off(p)
  BY <1>30 DEF Off, RestartIsKnown
<1>31. CASE Interrupted(p)
  <2>1. Cut(p) /\ pending' = pending /\ worker' = worker
    BY <1>31 DEF Interrupted
  <2> QED
    BY <2>1, <1>d
<1> QED
  BY <1>1, <1>2, <1>3, <1>4, <1>5, <1>6, <1>7, <1>8, <1>9, <1>10, <1>11,
     <1>12, <1>13, <1>14, <1>15, <1>16, <1>17, <1>18, <1>19, <1>20, <1>21,
     <1>22, <1>23, <1>24, <1>25, <1>26, <1>27, <1>28, <1>29, <1>30, <1>31
  DEF CommandStep, Relink

\* The new filter stands before the old VPN goes.
LEMMA GuardStep ==
  ASSUME TypeOK, RetiringIsGuarded, MigrationKeepsProtection, NEW p \in Procs,
         CommandStep(p)
  PROVE  RetiringIsGuarded' /\ MigrationKeepsProtection'
<1> USE UpdaterConstants DEF TypeOK, RetiringIsGuarded,
   MigrationKeepsProtection, CommandsOK, FilesOK, Job, At, Goto, End, Ended,
   binary, links, legacy
<1> USE OthersStay
<1>1. ASSUME NEW op \in Commands, Start(p, op)
      PROVE  RetiringIsGuarded' /\ MigrationKeepsProtection'
  BY <1>1 DEF Start
<1>2. ASSUME NEW v \in Versions, Local(p, v)
      PROVE  RetiringIsGuarded' /\ MigrationKeepsProtection'
  BY <1>2 DEF Local, Unlocked
<1>3. ASSUME NEW v \in Versions, Check(p, v)
      PROVE  RetiringIsGuarded' /\ MigrationKeepsProtection'
  BY <1>3 DEF Check, SameVersion
<1>4. CASE Lock(p)
  BY <1>4 DEF Lock, Unlocked
<1>5. CASE Busy(p)
  BY <1>5 DEF Busy, Cut
<1>6. CASE Unpack(p)
  BY <1>6 DEF Unpack
<1>7. CASE Copy(p)
  BY <1>7 DEF Copy
<1>8. CASE Unlink(p)
  BY <1>8 DEF Unlink
<1>9. CASE Previous(p)
  BY <1>9 DEF Previous
<1>10. CASE Swap(p)
  BY <1>10 DEF Swap
<1>11. CASE Exec(p)
  BY <1>11 DEF Exec
<1>12. CASE Rollback(p)
  BY <1>12 DEF Rollback
<1>13. CASE Install(p)
  BY <1>13 DEF Install
<1>14. CASE Finish(p)
  BY <1>14 DEF Finish
<1>15. CASE Files(p)
  BY <1>15 DEF Files, Fault
<1>16. CASE Gui(p)
  BY <1>16 DEF Gui, MayRaise, Fault
<1>17. CASE Packages(p)
  BY <1>17 DEF Packages, MayRaise, Fault
<1>18. CASE Core(p)
  BY <1>18 DEF Core
<1>19. CASE Replace(p)
  BY <1>19 DEF Replace, Fault
<1>20. CASE ComeBack(p)
  BY <1>20 DEF ComeBack
<1>21. CASE CopyBack(p)
  BY <1>21 DEF CopyBack
<1>22. CASE WasActive(p)
  BY <1>22 DEF WasActive, OldActive
<1>23. CASE DownloadFails(p)
  BY <1>23 DEF DownloadFails, Fault
<1>24. CASE Retire(p)
  <2>1. /\ wish' = wish /\ oldguard' = oldguard
        /\ guard => guard'
        /\ exposed => exposed'
    BY <1>24 DEF Retire, FlagsOK
  <2>2. MigrationKeepsProtection'
    BY <2>1
  <2>3. proc'[p].at \in {"retired", "disable"} /\ (marker => proc'[p].at = "retired")
    BY <1>24 DEF Retire
  <2>4. ASSUME NEW x \in Procs, proc'[x].at \in {"disable", "table"}, wish'
        PROVE  guard' \/ exposed'
    <3>1. CASE x = p
      <4>1. ~marker
        BY <2>3, <2>4, <3>1
      <4>2. exposed' = (exposed \/ (oldguard /\ ~guard'))
        BY <1>24, <4>1 DEF Retire
      <4> QED
        BY <2>1, <2>4, <4>2
    <3>2. CASE x # p
      <4>1. proc'[x] = proc[x]
        BY <1>24, <3>2 DEF Retire
      <4> QED
        BY <2>1, <2>4, <4>1
    <3> QED
      BY <3>1, <3>2
  <2>5. old' = old
    BY <1>24 DEF Retire
  <2> QED
    BY <2>1, <2>2, <2>4, <2>5
<1>25. CASE Disable(p)
  BY <1>25 DEF Disable, OldActive
<1>26. CASE Table(p)
  BY <1>26 DEF Table
<1>27. CASE Marker(p)
  BY <1>27 DEF Marker
<1>28. CASE Reconnect(p)
  BY <1>28 DEF Reconnect, Reconnects, Fault
<1>29. CASE Complete(p)
  BY <1>29 DEF Complete
<1>30. CASE Off(p)
  BY <1>30 DEF Off
<1>31. CASE Interrupted(p)
  BY <1>31 DEF Interrupted, Cut, Fault
<1> QED
  BY <1>1, <1>2, <1>3, <1>4, <1>5, <1>6, <1>7, <1>8, <1>9, <1>10, <1>11,
     <1>12, <1>13, <1>14, <1>15, <1>16, <1>17, <1>18, <1>19, <1>20, <1>21,
     <1>22, <1>23, <1>24, <1>25, <1>26, <1>27, <1>28, <1>29, <1>30, <1>31
  DEF CommandStep, Relink

\* A tunnel that dies, a reboot and a stutter end commands or nothing.
LEMMA WorldKeeps ==
  ASSUME UpdaterInv, WorkerDies \/ OldDies \/ Reboot \/ UNCHANGED vars
  PROVE  UpdaterInv'
<1> USE DEF UpdaterInv, TypeOK, CommandsOK, FilesOK, FlagsOK, TaskFits, OneAtATime,
            Aside, LocalIsAlone, MovesKeepCurrent, FinishKnows, RetiringIsGuarded,
            RestartIsKnown, Carries, Remembers, InterruptedUpdateIsSafe,
            CurrentIsWhole, RestartIsNotForgotten, XrayIsSafe, MigrationKeepsProtection, Fault, binary, links, legacy
<1>1. CASE WorkerDies
  <2> USE <1>1 DEF WorkerDies
  <2>1. CommandsOK' /\ FilesOK'
    OBVIOUS
  <2>5. FlagsOK'
    OBVIOUS
  <2>2. TaskFits' /\ OneAtATime' /\ LocalIsAlone'
    OBVIOUS
  <2>3. MovesKeepCurrent' /\ FinishKnows' /\ RetiringIsGuarded'
    OBVIOUS
  <2>4. InterruptedUpdateIsSafe' /\ RestartIsKnown'
    OBVIOUS
  <2> QED
    BY <2>1, <2>2, <2>3, <2>4, <2>5
<1>4. CASE OldDies
  <2> USE <1>4 DEF OldDies, OldActive
  <2>1. CommandsOK' /\ FilesOK'
    OBVIOUS
  <2>2. FlagsOK'
    OBVIOUS
  <2>3. TaskFits' /\ OneAtATime' /\ LocalIsAlone'
    OBVIOUS
  <2>4. MovesKeepCurrent' /\ FinishKnows' /\ RetiringIsGuarded' /\ RestartIsKnown'
    OBVIOUS
  <2>5. InterruptedUpdateIsSafe'
    OBVIOUS
  <2> QED
    BY <2>1, <2>2, <2>3, <2>4, <2>5
<1>2. CASE UNCHANGED vars
  BY <1>2 DEF vars
<1>3. CASE Reboot
  <2> USE <1>3 DEF Reboot
  <2>1. \A p \in Procs : proc'[p] = Ended
    OBVIOUS
  <2>2. Ended \in Job /\ Ended.at = "none" /\ Ended.op = "none"
    BY DEF Ended, Job, Labels
  <2>3. "none" \notin Moving \cup Finishing \cup Upgrading \cup Retiring \cup {"wait", "update", "finish"}
    BY DEF Moving, Finishing, Upgrading, Retiring
  <2>4. CommandsOK' /\ FlagsOK'
    BY <2>2
  <2>5. FilesOK'
    OBVIOUS
  <2>6. TaskFits' /\ OneAtATime' /\ LocalIsAlone' /\ MovesKeepCurrent'
    BY <2>1, <2>2, <2>3 DEF Moving
  <2>7. FinishKnows' /\ RetiringIsGuarded'
    BY <2>1, <2>2, <2>3
  <2>8. RestartIsKnown' /\ RestartIsNotForgotten'
    OBVIOUS
  <2>9. CurrentIsWhole' /\ XrayIsSafe'
    OBVIOUS
  <2>10. MigrationKeepsProtection'
    OBVIOUS
  <2> HIDE DEF CommandsOK, FlagsOK, FilesOK, TaskFits, OneAtATime, LocalIsAlone,
               MovesKeepCurrent, FinishKnows, RetiringIsGuarded, RestartIsKnown,
               CurrentIsWhole, RestartIsNotForgotten, XrayIsSafe, MigrationKeepsProtection
  <2> QED
    BY <2>4, <2>5, <2>6, <2>7, <2>8, <2>9, <2>10
<1> QED
  BY <1>1, <1>2, <1>3, <1>4

LEMMA CommandKeeps ==
  ASSUME UpdaterInv, NEW p \in Procs, CommandStep(p)
  PROVE  UpdaterInv'
<1> USE DEF UpdaterInv, InterruptedUpdateIsSafe
<1>1. CommandsOK /\ FilesOK /\ FlagsOK /\ TaskFits
  BY DEF TypeOK
<1>2. proc' = [q \in Procs |-> proc'[q]] /\ \A q \in Procs : proc'[q] \in Job
  BY <1>1, StillCommands, OthersStay, JobStep DEF CommandsOK
<1>3. proc' \in [Procs -> Job]
  <2> DEFINE f == proc'
  <2>1. f = [q \in Procs |-> f[q]] /\ \A q \in Procs : f[q] \in Job
    BY <1>2
  <2> HIDE DEF f
  <2>2. f \in [Procs -> Job]
    BY <2>1
  <2> QED
    BY <2>2 DEF f
<1>4. TypeOK'
  BY <1>1, <1>3, LockStep, FilesStep, FlagsStep, TaskStep DEF TypeOK, CommandsOK
<1>5. RestartIsNotForgotten'
  <2>1. RestartIsKnown'
    BY <1>1, RestartStep DEF TypeOK
  <2> QED
    BY <2>1 DEF RestartIsKnown, RestartIsNotForgotten
<1> QED
  BY <1>1, <1>4, <1>5, OneStep, LocalStep, MovesStep, FinishStep, RestartStep, GuardStep

LEMMA InitUpdater == Init => UpdaterInv
<1> SUFFICES ASSUME Init PROVE UpdaterInv
  OBVIOUS
<1> USE UpdaterConstants DEF Init
<1>1. PICK v \in Versions : /\ current = v /\ worker \in BOOLEAN
                            /\ rel = [d \in Dirs |-> IF d = v THEN "whole" ELSE "none"]
  OBVIOUS
<1>2. \A p \in Procs : proc[p] = Ended
  OBVIOUS
<1>3. Ended \in Job /\ Ended.at = "none" /\ Ended.op = "none"
  BY DEF Ended, Job, Labels
<1>4. CommandsOK
  BY <1>3 DEF CommandsOK
<1>5. FilesOK
  BY <1>1 DEF FilesOK, Dirs
<1>6. FlagsOK
  <2>1. worker \in BOOLEAN /\ complete \in BOOLEAN /\ pending \in BOOLEAN /\ marker \in BOOLEAN /\ exposed \in BOOLEAN /\ stale \in BOOLEAN /\ owed = "none"
    OBVIOUS
  <2>2. old \in {"up", "gone"} /\ oldguard \in BOOLEAN
    OBVIOUS
  <2>3. guard \in BOOLEAN
    OBVIOUS
  <2>4. wish \in BOOLEAN
    OBVIOUS
  <2> QED
    BY <2>1, <2>2, <2>3, <2>4 DEF FlagsOK
<1>7. TaskFits /\ OneAtATime /\ LocalIsAlone /\ MovesKeepCurrent
  BY <1>2, <1>3 DEF TaskFits, OneAtATime, Aside, LocalIsAlone,
     MovesKeepCurrent, Moving,
                    Finishing, Upgrading, Retiring
<1>8. FinishKnows /\ RetiringIsGuarded
  BY <1>2, <1>3 DEF FinishKnows, RetiringIsGuarded, Finishing, Upgrading, Retiring
<1>9. CurrentIsWhole
  BY <1>1 DEF CurrentIsWhole, Dirs
<1>10. RestartIsNotForgotten /\ XrayIsSafe /\ RestartIsKnown
  BY DEF RestartIsNotForgotten, XrayIsSafe, RestartIsKnown
<1>11. MigrationKeepsProtection
  BY DEF MigrationKeepsProtection
<1> QED
  BY <1>4, <1>5, <1>6, <1>7, <1>8, <1>9, <1>10, <1>11
  DEF UpdaterInv, TypeOK, InterruptedUpdateIsSafe

(* Wherever an update, an installation or a rollback is cut and whatever is *)
(* repeated beside it: the release in use is whole, a restart that is owed  *)
(* from the new links on is carried or marked, a completed installation has *)
(* the checked Xray, and the promised protection has no gap while the old   *)
(* VPN is retired (vpnctl's manager_update, finish_installation and         *)
(* retire_legacy); what the code does not do is excepted by stale, Lapses   *)
(* and exposed, as Updater says.                                            *)
THEOREM UpdaterIsSafeToInterrupt == Spec => []InterruptedUpdateIsSafe
<1>1. UpdaterInv /\ [Next]_vars => UpdaterInv'
  BY CommandKeeps, WorldKeeps, NextByCommand
<1>2. UpdaterInv => InterruptedUpdateIsSafe
  BY DEF UpdaterInv
<1> QED
  BY <1>1, <1>2, InitUpdater, PTL DEF Spec
-----------------------------------------------------------------------------
(* Reports.                                                                *)

IsRequest(r) == r = [srv |-> r.srv, at |-> r.at, id |-> r.id, body |-> r.body]

\* A request that fills no file, beside others that do.
LEMMA FillsBeside ==
  ASSUME R!OneFillsAFile, NEW t \in Threads, thread'[t].at # "fill",
         \A u \in Threads \ {t} : thread'[u] = thread[u],
         \A u \in Threads \ {t} : thread[u].at = "fill" =>
           doc'[thread[u].id] = doc[thread[u].id]
  PROVE  R!OneFillsAFile'
BY DEF R!OneFillsAFile

\* The identifiers a collector remembers are of reports.
LEMMA LimitsStep ==
  ASSUME R!ConstantsOK, R!ReportsInv, [R!Next]_(R!vars)
  PROVE  R!LimitsOK'
<1> USE DEF R!ConstantsOK, R!ReportsInv, R!TypeOK, R!ThreadsOK, R!LimitsOK,
   R!LogOK, R!FilesOK, R!RequestsFit, R!Idle, R!store, R!web, R!At
<1>1. CASE R!Prepare
  BY <1>1 DEF R!Prepare
<1>2. ASSUME NEW t \in Threads, NEW c \in Collectors, R!Send(t, c) PROVE R!LimitsOK'
  BY <1>2 DEF R!Send, R!Request
<1>3. ASSUME NEW t \in Threads, NEW n \in Names, NEW b \in Contents, R!Post(t, n,
             b)
      PROVE  R!LimitsOK'
  BY <1>3 DEF R!Post, R!Request
<1>4. ASSUME NEW t \in Threads, R!Take(t) PROVE R!LimitsOK'
  BY <1>4 DEF R!Take, R!Current, R!Aged, R!Goto, R!End
<1>5. ASSUME NEW t \in Threads, R!Write(t) PROVE R!LimitsOK'
  BY <1>5 DEF R!Write, R!Appended, R!Goto
<1>6. ASSUME NEW t \in Threads, R!WriteFails(t) PROVE R!LimitsOK'
  BY <1>6 DEF R!WriteFails, R!Fault, R!Release, R!End
<1>7. ASSUME NEW t \in Threads, R!Mark(t) PROVE R!LimitsOK'
  BY <1>7 DEF R!Mark, R!Remembered, R!Release, R!Goto
<1>8. ASSUME NEW t \in Threads, R!Refuse(t) PROVE R!LimitsOK'
  BY <1>8 DEF R!Refuse, R!End
<1>9. ASSUME NEW t \in Threads, R!WebRefuse(t) PROVE R!LimitsOK'
  BY <1>9 DEF R!WebRefuse, R!End
<1>10. ASSUME NEW t \in Threads, R!Limit(t) PROVE R!LimitsOK'
  BY <1>10 DEF R!Limit, R!Goto, R!End
<1>11. ASSUME NEW t \in Threads, R!Open(t) PROVE R!LimitsOK'
  BY <1>11 DEF R!Open, R!Without, R!Goto, R!End
<1>12. ASSUME NEW t \in Threads, R!Fill(t) PROVE R!LimitsOK'
  BY <1>12 DEF R!Fill, R!Goto, R!End, R!Fault
<1>13. ASSUME NEW t \in Threads, R!Compare(t) PROVE R!LimitsOK'
  BY <1>13 DEF R!Compare, R!Goto, R!End
<1>14. ASSUME NEW t \in Threads, R!Answer(t) PROVE R!LimitsOK'
  BY <1>14 DEF R!Answer, R!End
<1>15. ASSUME NEW c \in Collectors, R!Other(c) PROVE R!LimitsOK'
  BY <1>15 DEF R!Other, R!Aged
<1>16. ASSUME NEW c \in Collectors, R!CollectorDies(c) PROVE R!LimitsOK'
  BY <1>16 DEF R!CollectorDies, R!Fault
<1>17. ASSUME NEW c \in Collectors, R!Prune(c) PROVE R!LimitsOK'
  BY <1>17 DEF R!Prune, R!Aged
<1>18. CASE R!NextHour
  BY <1>18 DEF R!NextHour
<1>19. CASE R!NextDay
  BY <1>19 DEF R!NextDay
<1>20. CASE UNCHANGED R!vars
  BY <1>20 DEF R!vars
<1> QED
  BY <1>1, <1>2, <1>3, <1>4, <1>5, <1>6, <1>7, <1>8, <1>9, <1>10, <1>11,
     <1>12, <1>13, <1>14, <1>15, <1>16, <1>17, <1>18, <1>19, <1>20
  DEF R!Next

\* The log of the day keeps its type.
LEMMA LogStep ==
  ASSUME R!ConstantsOK, R!ReportsInv, [R!Next]_(R!vars)
  PROVE  R!LogOK'
<1> USE DEF R!ConstantsOK, R!ReportsInv, R!TypeOK, R!ThreadsOK, R!LimitsOK,
   R!LogOK, R!FilesOK, R!RequestsFit, R!Idle, R!store, R!web, R!At, R!Report,
   R!Empty
<1>1. CASE R!Prepare
  BY <1>1 DEF R!Prepare
<1>2. ASSUME NEW t \in Threads, NEW c \in Collectors, R!Send(t, c) PROVE R!LogOK'
  BY <1>2 DEF R!Send, R!Request
<1>3. ASSUME NEW t \in Threads, NEW n \in Names, NEW b \in Contents, R!Post(t, n,
             b)
      PROVE  R!LogOK'
  BY <1>3 DEF R!Post, R!Request
<1>4. ASSUME NEW t \in Threads, R!Take(t) PROVE R!LogOK'
  BY <1>4 DEF R!Take, R!Current, R!Aged, R!Goto, R!End
<1>5. ASSUME NEW t \in Threads, R!Write(t) PROVE R!LogOK'
  <2>1. /\ today.whole \in SUBSET ((1..MaxIds) \X {None}) /\ today.size \in Nat
        /\ today.torn \in BOOLEAN
    OBVIOUS
  <2>2. R!Report(t) \in (1..MaxIds) \X {None}
    BY <1>5 DEF R!Write, R!Report
  <2>3. PICK w \in {today.whole, today.whole \cup {R!Report(t)}} :
          today' = [whole |-> w, size |-> today.size + 1, torn |-> FALSE]
    BY <1>5 DEF R!Write, R!Appended
  <2> QED
    BY <2>1, <2>2, <2>3
<1>6. ASSUME NEW t \in Threads, R!WriteFails(t) PROVE R!LogOK'
  BY <1>6 DEF R!WriteFails, R!Fault, R!Release, R!End
<1>7. ASSUME NEW t \in Threads, R!Mark(t) PROVE R!LogOK'
  BY <1>7 DEF R!Mark, R!Remembered, R!Release, R!Goto
<1>8. ASSUME NEW t \in Threads, R!Refuse(t) PROVE R!LogOK'
  BY <1>8 DEF R!Refuse, R!End
<1>9. ASSUME NEW t \in Threads, R!WebRefuse(t) PROVE R!LogOK'
  BY <1>9 DEF R!WebRefuse, R!End
<1>10. ASSUME NEW t \in Threads, R!Limit(t) PROVE R!LogOK'
  BY <1>10 DEF R!Limit, R!Goto, R!End
<1>11. ASSUME NEW t \in Threads, R!Open(t) PROVE R!LogOK'
  BY <1>11 DEF R!Open, R!Without, R!Goto, R!End
<1>12. ASSUME NEW t \in Threads, R!Fill(t) PROVE R!LogOK'
  BY <1>12 DEF R!Fill, R!Goto, R!End, R!Fault
<1>13. ASSUME NEW t \in Threads, R!Compare(t) PROVE R!LogOK'
  BY <1>13 DEF R!Compare, R!Goto, R!End
<1>14. ASSUME NEW t \in Threads, R!Answer(t) PROVE R!LogOK'
  BY <1>14 DEF R!Answer, R!End
<1>15. ASSUME NEW c \in Collectors, R!Other(c) PROVE R!LogOK'
  <2>1. /\ today.whole \in SUBSET ((1..MaxIds) \X {None}) /\ today.size \in Nat
        /\ today.torn \in BOOLEAN
    OBVIOUS
  <2>2. today' = [whole |-> today.whole, size |-> today.size + 1, torn |-> FALSE]
    BY <1>15 DEF R!Other
  <2> QED
    BY <2>1, <2>2
<1>16. ASSUME NEW c \in Collectors, R!CollectorDies(c) PROVE R!LogOK'
  BY <1>16 DEF R!CollectorDies, R!Fault
<1>17. ASSUME NEW c \in Collectors, R!Prune(c) PROVE R!LogOK'
  BY <1>17 DEF R!Prune, R!Aged
<1>18. CASE R!NextHour
  BY <1>18 DEF R!NextHour
<1>19. CASE R!NextDay
  BY <1>19 DEF R!NextDay
<1>20. CASE UNCHANGED R!vars
  BY <1>20 DEF R!vars
<1> QED
  BY <1>1, <1>2, <1>3, <1>4, <1>5, <1>6, <1>7, <1>8, <1>9, <1>10, <1>11,
     <1>12, <1>13, <1>14, <1>15, <1>16, <1>17, <1>18, <1>19, <1>20
  DEF R!Next

\* So do the files of connect and the preview.
LEMMA DocsStep ==
  ASSUME R!ConstantsOK, R!ReportsInv, [R!Next]_(R!vars)
  PROVE  R!FilesOK'
<1> USE DEF R!ConstantsOK, R!ReportsInv, R!TypeOK, R!ThreadsOK, R!LimitsOK,
   R!LogOK, R!FilesOK, R!RequestsFit, R!Idle, R!store, R!web, R!At
<1>1. CASE R!Prepare
  BY <1>1 DEF R!Prepare
<1>2. ASSUME NEW t \in Threads, NEW c \in Collectors, R!Send(t, c) PROVE R!FilesOK'
  BY <1>2 DEF R!Send, R!Request
<1>3. ASSUME NEW t \in Threads, NEW n \in Names, NEW b \in Contents, R!Post(t, n,
             b)
      PROVE  R!FilesOK'
  BY <1>3 DEF R!Post, R!Request
<1>4. ASSUME NEW t \in Threads, R!Take(t) PROVE R!FilesOK'
  BY <1>4 DEF R!Take, R!Current, R!Aged, R!Goto, R!End
<1>5. ASSUME NEW t \in Threads, R!Write(t) PROVE R!FilesOK'
  BY <1>5 DEF R!Write, R!Appended, R!Goto
<1>6. ASSUME NEW t \in Threads, R!WriteFails(t) PROVE R!FilesOK'
  BY <1>6 DEF R!WriteFails, R!Fault, R!Release, R!End
<1>7. ASSUME NEW t \in Threads, R!Mark(t) PROVE R!FilesOK'
  BY <1>7 DEF R!Mark, R!Remembered, R!Release, R!Goto
<1>8. ASSUME NEW t \in Threads, R!Refuse(t) PROVE R!FilesOK'
  BY <1>8 DEF R!Refuse, R!End
<1>9. ASSUME NEW t \in Threads, R!WebRefuse(t) PROVE R!FilesOK'
  BY <1>9 DEF R!WebRefuse, R!End
<1>10. ASSUME NEW t \in Threads, R!Limit(t) PROVE R!FilesOK'
  BY <1>10 DEF R!Limit, R!Goto, R!End
<1>11. ASSUME NEW t \in Threads, R!Open(t) PROVE R!FilesOK'
  <2>1. \A gone \in SUBSET Names : R!Without(gone) \in [Names -> Contents \cup {"half", None}]
    BY DEF R!Without
  <2>2. PICK gone \in SUBSET Names :
          doc' \in {R!Without(gone), [R!Without(gone) EXCEPT ![thread[t].id] = "half"]}
    BY <1>11 DEF R!Open
  <2>3. R!Without(gone) \in [Names -> Contents \cup {"half", None}]
    BY <2>1
  <2>4. doc' \in [Names -> Contents \cup {"half", None}]
    BY <2>2, <2>3
  <2> QED
    BY <1>11, <2>4 DEF R!Open
<1>12. ASSUME NEW t \in Threads, R!Fill(t) PROVE R!FilesOK'
  BY <1>12 DEF R!Fill, R!Goto, R!End, R!Fault
<1>13. ASSUME NEW t \in Threads, R!Compare(t) PROVE R!FilesOK'
  BY <1>13 DEF R!Compare, R!Goto, R!End
<1>14. ASSUME NEW t \in Threads, R!Answer(t) PROVE R!FilesOK'
  BY <1>14 DEF R!Answer, R!End
<1>15. ASSUME NEW c \in Collectors, R!Other(c) PROVE R!FilesOK'
  BY <1>15 DEF R!Other, R!Aged
<1>16. ASSUME NEW c \in Collectors, R!CollectorDies(c) PROVE R!FilesOK'
  BY <1>16 DEF R!CollectorDies, R!Fault
<1>17. ASSUME NEW c \in Collectors, R!Prune(c) PROVE R!FilesOK'
  BY <1>17 DEF R!Prune, R!Aged
<1>18. CASE R!NextHour
  BY <1>18 DEF R!NextHour
<1>19. CASE R!NextDay
  BY <1>19 DEF R!NextDay
<1>20. CASE UNCHANGED R!vars
  BY <1>20 DEF R!vars
<1> QED
  BY <1>1, <1>2, <1>3, <1>4, <1>5, <1>6, <1>7, <1>8, <1>9, <1>10, <1>11,
     <1>12, <1>13, <1>14, <1>15, <1>16, <1>17, <1>18, <1>19, <1>20
  DEF R!Next

\* No step makes or loses a thread.
LEMMA StillThreads ==
  ASSUME R!ConstantsOK, R!ReportsInv, [R!Next]_(R!vars)
  PROVE  thread' = [u \in Threads |-> thread'[u]]
<1> USE DEF R!ConstantsOK, R!ReportsInv, R!TypeOK, R!ThreadsOK, R!LimitsOK,
   R!LogOK, R!FilesOK, R!RequestsFit, R!Idle, R!store, R!web, R!At
<1>1. CASE R!Prepare
  BY <1>1 DEF R!Prepare
<1>2. ASSUME NEW t \in Threads, NEW c \in Collectors, R!Send(t, c)
      PROVE  thread' = [u \in Threads |-> thread'[u]]
  BY <1>2 DEF R!Send, R!Request
<1>3. ASSUME NEW t \in Threads, NEW n \in Names, NEW b \in Contents, R!Post(t, n,
             b)
      PROVE  thread' = [u \in Threads |-> thread'[u]]
  BY <1>3 DEF R!Post, R!Request
<1>4. ASSUME NEW t \in Threads, R!Take(t)
      PROVE  thread' = [u \in Threads |-> thread'[u]]
  BY <1>4 DEF R!Take, R!Current, R!Aged, R!Goto, R!End
<1>5. ASSUME NEW t \in Threads, R!Write(t)
      PROVE  thread' = [u \in Threads |-> thread'[u]]
  BY <1>5 DEF R!Write, R!Appended, R!Goto
<1>6. ASSUME NEW t \in Threads, R!WriteFails(t)
      PROVE  thread' = [u \in Threads |-> thread'[u]]
  BY <1>6 DEF R!WriteFails, R!Fault, R!Release, R!End
<1>7. ASSUME NEW t \in Threads, R!Mark(t)
      PROVE  thread' = [u \in Threads |-> thread'[u]]
  BY <1>7 DEF R!Mark, R!Remembered, R!Release, R!Goto
<1>8. ASSUME NEW t \in Threads, R!Refuse(t)
      PROVE  thread' = [u \in Threads |-> thread'[u]]
  BY <1>8 DEF R!Refuse, R!End
<1>9. ASSUME NEW t \in Threads, R!WebRefuse(t)
      PROVE  thread' = [u \in Threads |-> thread'[u]]
  BY <1>9 DEF R!WebRefuse, R!End
<1>10. ASSUME NEW t \in Threads, R!Limit(t)
       PROVE  thread' = [u \in Threads |-> thread'[u]]
  BY <1>10 DEF R!Limit, R!Goto, R!End
<1>11. ASSUME NEW t \in Threads, R!Open(t)
       PROVE  thread' = [u \in Threads |-> thread'[u]]
  BY <1>11 DEF R!Open, R!Without, R!Goto, R!End
<1>12. ASSUME NEW t \in Threads, R!Fill(t)
       PROVE  thread' = [u \in Threads |-> thread'[u]]
  BY <1>12 DEF R!Fill, R!Goto, R!End, R!Fault
<1>13. ASSUME NEW t \in Threads, R!Compare(t)
       PROVE  thread' = [u \in Threads |-> thread'[u]]
  BY <1>13 DEF R!Compare, R!Goto, R!End
<1>14. ASSUME NEW t \in Threads, R!Answer(t)
       PROVE  thread' = [u \in Threads |-> thread'[u]]
  BY <1>14 DEF R!Answer, R!End
<1>15. ASSUME NEW c \in Collectors, R!Other(c)
       PROVE  thread' = [u \in Threads |-> thread'[u]]
  BY <1>15 DEF R!Other, R!Aged
<1>16. ASSUME NEW c \in Collectors, R!CollectorDies(c)
       PROVE  thread' = [u \in Threads |-> thread'[u]]
  BY <1>16 DEF R!CollectorDies, R!Fault
<1>17. ASSUME NEW c \in Collectors, R!Prune(c)
       PROVE  thread' = [u \in Threads |-> thread'[u]]
  BY <1>17 DEF R!Prune, R!Aged
<1>18. CASE R!NextHour
  BY <1>18 DEF R!NextHour
<1>19. CASE R!NextDay
  BY <1>19 DEF R!NextDay
<1>20. CASE UNCHANGED R!vars
  BY <1>20 DEF R!vars
<1> QED
  BY <1>1, <1>2, <1>3, <1>4, <1>5, <1>6, <1>7, <1>8, <1>9, <1>10, <1>11,
     <1>12, <1>13, <1>14, <1>15, <1>16, <1>17, <1>18, <1>19, <1>20
  DEF R!Next

\* What a thread is at stays a record.
LEMMA RecordsStep ==
  ASSUME R!ConstantsOK, R!ReportsInv, [R!Next]_(R!vars)
  PROVE  \A u \in Threads : IsRequest(thread'[u])
<1> USE DEF R!ConstantsOK, R!ReportsInv, R!TypeOK, R!ThreadsOK, R!LimitsOK,
   R!LogOK, R!FilesOK, R!RequestsFit, R!Idle, R!store, R!web, R!At, IsRequest
<1>1. CASE R!Prepare
  BY <1>1 DEF R!Prepare
<1>2. ASSUME NEW t \in Threads, NEW c \in Collectors, R!Send(t, c)
      PROVE  \A u \in Threads : IsRequest(thread'[u])
  BY <1>2 DEF R!Send, R!Request
<1>3. ASSUME NEW t \in Threads, NEW n \in Names, NEW b \in Contents, R!Post(t, n,
             b)
      PROVE  \A u \in Threads : IsRequest(thread'[u])
  BY <1>3 DEF R!Post, R!Request
<1>4. ASSUME NEW t \in Threads, R!Take(t)
      PROVE  \A u \in Threads : IsRequest(thread'[u])
  BY <1>4 DEF R!Take, R!Current, R!Aged, R!Goto, R!End
<1>5. ASSUME NEW t \in Threads, R!Write(t)
      PROVE  \A u \in Threads : IsRequest(thread'[u])
  BY <1>5 DEF R!Write, R!Appended, R!Goto
<1>6. ASSUME NEW t \in Threads, R!WriteFails(t)
      PROVE  \A u \in Threads : IsRequest(thread'[u])
  BY <1>6 DEF R!WriteFails, R!Fault, R!Release, R!End
<1>7. ASSUME NEW t \in Threads, R!Mark(t)
      PROVE  \A u \in Threads : IsRequest(thread'[u])
  BY <1>7 DEF R!Mark, R!Remembered, R!Release, R!Goto
<1>8. ASSUME NEW t \in Threads, R!Refuse(t)
      PROVE  \A u \in Threads : IsRequest(thread'[u])
  BY <1>8 DEF R!Refuse, R!End
<1>9. ASSUME NEW t \in Threads, R!WebRefuse(t)
      PROVE  \A u \in Threads : IsRequest(thread'[u])
  BY <1>9 DEF R!WebRefuse, R!End
<1>10. ASSUME NEW t \in Threads, R!Limit(t)
       PROVE  \A u \in Threads : IsRequest(thread'[u])
  BY <1>10 DEF R!Limit, R!Goto, R!End
<1>11. ASSUME NEW t \in Threads, R!Open(t)
       PROVE  \A u \in Threads : IsRequest(thread'[u])
  BY <1>11 DEF R!Open, R!Without, R!Goto, R!End
<1>12. ASSUME NEW t \in Threads, R!Fill(t)
       PROVE  \A u \in Threads : IsRequest(thread'[u])
  BY <1>12 DEF R!Fill, R!Goto, R!End, R!Fault
<1>13. ASSUME NEW t \in Threads, R!Compare(t)
       PROVE  \A u \in Threads : IsRequest(thread'[u])
  BY <1>13 DEF R!Compare, R!Goto, R!End
<1>14. ASSUME NEW t \in Threads, R!Answer(t)
       PROVE  \A u \in Threads : IsRequest(thread'[u])
  BY <1>14 DEF R!Answer, R!End
<1>15. ASSUME NEW c \in Collectors, R!Other(c)
       PROVE  \A u \in Threads : IsRequest(thread'[u])
  BY <1>15 DEF R!Other, R!Aged
<1>16. ASSUME NEW c \in Collectors, R!CollectorDies(c)
       PROVE  \A u \in Threads : IsRequest(thread'[u])
  BY <1>16 DEF R!CollectorDies, R!Fault
<1>17. ASSUME NEW c \in Collectors, R!Prune(c)
       PROVE  \A u \in Threads : IsRequest(thread'[u])
  BY <1>17 DEF R!Prune, R!Aged
<1>18. CASE R!NextHour
  BY <1>18 DEF R!NextHour
<1>19. CASE R!NextDay
  BY <1>19 DEF R!NextDay
<1>20. CASE UNCHANGED R!vars
  BY <1>20 DEF R!vars
<1> QED
  BY <1>1, <1>2, <1>3, <1>4, <1>5, <1>6, <1>7, <1>8, <1>9, <1>10, <1>11,
     <1>12, <1>13, <1>14, <1>15, <1>16, <1>17, <1>18, <1>19, <1>20
  DEF R!Next

\* A request keeps its server, and its report.
LEMMA RequestsStep ==
  ASSUME R!ConstantsOK, R!ReportsInv, [R!Next]_(R!vars)
  PROVE  R!RequestsFit'
<1> USE DEF R!ConstantsOK, R!ReportsInv, R!TypeOK, R!ThreadsOK, R!LimitsOK,
   R!LogOK, R!FilesOK, R!RequestsFit, R!Idle, R!store, R!web, R!At
<1>1. CASE R!Prepare
  BY <1>1 DEF R!Prepare
<1>2. ASSUME NEW t \in Threads, NEW c \in Collectors, R!Send(t, c)
      PROVE  R!RequestsFit'
  BY <1>2 DEF R!Send, R!Request
<1>3. ASSUME NEW t \in Threads, NEW n \in Names, NEW b \in Contents, R!Post(t, n,
             b)
      PROVE  R!RequestsFit'
  BY <1>3 DEF R!Post, R!Request
<1>4. ASSUME NEW t \in Threads, R!Take(t) PROVE R!RequestsFit'
  <2>1. thread[t].srv \in Collectors /\ thread[t].id \in 1..MaxIds /\ thread[t].body = None
    BY <1>4 DEF R!Take
  <2>2. PICK x \in {R!Idle, [thread[t] EXCEPT !.at = "answer"], [thread[t] EXCEPT !.at = "write"]} :
          thread' = [thread EXCEPT ![t] = x]
    BY <1>4 DEF R!Take, R!Goto, R!End
  <2> QED
    BY <2>1, <2>2
<1>5. ASSUME NEW t \in Threads, R!Write(t) PROVE R!RequestsFit'
  BY <1>5 DEF R!Write, R!Appended, R!Goto
<1>6. ASSUME NEW t \in Threads, R!WriteFails(t) PROVE R!RequestsFit'
  BY <1>6 DEF R!WriteFails, R!Fault, R!Release, R!End
<1>7. ASSUME NEW t \in Threads, R!Mark(t) PROVE R!RequestsFit'
  BY <1>7 DEF R!Mark, R!Remembered, R!Release, R!Goto
<1>8. ASSUME NEW t \in Threads, R!Refuse(t) PROVE R!RequestsFit'
  BY <1>8 DEF R!Refuse, R!End
<1>9. ASSUME NEW t \in Threads, R!WebRefuse(t) PROVE R!RequestsFit'
  BY <1>9 DEF R!WebRefuse, R!End
<1>10. ASSUME NEW t \in Threads, R!Limit(t) PROVE R!RequestsFit'
  BY <1>10 DEF R!Limit, R!Goto, R!End
<1>11. ASSUME NEW t \in Threads, R!Open(t) PROVE R!RequestsFit'
  <2>1. thread[t].srv = Web /\ thread[t].id \in Names /\ thread[t].body \in Contents
    BY <1>11 DEF R!Open
  <2>2. PICK x \in {R!Idle} \cup {[thread[t] EXCEPT !.at = y] : y \in {"fill", "compare"}} :
          thread' = [thread EXCEPT ![t] = x]
    BY <1>11 DEF R!Open, R!Goto, R!End
  <2>3. x = R!Idle \/ (x.srv = Web /\ x.at \in {"fill", "compare"} /\ x.id \in Names /\ x.body \in Contents)
    BY <2>1, <2>2
  <2> QED
    BY <2>2, <2>3
<1>12. ASSUME NEW t \in Threads, R!Fill(t) PROVE R!RequestsFit'
  <2>1. thread[t].srv = Web /\ thread[t].id \in Names /\ thread[t].body \in Contents
    BY <1>12 DEF R!Fill
  <2>2. PICK x \in {R!Idle} \cup {[thread[t] EXCEPT !.at = y] : y \in {"answer"}} :
          thread' = [thread EXCEPT ![t] = x]
    BY <1>12 DEF R!Fill, R!Goto, R!End
  <2>3. x = R!Idle \/ (x.srv = Web /\ x.at \in {"answer"} /\ x.id \in Names /\ x.body \in Contents)
    BY <2>1, <2>2
  <2> QED
    BY <2>2, <2>3
<1>13. ASSUME NEW t \in Threads, R!Compare(t) PROVE R!RequestsFit'
  BY <1>13 DEF R!Compare, R!Goto, R!End
<1>14. ASSUME NEW t \in Threads, R!Answer(t) PROVE R!RequestsFit'
  BY <1>14 DEF R!Answer, R!End
<1>15. ASSUME NEW c \in Collectors, R!Other(c) PROVE R!RequestsFit'
  BY <1>15 DEF R!Other, R!Aged
<1>16. ASSUME NEW c \in Collectors, R!CollectorDies(c) PROVE R!RequestsFit'
  BY <1>16 DEF R!CollectorDies, R!Fault
<1>17. ASSUME NEW c \in Collectors, R!Prune(c) PROVE R!RequestsFit'
  BY <1>17 DEF R!Prune, R!Aged
<1>18. CASE R!NextHour
  BY <1>18 DEF R!NextHour
<1>19. CASE R!NextDay
  BY <1>19 DEF R!NextDay
<1>20. CASE UNCHANGED R!vars
  BY <1>20 DEF R!vars
<1> QED
  BY <1>1, <1>2, <1>3, <1>4, <1>5, <1>6, <1>7, <1>8, <1>9, <1>10, <1>11,
     <1>12, <1>13, <1>14, <1>15, <1>16, <1>17, <1>18, <1>19, <1>20
  DEF R!Next

\* What was logged or stored is kept, or its removal is.
LEMMA KeptStays ==
  ASSUME R!ConstantsOK, R!ReportsInv, [R!Next]_(R!vars)
  PROVE  R!Logged \subseteq R!Logged' /\ R!Stored \subseteq R!Logged' \cup R!Stored'
<1> USE DEF R!ConstantsOK, R!ReportsInv, R!TypeOK, R!ThreadsOK, R!LimitsOK,
   R!LogOK, R!FilesOK, R!RequestsFit, R!Idle, R!store, R!web, R!At, R!Logged,
   R!Stored
<1>1. CASE R!Prepare
  BY <1>1 DEF R!Prepare
<1>2. ASSUME NEW t \in Threads, NEW c \in Collectors, R!Send(t, c)
      PROVE  R!Logged \subseteq R!Logged' /\ R!Stored \subseteq R!Logged' \cup R!Stored'
  BY <1>2 DEF R!Send, R!Request
<1>3. ASSUME NEW t \in Threads, NEW n \in Names, NEW b \in Contents, R!Post(t, n,
             b)
      PROVE  R!Logged \subseteq R!Logged' /\ R!Stored \subseteq R!Logged' \cup R!Stored'
  BY <1>3 DEF R!Post, R!Request
<1>4. ASSUME NEW t \in Threads, R!Take(t)
      PROVE  R!Logged \subseteq R!Logged' /\ R!Stored \subseteq R!Logged' \cup R!Stored'
  BY <1>4 DEF R!Take, R!Current, R!Aged, R!Goto, R!End
<1>5. ASSUME NEW t \in Threads, R!Write(t)
      PROVE  R!Logged \subseteq R!Logged' /\ R!Stored \subseteq R!Logged' \cup R!Stored'
  BY <1>5 DEF R!Write, R!Appended, R!Goto
<1>6. ASSUME NEW t \in Threads, R!WriteFails(t)
      PROVE  R!Logged \subseteq R!Logged' /\ R!Stored \subseteq R!Logged' \cup R!Stored'
  BY <1>6 DEF R!WriteFails, R!Fault, R!Release, R!End
<1>7. ASSUME NEW t \in Threads, R!Mark(t)
      PROVE  R!Logged \subseteq R!Logged' /\ R!Stored \subseteq R!Logged' \cup R!Stored'
  BY <1>7 DEF R!Mark, R!Remembered, R!Release, R!Goto
<1>8. ASSUME NEW t \in Threads, R!Refuse(t)
      PROVE  R!Logged \subseteq R!Logged' /\ R!Stored \subseteq R!Logged' \cup R!Stored'
  BY <1>8 DEF R!Refuse, R!End
<1>9. ASSUME NEW t \in Threads, R!WebRefuse(t)
      PROVE  R!Logged \subseteq R!Logged' /\ R!Stored \subseteq R!Logged' \cup R!Stored'
  BY <1>9 DEF R!WebRefuse, R!End
<1>10. ASSUME NEW t \in Threads, R!Limit(t)
       PROVE  R!Logged \subseteq R!Logged' /\ R!Stored \subseteq R!Logged' \cup R!Stored'
  BY <1>10 DEF R!Limit, R!Goto, R!End
<1>11. ASSUME NEW t \in Threads, R!Open(t)
       PROVE  R!Logged \subseteq R!Logged' /\ R!Stored \subseteq R!Logged' \cup R!Stored'
  BY <1>11 DEF R!Open, R!Without, R!Goto, R!End
<1>12. ASSUME NEW t \in Threads, R!Fill(t)
       PROVE  R!Logged \subseteq R!Logged' /\ R!Stored \subseteq R!Logged' \cup R!Stored'
  BY <1>12 DEF R!Fill, R!Goto, R!End, R!Fault, R!OneFillsAFile
<1>13. ASSUME NEW t \in Threads, R!Compare(t)
       PROVE  R!Logged \subseteq R!Logged' /\ R!Stored \subseteq R!Logged' \cup R!Stored'
  BY <1>13 DEF R!Compare, R!Goto, R!End
<1>14. ASSUME NEW t \in Threads, R!Answer(t)
       PROVE  R!Logged \subseteq R!Logged' /\ R!Stored \subseteq R!Logged' \cup R!Stored'
  BY <1>14 DEF R!Answer, R!End
<1>15. ASSUME NEW c \in Collectors, R!Other(c)
       PROVE  R!Logged \subseteq R!Logged' /\ R!Stored \subseteq R!Logged' \cup R!Stored'
  BY <1>15 DEF R!Other, R!Aged
<1>16. ASSUME NEW c \in Collectors, R!CollectorDies(c)
       PROVE  R!Logged \subseteq R!Logged' /\ R!Stored \subseteq R!Logged' \cup R!Stored'
  BY <1>16 DEF R!CollectorDies, R!Fault
<1>17. ASSUME NEW c \in Collectors, R!Prune(c)
       PROVE  R!Logged \subseteq R!Logged' /\ R!Stored \subseteq R!Logged' \cup R!Stored'
  BY <1>17 DEF R!Prune, R!Aged
<1>18. CASE R!NextHour
  BY <1>18 DEF R!NextHour
<1>19. CASE R!NextDay
  BY <1>19 DEF R!NextDay
<1>20. CASE UNCHANGED R!vars
  BY <1>20 DEF R!vars
<1> QED
  BY <1>1, <1>2, <1>3, <1>4, <1>5, <1>6, <1>7, <1>8, <1>9, <1>10, <1>11,
     <1>12, <1>13, <1>14, <1>15, <1>16, <1>17, <1>18, <1>19, <1>20
  DEF R!Next

\* What a collector remembers it has logged.
LEMMA IdsStep ==
  ASSUME R!ConstantsOK, R!ReportsInv, [R!Next]_(R!vars)
  PROVE  R!IdsAreLogged'
<1> USE DEF R!ConstantsOK, R!ReportsInv, R!TypeOK, R!ThreadsOK, R!LimitsOK,
   R!LogOK, R!FilesOK, R!RequestsFit, R!Idle, R!store, R!web, R!At,
   R!IdsAreLogged, R!Report
<1> USE KeptStays
<1>1. CASE R!Prepare
  BY <1>1 DEF R!Prepare
<1>2. ASSUME NEW t \in Threads, NEW c \in Collectors, R!Send(t, c)
      PROVE  R!IdsAreLogged'
  BY <1>2 DEF R!Send, R!Request
<1>3. ASSUME NEW t \in Threads, NEW n \in Names, NEW b \in Contents, R!Post(t, n,
             b)
      PROVE  R!IdsAreLogged'
  BY <1>3 DEF R!Post, R!Request
<1>4. ASSUME NEW t \in Threads, R!Take(t) PROVE R!IdsAreLogged'
  BY <1>4 DEF R!Take, R!Current, R!Aged, R!Goto, R!End
<1>5. ASSUME NEW t \in Threads, R!Write(t) PROVE R!IdsAreLogged'
  BY <1>5 DEF R!Write, R!Appended, R!Goto
<1>6. ASSUME NEW t \in Threads, R!WriteFails(t) PROVE R!IdsAreLogged'
  BY <1>6 DEF R!WriteFails, R!Fault, R!Release, R!End
<1>7. ASSUME NEW t \in Threads, R!Mark(t) PROVE R!IdsAreLogged'
  BY <1>7 DEF R!Mark, R!Remembered, R!Release, R!Goto, R!AnswersFollow
<1>8. ASSUME NEW t \in Threads, R!Refuse(t) PROVE R!IdsAreLogged'
  BY <1>8 DEF R!Refuse, R!End
<1>9. ASSUME NEW t \in Threads, R!WebRefuse(t) PROVE R!IdsAreLogged'
  BY <1>9 DEF R!WebRefuse, R!End
<1>10. ASSUME NEW t \in Threads, R!Limit(t) PROVE R!IdsAreLogged'
  BY <1>10 DEF R!Limit, R!Goto, R!End
<1>11. ASSUME NEW t \in Threads, R!Open(t) PROVE R!IdsAreLogged'
  BY <1>11 DEF R!Open, R!Without, R!Goto, R!End
<1>12. ASSUME NEW t \in Threads, R!Fill(t) PROVE R!IdsAreLogged'
  BY <1>12 DEF R!Fill, R!Goto, R!End, R!Fault
<1>13. ASSUME NEW t \in Threads, R!Compare(t) PROVE R!IdsAreLogged'
  BY <1>13 DEF R!Compare, R!Goto, R!End
<1>14. ASSUME NEW t \in Threads, R!Answer(t) PROVE R!IdsAreLogged'
  BY <1>14 DEF R!Answer, R!End
<1>15. ASSUME NEW c \in Collectors, R!Other(c) PROVE R!IdsAreLogged'
  BY <1>15 DEF R!Other, R!Aged
<1>16. ASSUME NEW c \in Collectors, R!CollectorDies(c) PROVE R!IdsAreLogged'
  BY <1>16 DEF R!CollectorDies, R!Fault
<1>17. ASSUME NEW c \in Collectors, R!Prune(c) PROVE R!IdsAreLogged'
  BY <1>17 DEF R!Prune, R!Aged
<1>18. CASE R!NextHour
  BY <1>18 DEF R!NextHour
<1>19. CASE R!NextDay
  BY <1>19 DEF R!NextDay
<1>20. CASE UNCHANGED R!vars
  BY <1>20 DEF R!vars
<1> QED
  BY <1>1, <1>2, <1>3, <1>4, <1>5, <1>6, <1>7, <1>8, <1>9, <1>10, <1>11,
     <1>12, <1>13, <1>14, <1>15, <1>16, <1>17, <1>18, <1>19, <1>20
  DEF R!Next

\* An answer follows the writing.
LEMMA AnswersStep ==
  ASSUME R!ConstantsOK, R!ReportsInv, [R!Next]_(R!vars)
  PROVE  R!AnswersFollow'
<1> USE DEF R!ConstantsOK, R!ReportsInv, R!TypeOK, R!ThreadsOK, R!LimitsOK,
   R!LogOK, R!FilesOK, R!RequestsFit, R!Idle, R!store, R!web, R!At,
   R!AnswersFollow, R!Report
<1> USE KeptStays
<1>1. CASE R!Prepare
  BY <1>1 DEF R!Prepare
<1>2. ASSUME NEW t \in Threads, NEW c \in Collectors, R!Send(t, c)
      PROVE  R!AnswersFollow'
  BY <1>2 DEF R!Send, R!Request
<1>3. ASSUME NEW t \in Threads, NEW n \in Names, NEW b \in Contents, R!Post(t, n,
             b)
      PROVE  R!AnswersFollow'
  BY <1>3 DEF R!Post, R!Request
<1>4. ASSUME NEW t \in Threads, R!Take(t) PROVE R!AnswersFollow'
  <2>1. thread[t].srv \in Collectors /\ thread[t].id \in 1..MaxIds /\ thread[t].body = None
    BY <1>4 DEF R!Take
  <2>2. R!Current(thread[t].srv).ids \subseteq limits[thread[t].srv].ids
    BY <2>1 DEF R!Current
  <2>3. PICK x \in {R!Idle, [thread[t] EXCEPT !.at = "answer"], [thread[t] EXCEPT !.at = "write"]} :
          /\ thread' = [thread EXCEPT ![t] = x]
          /\ x.at = "answer" => thread[t].id \in R!Current(thread[t].srv).ids
    BY <1>4 DEF R!Take, R!Goto, R!End
  <2>4. x.at = "answer" => <<x.id, x.body>> \in R!Logged
    BY <2>1, <2>2, <2>3 DEF R!IdsAreLogged
  <2>5. x.at # "mark"
    BY <2>3
  <2> QED
    BY <2>3, <2>4, <2>5
<1>5. ASSUME NEW t \in Threads, R!Write(t) PROVE R!AnswersFollow'
  <2>1. R!Report(t) \in R!Logged'
    BY <1>5 DEF R!Write, R!Appended, R!Logged
  <2>2. thread' = [thread EXCEPT ![t].at = "mark"]
    BY <1>5 DEF R!Write, R!Goto
  <2> QED
    BY <2>1, <2>2
<1>6. ASSUME NEW t \in Threads, R!WriteFails(t) PROVE R!AnswersFollow'
  BY <1>6 DEF R!WriteFails, R!Fault, R!Release, R!End
<1>7. ASSUME NEW t \in Threads, R!Mark(t) PROVE R!AnswersFollow'
  BY <1>7 DEF R!Mark, R!Remembered, R!Release, R!Goto
<1>8. ASSUME NEW t \in Threads, R!Refuse(t) PROVE R!AnswersFollow'
  BY <1>8 DEF R!Refuse, R!End
<1>9. ASSUME NEW t \in Threads, R!WebRefuse(t) PROVE R!AnswersFollow'
  BY <1>9 DEF R!WebRefuse, R!End
<1>10. ASSUME NEW t \in Threads, R!Limit(t) PROVE R!AnswersFollow'
  BY <1>10 DEF R!Limit, R!Goto, R!End
<1>11. ASSUME NEW t \in Threads, R!Open(t) PROVE R!AnswersFollow'
  BY <1>11 DEF R!Open, R!Without, R!Goto, R!End
<1>12. ASSUME NEW t \in Threads, R!Fill(t) PROVE R!AnswersFollow'
  <2>1. thread[t].id \in Names /\ thread[t].body \in Contents
    BY <1>12 DEF R!Fill
  <2>2. \/ /\ doc' = [doc EXCEPT ![thread[t].id] = thread[t].body]
           /\ thread' = [thread EXCEPT ![t].at = "answer"]
        \/ thread' = [thread EXCEPT ![t] = R!Idle]
    BY <1>12 DEF R!Fill, R!Goto, R!End
  <2>3. CASE thread' = [thread EXCEPT ![t] = R!Idle]
    BY <2>3
  <2>4. CASE /\ doc' = [doc EXCEPT ![thread[t].id] = thread[t].body]
             /\ thread' = [thread EXCEPT ![t].at = "answer"]
    <3>1. R!Report(t) \in R!Stored'
      BY <2>1, <2>4 DEF R!Stored
    <3> QED
      BY <2>4, <3>1
  <2> QED
    BY <2>2, <2>3, <2>4
<1>13. ASSUME NEW t \in Threads, R!Compare(t) PROVE R!AnswersFollow'
  <2>1. thread[t].id \in Names /\ thread[t].body \in Contents
    BY <1>13 DEF R!Compare
  <2>2. CASE doc[thread[t].id] = thread[t].body
    <3>1. R!Report(t) \in R!Stored
      BY <2>1, <2>2 DEF R!Stored
    <3>2. thread' = [thread EXCEPT ![t].at = "answer"]
      BY <1>13, <2>2 DEF R!Compare, R!Goto
    <3> QED
      BY <3>1, <3>2
  <2>3. CASE doc[thread[t].id] # thread[t].body
    BY <1>13, <2>3 DEF R!Compare, R!End
  <2> QED
    BY <2>2, <2>3
<1>14. ASSUME NEW t \in Threads, R!Answer(t) PROVE R!AnswersFollow'
  BY <1>14 DEF R!Answer, R!End
<1>15. ASSUME NEW c \in Collectors, R!Other(c) PROVE R!AnswersFollow'
  BY <1>15 DEF R!Other, R!Aged
<1>16. ASSUME NEW c \in Collectors, R!CollectorDies(c) PROVE R!AnswersFollow'
  BY <1>16 DEF R!CollectorDies, R!Fault
<1>17. ASSUME NEW c \in Collectors, R!Prune(c) PROVE R!AnswersFollow'
  BY <1>17 DEF R!Prune, R!Aged
<1>18. CASE R!NextHour
  BY <1>18 DEF R!NextHour
<1>19. CASE R!NextDay
  BY <1>19 DEF R!NextDay
<1>20. CASE UNCHANGED R!vars
  BY <1>20 DEF R!vars
<1> QED
  BY <1>1, <1>2, <1>3, <1>4, <1>5, <1>6, <1>7, <1>8, <1>9, <1>10, <1>11,
     <1>12, <1>13, <1>14, <1>15, <1>16, <1>17, <1>18, <1>19, <1>20
  DEF R!Next

\* One request fills a file, and nobody removes it meanwhile.
LEMMA FillsStep ==
  ASSUME R!ConstantsOK, R!ReportsInv, [R!Next]_(R!vars)
  PROVE  R!OneFillsAFile'
<1> USE DEF R!ConstantsOK, R!ReportsInv, R!TypeOK, R!ThreadsOK, R!LimitsOK,
   R!LogOK, R!FilesOK, R!RequestsFit, R!Idle, R!store, R!web, R!At,
   R!OneFillsAFile
<1>1. CASE R!Prepare
  BY <1>1 DEF R!Prepare
<1>2. ASSUME NEW t \in Threads, NEW c \in Collectors, R!Send(t, c)
      PROVE  R!OneFillsAFile'
  BY <1>2 DEF R!Send, R!Request
<1>3. ASSUME NEW t \in Threads, NEW n \in Names, NEW b \in Contents, R!Post(t, n,
             b)
      PROVE  R!OneFillsAFile'
  BY <1>3 DEF R!Post, R!Request
<1>4. ASSUME NEW t \in Threads, R!Take(t) PROVE R!OneFillsAFile'
  <2>1. thread'[t].at # "fill" /\ \A u \in Threads \ {t} : thread'[u] = thread[u]
    BY <1>4 DEF R!Take, R!Goto, R!End
  <2>2. doc' = doc
    BY <1>4 DEF R!Take
  <2> QED
    BY <2>1, <2>2, FillsBeside
<1>5. ASSUME NEW t \in Threads, R!Write(t) PROVE R!OneFillsAFile'
  BY <1>5 DEF R!Write, R!Appended, R!Goto
<1>6. ASSUME NEW t \in Threads, R!WriteFails(t) PROVE R!OneFillsAFile'
  BY <1>6 DEF R!WriteFails, R!Fault, R!Release, R!End
<1>7. ASSUME NEW t \in Threads, R!Mark(t) PROVE R!OneFillsAFile'
  BY <1>7 DEF R!Mark, R!Remembered, R!Release, R!Goto
<1>8. ASSUME NEW t \in Threads, R!Refuse(t) PROVE R!OneFillsAFile'
  BY <1>8 DEF R!Refuse, R!End
<1>9. ASSUME NEW t \in Threads, R!WebRefuse(t) PROVE R!OneFillsAFile'
  BY <1>9 DEF R!WebRefuse, R!End
<1>10. ASSUME NEW t \in Threads, R!Limit(t) PROVE R!OneFillsAFile'
  BY <1>10 DEF R!Limit, R!Goto, R!End
<1>11. ASSUME NEW t \in Threads, R!Open(t) PROVE R!OneFillsAFile'
  <2>1. thread[t].id \in Names
    BY <1>11 DEF R!Open
  <2>2. PICK gone \in SUBSET {n \in Names : \A u \in Threads : R!At(u, {Web}, "fill") => thread[u].id # n} :
          \/ doc' = R!Without(gone) /\ thread' = [thread EXCEPT ![t] = R!Idle]
          \/ /\ R!Without(gone)[thread[t].id] = None
             /\ doc' = [R!Without(gone) EXCEPT ![thread[t].id] = "half"]
             /\ thread' = [thread EXCEPT ![t].at = "fill"]
          \/ doc' = R!Without(gone) /\ thread' = [thread EXCEPT ![t].at = "compare"]
    BY <1>11 DEF R!Open, R!Goto, R!End
  <2>3. \A u \in Threads : thread[u].at = "fill" =>
          /\ thread[u].id \in Names /\ thread[u].id \notin gone
          /\ R!Without(gone)[thread[u].id] = "half" /\ u # t
    BY <1>11, <2>2 DEF R!Open, R!Without
  <2>4. DOMAIN R!Without(gone) = Names
    BY DEF R!Without
  <2>5. \A u \in Threads : u # t => thread'[u] = thread[u]
    BY <2>2
  <2>6. thread'[t].at = "fill" => /\ R!Without(gone)[thread[t].id] = None
                                 /\ thread'[t].id = thread[t].id /\ doc'[thread[t].id] = "half"
    BY <2>1, <2>2, <2>4
  <2>7. \A u \in Threads : u # t /\ thread[u].at = "fill" => doc'[thread[u].id] = "half"
    BY <2>2, <2>3, <2>4
  <2>8. \A u \in Threads : u # t /\ thread[u].at = "fill" /\ thread'[t].at = "fill" =>
          thread[u].id # thread[t].id
    <3> SUFFICES ASSUME NEW u \in Threads, u # t, thread[u].at = "fill", thread'[t].at = "fill",
                        thread[u].id = thread[t].id
                 PROVE  FALSE
      OBVIOUS
    <3>1. R!Without(gone)[thread[u].id] = "half"
      BY <2>3
    <3>2. R!Without(gone)[thread[t].id] = None
      BY <2>6
    <3> QED
      BY <3>1, <3>2
  <2> QED
    BY <2>5, <2>6, <2>7, <2>8
<1>12. ASSUME NEW t \in Threads, R!Fill(t) PROVE R!OneFillsAFile'
  <2>1. thread'[t].at # "fill" /\ \A u \in Threads \ {t} : thread'[u] = thread[u]
    BY <1>12 DEF R!Fill, R!Goto, R!End
  <2>2. \A n \in Names \ {thread[t].id} : doc'[n] = doc[n]
    BY <1>12 DEF R!Fill
  <2>3. \A u \in Threads \ {t} : thread[u].at = "fill" =>
          thread[u].id # thread[t].id /\ thread[u].id \in Names
    BY <1>12 DEF R!Fill
  <2>4. \A u \in Threads \ {t} : thread[u].at = "fill" =>
          doc'[thread[u].id] = doc[thread[u].id]
    BY <2>2, <2>3
  <2> HIDE DEF R!OneFillsAFile
  <2> QED
    BY <2>1, <2>4, FillsBeside
<1>13. ASSUME NEW t \in Threads, R!Compare(t) PROVE R!OneFillsAFile'
  BY <1>13 DEF R!Compare, R!Goto, R!End
<1>14. ASSUME NEW t \in Threads, R!Answer(t) PROVE R!OneFillsAFile'
  BY <1>14 DEF R!Answer, R!End
<1>15. ASSUME NEW c \in Collectors, R!Other(c) PROVE R!OneFillsAFile'
  BY <1>15 DEF R!Other, R!Aged
<1>16. ASSUME NEW c \in Collectors, R!CollectorDies(c) PROVE R!OneFillsAFile'
  BY <1>16 DEF R!CollectorDies, R!Fault
<1>17. ASSUME NEW c \in Collectors, R!Prune(c) PROVE R!OneFillsAFile'
  BY <1>17 DEF R!Prune, R!Aged
<1>18. CASE R!NextHour
  BY <1>18 DEF R!NextHour
<1>19. CASE R!NextDay
  BY <1>19 DEF R!NextDay
<1>20. CASE UNCHANGED R!vars
  BY <1>20 DEF R!vars
<1> QED
  BY <1>1, <1>2, <1>3, <1>4, <1>5, <1>6, <1>7, <1>8, <1>9, <1>10, <1>11,
     <1>12, <1>13, <1>14, <1>15, <1>16, <1>17, <1>18, <1>19, <1>20
  DEF R!Next

\* What the sender was told is kept.
LEMMA ToldStep ==
  ASSUME R!ConstantsOK, R!ReportsInv, [R!Next]_(R!vars)
  PROVE  R!ToldIsKept'
<1> USE DEF R!ConstantsOK, R!ReportsInv, R!TypeOK, R!ThreadsOK, R!LimitsOK,
   R!LogOK, R!FilesOK, R!RequestsFit, R!Idle, R!store, R!web, R!At,
   R!ToldIsKept
<1> USE KeptStays
<1>1. CASE R!Prepare
  BY <1>1 DEF R!Prepare
<1>2. ASSUME NEW t \in Threads, NEW c \in Collectors, R!Send(t, c)
      PROVE  R!ToldIsKept'
  BY <1>2 DEF R!Send, R!Request
<1>3. ASSUME NEW t \in Threads, NEW n \in Names, NEW b \in Contents, R!Post(t, n,
             b)
      PROVE  R!ToldIsKept'
  BY <1>3 DEF R!Post, R!Request
<1>4. ASSUME NEW t \in Threads, R!Take(t) PROVE R!ToldIsKept'
  BY <1>4 DEF R!Take, R!Current, R!Aged, R!Goto, R!End
<1>5. ASSUME NEW t \in Threads, R!Write(t) PROVE R!ToldIsKept'
  BY <1>5 DEF R!Write, R!Appended, R!Goto
<1>6. ASSUME NEW t \in Threads, R!WriteFails(t) PROVE R!ToldIsKept'
  BY <1>6 DEF R!WriteFails, R!Fault, R!Release, R!End
<1>7. ASSUME NEW t \in Threads, R!Mark(t) PROVE R!ToldIsKept'
  BY <1>7 DEF R!Mark, R!Remembered, R!Release, R!Goto
<1>8. ASSUME NEW t \in Threads, R!Refuse(t) PROVE R!ToldIsKept'
  BY <1>8 DEF R!Refuse, R!End
<1>9. ASSUME NEW t \in Threads, R!WebRefuse(t) PROVE R!ToldIsKept'
  BY <1>9 DEF R!WebRefuse, R!End
<1>10. ASSUME NEW t \in Threads, R!Limit(t) PROVE R!ToldIsKept'
  BY <1>10 DEF R!Limit, R!Goto, R!End
<1>11. ASSUME NEW t \in Threads, R!Open(t) PROVE R!ToldIsKept'
  BY <1>11 DEF R!Open, R!Without, R!Goto, R!End
<1>12. ASSUME NEW t \in Threads, R!Fill(t) PROVE R!ToldIsKept'
  BY <1>12 DEF R!Fill, R!Goto, R!End, R!Fault
<1>13. ASSUME NEW t \in Threads, R!Compare(t) PROVE R!ToldIsKept'
  BY <1>13 DEF R!Compare, R!Goto, R!End
<1>14. ASSUME NEW t \in Threads, R!Answer(t) PROVE R!ToldIsKept'
  BY <1>14 DEF R!Answer, R!End, R!AnswersFollow
<1>15. ASSUME NEW c \in Collectors, R!Other(c) PROVE R!ToldIsKept'
  BY <1>15 DEF R!Other, R!Aged
<1>16. ASSUME NEW c \in Collectors, R!CollectorDies(c) PROVE R!ToldIsKept'
  BY <1>16 DEF R!CollectorDies, R!Fault
<1>17. ASSUME NEW c \in Collectors, R!Prune(c) PROVE R!ToldIsKept'
  BY <1>17 DEF R!Prune, R!Aged
<1>18. CASE R!NextHour
  BY <1>18 DEF R!NextHour
<1>19. CASE R!NextDay
  BY <1>19 DEF R!NextDay
<1>20. CASE UNCHANGED R!vars
  BY <1>20 DEF R!vars
<1> QED
  BY <1>1, <1>2, <1>3, <1>4, <1>5, <1>6, <1>7, <1>8, <1>9, <1>10, <1>11,
     <1>12, <1>13, <1>14, <1>15, <1>16, <1>17, <1>18, <1>19, <1>20
  DEF R!Next

LEMMA ThreadsStep ==
  ASSUME R!ConstantsOK, R!ReportsInv, [R!Next]_(R!vars)
  PROVE  R!ThreadsOK'
<1>1. thread' = [u \in Threads |-> thread'[u]]
  BY StillThreads
<1>2. R!RequestsFit'
  BY RequestsStep
<1>3. \A u \in Threads : thread'[u] \in
        [srv : Collectors \cup {Web, None}, at : R!Steps,
         id : 1..MaxIds \cup Names \cup {None}, body : Contents \cup {None}]
  <2> SUFFICES ASSUME NEW u \in Threads
               PROVE  thread'[u] \in [srv : Collectors \cup {Web, None}, at : R!Steps,
                                      id : 1..MaxIds \cup Names \cup {None},
                                      body : Contents \cup {None}]
    OBVIOUS
  <2>1. CASE thread'[u] = R!Idle
    BY <2>1 DEF R!Idle, R!Steps
  <2>2. CASE thread'[u] # R!Idle
    <3>1. /\ thread'[u].srv \in Collectors \cup {Web} /\ thread'[u].at \in R!Steps
          /\ thread'[u].id \in 1..MaxIds \cup Names /\ thread'[u].body \in Contents \cup {None}
      BY <1>2, <2>2 DEF R!RequestsFit, R!Steps
    <3>2. thread'[u] = [srv |-> thread'[u].srv, at |-> thread'[u].at,
                        id |-> thread'[u].id, body |-> thread'[u].body]
      BY RecordsStep DEF IsRequest
    <3> DEFINE r == thread'[u]
    <3>3. r = [srv |-> r.srv, at |-> r.at, id |-> r.id, body |-> r.body]
          /\ r.srv \in Collectors \cup {Web} /\ r.at \in R!Steps
          /\ r.id \in 1..MaxIds \cup Names /\ r.body \in Contents \cup {None}
      BY <3>1, <3>2
    <3> HIDE DEF r
    <3>4. r \in [srv : Collectors \cup {Web, None}, at : R!Steps,
                id : 1..MaxIds \cup Names \cup {None}, body : Contents \cup {None}]
      BY <3>3
    <3> QED
      BY <3>4 DEF r
  <2> QED
    BY <2>1, <2>2
<1> QED
  BY <1>1, <1>3 DEF R!ThreadsOK

LEMMA InitReports ==
  ASSUME R!ConstantsOK, R!Init
  PROVE  R!ReportsInv
<1> USE DEF R!ConstantsOK, R!Init
<1>1. R!ThreadsOK
  BY DEF R!ThreadsOK, R!Idle, R!Steps
<1>2. R!LimitsOK /\ R!FilesOK
  BY DEF R!LimitsOK, R!FilesOK
<1>3. R!LogOK
  BY DEF R!LogOK, R!Empty
<1>4. \A t \in Threads : thread[t] = R!Idle
  OBVIOUS
<1>5. R!RequestsFit /\ R!AnswersFollow /\ R!OneFillsAFile
  BY <1>4 DEF R!RequestsFit, R!AnswersFollow, R!OneFillsAFile, R!Idle
<1>6. R!IdsAreLogged /\ R!ToldIsKept
  BY DEF R!IdsAreLogged, R!ToldIsKept
<1> QED
  BY <1>1, <1>2, <1>3, <1>5, <1>6 DEF R!ReportsInv, R!TypeOK

(* What a sender was told is accepted is on file, whole and as it was sent, *)
(* until its age removes it: over repeated sends by both collectors, their  *)
(* limits, a full disk, restarts and two requests for one file (store_report *)
(* and connect's report()).  What was written behind a torn line is apart.  *)
THEOREM ReportsAreKept ==
  ASSUME R!ConstantsOK
  PROVE  R!Spec => []AcceptedIsKept
<1>1. R!ReportsInv /\ [R!Next]_(R!vars) => R!ReportsInv'
  BY ThreadsStep, LimitsStep, LogStep, DocsStep, RequestsStep, IdsStep, AnswersStep,
     FillsStep, ToldStep
  DEF R!ReportsInv, R!TypeOK
<1>2. R!ReportsInv => AcceptedIsKept
  BY DEF R!ReportsInv, R!ToldIsKept, R!Logged, R!Stored, AcceptedIsKept
<1>3. R!Init => R!ReportsInv
  BY InitReports
<1> QED
  BY <1>1, <1>2, <1>3, PTL DEF R!Spec
-----------------------------------------------------------------------------
(* The server's egress, for any budget of repairs, limit of starts of the  *)
(* link and number of failures.                                            *)

\* The steps of the entry's script that come after the fallback, and those
\* that come after the rule which sends the clients to it.
AfterRule  == {"entry", "nat", "look", "clearW", "acceptW", "viaW", "backW", "clients"}
AfterBlock == {"ruleW"} \cup AfterRule

(* The guard of the IKE pool stays for good.  The interface of the others  *)
(* is made last, and what holds their packets is never taken away again:   *)
(* neither by a down, nor by a reload, nor with the namespace.             *)
HeldBack ==
  /\ at = [p \in E!Scripts |-> at[p]]
  /\ "guard" \in kernel
  /\ "clients" \in kernel => "blockW" \in kernel /\ "ruleW" \in kernel
  /\ at["entry"] \in AfterBlock => "blockW" \in kernel
  /\ at["entry"] \in AfterRule => "ruleW" \in kernel

\* Nothing of the entry's goes, and its script does not get further.
Beside ==
  /\ at' = [p \in E!Scripts |-> at'[p]]
  /\ {"guard", "blockW", "ruleW"} \cap kernel \subseteq kernel'
  /\ "clients" \in kernel' => "clients" \in kernel
  /\ at'["entry"] \in AfterBlock => at'["entry"] = at["entry"]

LEMMA BesideKeeps == HeldBack /\ Beside => HeldBack'
BY DEF HeldBack, Beside, AfterBlock

LEMMA RelayIsBeside ==
  ASSUME HeldBack, NEW p \in E!Relays, E!RelayStep(p)
  PROVE  Beside
<1>1. PICK step : at' = [at EXCEPT ![p] = step]
  BY DEF E!RelayStep, E!Do, E!Guard, E!Block, E!Rule, E!AddLink, E!MovePeer,
     E!Network, E!Table, E!RemoveAccept,
         E!Accept, E!Via, E!Unvia, E!Unlink, E!Untable
<1>2. at' = [q \in E!Scripts |-> at'[q]] /\ at'["entry"] = at["entry"]
  BY <1>1 DEF HeldBack, E!Relays, E!Scripts
<1>3. /\ {"guard", "blockW", "ruleW"} \cap kernel \subseteq kernel'
      /\ "clients" \in kernel' => "clients" \in kernel
  BY DEF E!RelayStep, E!Guard, E!Block, E!Rule, E!AddLink, E!MovePeer,
     E!Network, E!Table, E!RemoveAccept,
         E!Accept, E!Via, E!Unvia, E!Unlink, E!Untable, E!Add, E!Remove, E!Pair
<1> QED
  BY <1>2, <1>3 DEF Beside

LEMMA OrderOfEntry ==
  /\ E!After["blockW"] = "ruleW" /\ E!After["ruleW"] = "entry" /\ E!After["clients"] = "done"
  /\ E!After["unclients"] = "unacceptW" /\ E!After["unacceptW"] = "done"
BY DEF E!After

LEMMA EntryKeeps ==
  ASSUME HeldBack, E!EntryStep
  PROVE  HeldBack'
<1> USE DEF AfterBlock, AfterRule
<1>1. CASE E!Own
  BY <1>1 DEF E!Own, HeldBack, E!Scripts
<1>2. CASE E!BlockW
  BY <1>2, OrderOfEntry DEF E!BlockW, E!Do, E!Add, HeldBack, E!Scripts
<1>3. CASE E!RuleW
  BY <1>3, OrderOfEntry DEF E!RuleW, E!Do, E!Add, HeldBack, E!Scripts
<1>4. CASE E!Entry \/ E!EntryNat \/ E!Look \/ E!AcceptW \/ E!ViaW \/ E!BackW
  <2>1. kernel \subseteq kernel' /\ ("clients" \in kernel' => "clients" \in kernel)
        /\ at["entry"] \in AfterRule /\ at' = [at EXCEPT !["entry"] = E!After[at["entry"]]]
    BY <1>4 DEF E!Entry, E!EntryNat, E!Look, E!AcceptW, E!ViaW, E!BackW, E!Do, E!Add
  <2> QED
    BY <2>1 DEF HeldBack, E!Scripts
<1>5. CASE E!ClearW
  <2>1. /\ kernel' = kernel \ {"acceptW"}
        /\ at["entry"] \in {"clearW", "unacceptW"} /\ at' = [at EXCEPT !["entry"] = E!After[at["entry"]]]
    BY <1>5 DEF E!ClearW, E!Do, E!Remove
  <2>2. CASE at["entry"] = "clearW"
    BY <2>1, <2>2 DEF HeldBack, E!Scripts
  <2>3. CASE at["entry"] = "unacceptW"
    BY <2>1, <2>3, OrderOfEntry DEF HeldBack, E!Scripts
  <2> QED
    BY <2>1, <2>2, <2>3
<1>6. CASE E!Clients
  BY <1>6, OrderOfEntry DEF E!Clients, E!Do, E!Add, HeldBack, E!Scripts
<1>7. CASE E!Unclients
  BY <1>7, OrderOfEntry DEF E!Unclients, E!Do, E!Remove, HeldBack, E!Scripts
<1> QED
  BY <1>1, <1>2, <1>3, <1>4, <1>5, <1>6, <1>7 DEF E!EntryStep

LEMMA HeldBackStep == HeldBack /\ [E!Next]_(E!vars) => HeldBack'
<1> SUFFICES ASSUME HeldBack, [E!Next]_(E!vars) PROVE HeldBack'
  OBVIOUS
<1> USE BesideKeeps DEF AfterBlock, AfterRule
<1>1. ASSUME NEW p \in E!Relays, E!RelayStep(p) PROVE HeldBack'
  BY <1>1, RelayIsBeside
<1>2. CASE E!EntryStep
  BY <1>2, EntryKeeps
<1>3. CASE E!Systemd
  BY <1>3 DEF E!Systemd, E!StartRelay, E!StopRelay, E!StartIngress,
     E!StopIngress, E!Sync, E!To, Beside, HeldBack, E!Scripts
<1>4. CASE E!UnitDone \/ E!CheckDone \/ E!EntryDone
  BY <1>4 DEF E!UnitDone, E!CheckDone, E!EntryDone, E!To, Beside, HeldBack,
     E!Scripts
<1>5. CASE E!SyncElapses \/ E!CheckElapses \/ E!HourPasses \/ E!WindowPasses
  BY <1>5 DEF E!SyncElapses, E!CheckElapses, E!HourPasses, E!WindowPasses, E!To, Beside,
     HeldBack, E!Scripts
<1>6. ASSUME NEW p \in E!Scripts, E!Fails(p) PROVE HeldBack'
  <2>1. at' = [at EXCEPT ![p] = "idle"] /\ kernel' = kernel
    BY <1>6 DEF E!Fails, E!To
  <2> QED
    BY <2>1 DEF Beside, HeldBack, E!Scripts
<1>7. CASE E!SystemctlStopRelay \/ E!SystemctlStopIngress \/ E!SystemctlStopLink
           \/ E!ResourceHold
  BY <1>7 DEF E!SystemctlStopRelay, E!SystemctlStopIngress, E!SystemctlStopLink,
     E!ResourceHold, E!TakeDown, E!To, Beside, HeldBack, E!Scripts
<1>8. CASE E!ReloadFirewall \/ E!NamespaceLost
  BY <1>8 DEF E!ReloadFirewall, E!NamespaceLost, E!Remove, E!Pair, Beside, HeldBack
<1>9. CASE E!Reboot
  BY <1>9 DEF E!Reboot, HeldBack, E!Scripts
<1>10. CASE E!LinkUnit \/ E!ModeChanges \/ E!Release
  BY <1>10 DEF E!LinkUnit, E!SkipLink, E!StartLink, E!StopLink, E!ModeChanges, E!Release,
     E!units, Beside, HeldBack
<1>11. CASE UNCHANGED E!vars
  BY <1>11 DEF E!vars, Beside, HeldBack
<1> QED
  BY <1>1, <1>2, <1>3, <1>4, <1>5, <1>6, <1>7, <1>8, <1>9, <1>10, <1>11 DEF E!Next

(* No packet of a client leaves by the server's own default route: at any  *)
(* step of the relay's, the check's and the entry's script beside each     *)
(* other, after any number of failures, kills, reloads, stops and reboots, *)
(* and whatever the link's unit does.                                      *)
THEOREM EgressNeverDirect == E!Spec => []NeverDirect
<1>1. E!Init => HeldBack
  BY DEF E!Init, HeldBack, AfterBlock, AfterRule, E!Scripts
<1>2. HeldBack /\ [E!Next]_(E!vars) => HeldBack'
  BY HeldBackStep
<1>3. HeldBack => NeverDirect
  BY DEF HeldBack, NeverDirect, Direct
<1> QED
  BY <1>1, <1>2, <1>3, PTL DEF E!Spec
=============================================================================
