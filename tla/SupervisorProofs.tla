-------------------------- MODULE SupervisorProofs --------------------------
(***************************************************************************)
(* The kill switch of Supervisor holds and can be undone, and losses are   *)
(* kept, for all paths, resolver contents, numbers of faults and removals  *)
(* that fail.  Two inductive invariants: SafetyInv, the order in which     *)
(* activate_full closes and cleanup_full opens, with cleanup_full working  *)
(* alone; RankingInv, that the path a worker is on is a candidate of the   *)
(* ranking, which needs that an order has every path at one place.         *)
(***************************************************************************)
EXTENDS Supervisor, FiniteSetTheorems, SequenceTheorems, TLAPS

(* Nothing is promised or blocked before the first connect.                *)
LEMMA InitSafety == Init => SafetyInv
BY SupervisorAssumption
DEF Init, SafetyInv, ClosedFirst, ReleasedInOrder, PromiseIsDurable,
    ResolverIsSaved, BlockCanBeUndone, DisconnectRestores, Activating, Releasing

(* Every step of the worker, systemd, a command or the host keeps it.      *)
LEMMA SafetyStep == SafetyInv /\ [Next]_vars => SafetyInv'
<1> SUFFICES ASSUME SafetyInv, [Next]_vars PROVE SafetyInv'
  OBVIOUS
<1> USE SupervisorAssumption
    DEF SafetyInv, ClosedFirst, ReleasedInOrder, PromiseIsDurable,
        ResolverIsSaved, BlockCanBeUndone, DisconnectRestores, Activating,
        Releasing, Stopping, Removed, Ignored, disk, rank, kernel, worker, world,
        history
<1>1. CASE WorkerClean
  BY <1>1 DEF WorkerClean, TakeDown, To
<1>2. CASE PrepareFails
  BY <1>2 DEF PrepareFails, SetupFails, EnrollFails, To
<1>3. CASE Prepare
  BY <1>3 DEF Prepare
<1>4. CASE Measure
  BY <1>4 DEF Measure, To
<1>5. CASE Unmark
  BY <1>5 DEF Unmark
<1>6. CASE StartCandidate
  BY <1>6 DEF StartCandidate, To
<1>7. CASE CandidateFails
  BY <1>7 DEF CandidateFails, To
<1>8. CASE InstallGuard
  BY <1>8 DEF InstallGuard, To
<1>9. CASE PersistFile
  BY <1>9 DEF PersistFile, To
<1>10. CASE PersistUnit
  BY <1>10 DEF PersistUnit, To
<1>11. CASE SwitchTraffic
  BY <1>11 DEF SwitchTraffic, To
<1>12. CASE SwitchResolver
  BY <1>12 DEF SwitchResolver, To, UseResolverFile
<1>13. CASE Announce
  BY <1>13 DEF Announce
<1>14. CASE ActivationFails
  BY <1>14 DEF ActivationFails, To
<1>15. CASE Healthy
  BY <1>15 DEF Healthy, UseResolverFile
<1>16. CASE Unhealthy
  BY <1>16 DEF Unhealthy
<1>17. CASE Charge
  BY <1>17 DEF Charge
<1>18. CASE Clear
  BY <1>18 DEF Clear, TakeDown, To
<1>19. CASE SeeStop
  BY <1>19 DEF SeeStop, To
<1>20. CASE WorkerExit
  BY <1>20 DEF WorkerExit, TakeDown, Off
<1>21. CASE WorkerDies
  BY <1>21 DEF WorkerDies, To
<1>22. CASE StopPost
  BY <1>22 DEF StopPost, TakeDown, Off
<1>23. CASE JobDone
  BY <1>23 DEF JobDone
<1>24. CASE Connect
  BY <1>24 DEF Connect
<1>25. CASE Repair
  BY <1>25 DEF Repair
<1>26. CASE SaveToken
  BY <1>26 DEF SaveToken
<1>27. CASE BeginDisconnect
  BY <1>27 DEF BeginDisconnect
<1>28. CASE Stopped
  BY <1>28 DEF Stopped, TakeDown
<1>29. CASE RestoreResolver
  BY <1>29 DEF RestoreResolver
<1>30. CASE DropRules
  BY <1>30 DEF DropRules
<1>31. CASE DisableGuard
  BY <1>31 DEF DisableGuard
<1>32. CASE DropGuard
  BY <1>32 DEF DropGuard
<1>33. CASE UnlinkState
  BY <1>33 DEF UnlinkState
<1>34. CASE EndDisconnect
  BY <1>34 DEF EndDisconnect
<1>35. CASE CliDies
  BY <1>35 DEF CliDies
<1>36. CASE Reboot
  BY <1>36 DEF Reboot, Off
<1>37. CASE ChangeWorld
  BY <1>37 DEF ChangeWorld
<1>38. CASE UNCHANGED vars
  BY <1>38 DEF vars
<1> QED
  BY <1>1, <1>2, <1>3, <1>4, <1>5, <1>6, <1>7, <1>8, <1>9, <1>10, <1>11,
     <1>12, <1>13, <1>14, <1>15, <1>16, <1>17, <1>18, <1>19, <1>20, <1>21,
     <1>22, <1>23, <1>24, <1>25, <1>26, <1>27, <1>28, <1>29, <1>30, <1>31,
     <1>32, <1>33, <1>34, <1>35, <1>36, <1>37, <1>38
  DEF Next, Disconnecting

(* Once connected was announced the filter is in the kernel, through any  *)
(* number of crashes, lost paths and reboots, until cleanup_full's release *)
(* (README.md:131).                                                        *)
THEOREM SupervisorProtects == Spec => []ProtectionHolds
<1>1. SafetyInv => ProtectionHolds
  BY DEF SafetyInv, PromiseIsDurable, ProtectionHolds
<1> QED
  BY <1>1, InitSafety, SafetyStep, PTL DEF Spec

(* Wherever activate_full or cleanup_full is interrupted, the state that   *)
(* cleanup_full needs outlives the guard, its unit and the ip rules.       *)
THEOREM SupervisorCanBeUndone == Spec => []BlockCanBeUndone
<1>1. SafetyInv => BlockCanBeUndone
  BY DEF SafetyInv, PromiseIsDurable, BlockCanBeUndone
<1> QED
  BY <1>1, InitSafety, SafetyStep, PTL DEF Spec

(* A disconnect that ends has opened the network, stopped the worker and   *)
(* given the resolver file back, whatever interrupted the ones before it.  *)
THEOREM SupervisorRestores == Spec => []DisconnectRestores
<1>1. SafetyInv => DisconnectRestores
  BY DEF SafetyInv, PromiseIsDurable, DisconnectRestores
<1> QED
  BY <1>1, InitSafety, SafetyStep, PTL DEF Spec
-----------------------------------------------------------------------------
(* The operators of Ranking: an order has every path at one place, and the *)
(* first candidate and the next one after a loss are candidates.           *)

LEMMA PositionsAreNumbers ==
  /\ Len(Ids) \in Nat /\ Positions = 1..Len(Ids) /\ Positions # {}
  /\ IsFiniteSet(Positions) /\ Cardinality(Positions) = Len(Ids)
<1>1. Len(Ids) \in Nat /\ Positions = 1..Len(Ids)
  BY IdsAssumption DEF Positions
<1>2. Len(Ids) # 0
  BY IdsAssumption, EmptySeq
<1>3. /\ IsFiniteSet(1..Len(Ids))
      /\ Cardinality(1..Len(Ids)) = IF 1 > Len(Ids) THEN 0 ELSE Len(Ids) - 1 + 1
  <2>1. 1 \in Int /\ Len(Ids) \in Int
    BY <1>1
  <2> QED
    BY <2>1, FS_Interval
<1>4. Positions # {} /\ Cardinality(Positions) = Len(Ids)
  BY <1>1, <1>2, <1>3
<1> QED
  BY <1>1, <1>3, <1>4

LEMMA IdsIsOrder == Ids \in Orders
<1>1. Ids \in [Positions -> Paths]
  BY IdsAssumption DEF Positions
<1> QED
  BY <1>1, IdsAssumption DEF Orders, Positions

LEMMA PathsAreCounted == IsFiniteSet(Paths) /\ Cardinality(Paths) = Len(Ids)
<1>1. Ids \in [Positions -> Paths] /\ \A i, j \in Positions : Ids[i] = Ids[j] => i = j
  BY IdsIsOrder DEF Orders
<1>2. \A p \in Paths : \E i \in Positions : Ids[i] = p
  BY DEF Paths, Positions
<1>3. Ids \in Bijection(1..Len(Ids), Paths)
  BY <1>1, <1>2, PositionsAreNumbers DEF Bijection, Injection, Surjection,
     IsInjective
<1>4. ExistsBijection(1..Len(Ids), Paths)
  BY <1>3 DEF ExistsBijection
<1>5. Cardinality(Paths) = Len(Ids)
  BY <1>4, PositionsAreNumbers, FS_CountingElements
<1>6. IsFiniteSet(Paths)
  BY <1>4, PositionsAreNumbers, FS_NatBijection
<1> QED
  BY <1>5, <1>6

\* An order that repeats no path misses none.
LEMMA OrderHasEveryPath ==
  ASSUME NEW o \in Orders, NEW p \in Paths
  PROVE  Place(o, p) \in Positions /\ o[Place(o, p)] = p
<1>1. o \in Injection(Positions, Paths)
  BY DEF Orders, Injection, IsInjective
<1>2. o \in Surjection(Positions, Paths)
  BY <1>1, PathsAreCounted, PositionsAreNumbers, FS_Injection
<1>3. \E i \in Positions : o[i] = p
  BY <1>2 DEF Surjection
<1> QED
  BY <1>3 DEF Place

LEMMA SmallestNumber ==
  ASSUME NEW T, T \subseteq Nat, T # {}
  PROVE  \E x \in T : \A y \in T : x <= y
<1> DEFINE Less == OpToRel(<, Nat)
<1>1. PICK x \in T : \A y \in T : <<y, x>> \notin Less
  BY NatLessThanWellFounded, WFMin, Zenon
<1>2. \A y \in T : y < x => <<y, x>> \in Less
  BY DEF OpToRel
<1> HIDE DEF Less
<1>3. \A y \in T : ~(y < x)
  BY <1>1, <1>2
<1> QED
  BY <1>3

LEMMA FirstIsMember ==
  ASSUME NEW r \in Rankings, NEW S, S \subseteq Paths, S # {}
  PROVE  FirstOf(r, S) \in S
<1> DEFINE T == {Place(r.order, p) : p \in S}
<1>1. r.order \in Orders
  BY DEF Rankings
<1>2. T \subseteq Nat /\ T # {}
  BY <1>1, OrderHasEveryPath, PositionsAreNumbers
<1>3. PICK x \in T : \A y \in T : x <= y
  BY <1>2, SmallestNumber
<1>4. PICK p \in S : x = Place(r.order, p)
  BY <1>3
<1>5. \A q \in S : Place(r.order, p) <= Place(r.order, q)
  BY <1>3, <1>4
<1> QED
  BY <1>4, <1>5 DEF FirstOf

LEMMA NextIsCandidate ==
  ASSUME NEW r \in Rankings, NEW p
  PROVE  NextAfter(r, p, None) \in Candidates(r) \cup {None}
<1> DEFINE rest == {q \in Candidates(r) : Place(r.order, q) > Place(r.order, p)}
<1>1. rest \subseteq Candidates(r) /\ Candidates(r) \subseteq Paths
  BY DEF Candidates
<1>2. CASE rest # {}
  <2>1. FirstOf(r, rest) \in rest
    BY <1>1, <1>2, FirstIsMember
  <2> QED
    BY <1>2, <2>1 DEF NextAfter
<1>3. CASE rest = {} /\ Candidates(r) # {}
  <2>1. FirstOf(r, Candidates(r)) \in Candidates(r)
    BY <1>1, <1>3, FirstIsMember
  <2> QED
    BY <1>3, <2>1 DEF NextAfter
<1>4. CASE rest = {} /\ Candidates(r) = {}
  BY <1>4 DEF NextAfter
<1> QED
  BY <1>2, <1>3, <1>4

LEMMA BuildIsRanking ==
  ASSUME NEW ok \in SUBSET Paths, NEW o \in OrdersOf(ok)
  PROVE  Build(ok, o) \in Rankings /\ Candidates(Build(ok, o)) = Paths
BY DEF Build, OrdersOf, Rankings, MaxLosses, Candidates

LEMMA BootstrapIsRanking == Bootstrap \in Rankings /\ Candidates(Bootstrap) = Paths
BY IdsIsOrder DEF Bootstrap, Rankings, MaxLosses, Candidates

LEMMA PathsExist == Paths # {}
BY PositionsAreNumbers DEF Paths, Positions

LEMMA LoseIsRanking ==
  ASSUME NEW r \in Rankings, NEW p \in Paths
  PROVE  /\ Lose(r, p) \in Rankings
         /\ \A q \in Paths : q # p => Lose(r, p).losses[q] = r.losses[q]
         /\ p \in Candidates(r) => Lose(r, p).losses[p] = r.losses[p] + 1
         /\ \A q \in Paths : Lose(r, p).losses[q] >= r.losses[q]
<1>1. r.losses \in [Paths -> 0..3] /\ r.order \in Orders
  BY DEF Rankings, MaxLosses
<1>2. r = [order |-> r.order, losses |-> r.losses]
  BY DEF Rankings
<1>3. Lose(r, p) = [order |-> r.order, losses |->
        [r.losses EXCEPT ![p] = IF @ < 3 THEN @ + 1 ELSE @]]
  BY <1>2 DEF Lose, MaxLosses
<1>4. [r.losses EXCEPT ![p] = IF @ < 3 THEN @ + 1 ELSE @] \in [Paths -> 0..3]
  BY <1>1
<1>5. Lose(r, p) \in Rankings
  BY <1>1, <1>3, <1>4 DEF Rankings, MaxLosses
<1>6. \A q \in Paths : q # p => Lose(r, p).losses[q] = r.losses[q]
  BY <1>1, <1>3
<1>7. p \in Candidates(r) => Lose(r, p).losses[p] = r.losses[p] + 1
  BY <1>1, <1>3 DEF Candidates, MaxLosses
<1>8. \A q \in Paths : Lose(r, p).losses[q] >= r.losses[q]
  BY <1>1, <1>3
<1> QED
  BY <1>5, <1>6, <1>7, <1>8
-----------------------------------------------------------------------------
(* The ranking and the worker's local variables.                           *)

LEMMA InitRanking == Init => RankingInv
<1>1. ASSUME Init PROVE TypeOK
  <2> USE <1>1 DEF Init, Starting, Activating, Running
  <2>1. /\ ranking \in Rankings \cup {NoRanking} /\ wire \in Paths \cup {None}
        /\ current \in Paths \cup {None} /\ good \subseteq Paths
        /\ original \in Resolvers \cup {Own, None} /\ foreign \in Resolvers
        /\ resolver \in Resolvers \cup {Own}
    OBVIOUS
  <2>2. /\ state \in {"none", "inactive", "active"} /\ cli \in {"idle", "stop", "done"} 
        /\ pc \in {"off"} /\ job \in {"none", "stop", "restart"}
        /\ phase \in {"off", "starting"} /\ failures \in 0..2 /\ slow \in 0..3
        /\ faults \in Nat /\ changes \in Nat
    OBVIOUS
  <2>3. /\ ruleFile \in BOOLEAN /\ enabled \in BOOLEAN /\ recalibrate \in BOOLEAN
        /\ guard \in BOOLEAN /\ rules \in BOOLEAN /\ route \in BOOLEAN
        /\ up \in BOOLEAN /\ promised \in BOOLEAN
    OBVIOUS
  <2> QED
    BY <2>1, <2>2, <2>3 DEF TypeOK
<1>2. Init => RankingIsThere /\ CurrentIsCandidate /\ LimitsAreAhead
  BY DEF Init, RankingIsThere, CurrentIsCandidate, LimitsAreAhead, Trying,
     Activating
<1> QED
  BY <1>1, <1>2 DEF RankingInv

\* The steps that move the ranking, and what each makes of it.
LEMMA RankingMoves ==
  ASSUME RankingInv, [Next]_vars, ranking' # ranking
  PROVE  \/ /\ pc = "prepare" /\ ~recalibrate /\ ranking' = Bootstrap
            /\ ranking = NoRanking \/ Candidates(ranking) = {}
         \/ /\ pc = "measure" /\ recalibrate
            /\ ranking' \in Rankings /\ Candidates(ranking') = Paths
         \/ /\ pc = "lost" /\ up /\ ranking' = Lose(ranking, current)
            /\ ranking \in Rankings /\ current \in Candidates(ranking)
         \/ pc = "off" /\ ranking' = NoRanking
<1>1. CASE Prepare
  BY <1>1 DEF Prepare
<1>2. CASE Measure
  <2>1. recalibrate
    BY <1>2 DEF Measure, RankingInv, RankingIsThere
  <2> QED
    BY <1>2, <2>1, BuildIsRanking DEF Measure
<1>3. CASE Charge
  BY <1>3 DEF Charge, RankingInv, TypeOK, RankingIsThere, CurrentIsCandidate, Trying
<1>4. CASE SaveToken
  BY <1>4 DEF SaveToken
<1>5. CASE ~(Prepare \/ Measure \/ Charge \/ SaveToken)
  <2> USE DEF rank, vars
  <2>1. ~WorkerClean
    BY DEF WorkerClean
  <2>2. ~PrepareFails
    BY DEF PrepareFails, SetupFails, EnrollFails
  <2>3. ~Unmark
    BY DEF Unmark
  <2>4. ~StartCandidate
    BY DEF StartCandidate
  <2>5. ~CandidateFails
    BY DEF CandidateFails
  <2>6. ~InstallGuard
    BY DEF InstallGuard
  <2>7. ~PersistFile
    BY DEF PersistFile
  <2>8. ~PersistUnit
    BY DEF PersistUnit
  <2>9. ~SwitchTraffic
    BY DEF SwitchTraffic
  <2>10. ~SwitchResolver
    BY DEF SwitchResolver, UseResolverFile
  <2>11. ~Announce
    BY DEF Announce
  <2>12. ~ActivationFails
    BY DEF ActivationFails
  <2>13. ~Healthy
    BY DEF Healthy, UseResolverFile
  <2>14. ~Unhealthy
    BY DEF Unhealthy
  <2>15. ~Clear
    BY DEF Clear
  <2>16. ~SeeStop
    BY DEF SeeStop
  <2>17. ~WorkerExit
    BY DEF WorkerExit
  <2>18. ~WorkerDies
    BY DEF WorkerDies
  <2>19. ~StopPost
    BY DEF StopPost
  <2>20. ~JobDone
    BY DEF JobDone
  <2>21. ~Connect
    BY DEF Connect
  <2>22. ~Repair
    BY DEF Repair
  <2>23. ~BeginDisconnect
    BY DEF BeginDisconnect
  <2>24. ~Disconnecting
    BY DEF Disconnecting, Stopped, RestoreResolver, DropRules, DisableGuard,
       DropGuard, UnlinkState, EndDisconnect
  <2>25. ~CliDies
    BY DEF CliDies
  <2>26. ~Reboot
    BY DEF Reboot
  <2>27. ~ChangeWorld
    BY DEF ChangeWorld
  <2> QED
    BY <1>5, <2>1, <2>2, <2>3, <2>4, <2>5, <2>6, <2>7, <2>8, <2>9, <2>10,
       <2>11, <2>12, <2>13, <2>14, <2>15, <2>16, <2>17, <2>18, <2>19, <2>20,
       <2>21, <2>22, <2>23, <2>24, <2>25, <2>26, <2>27 DEF Next
<1> QED
  BY <1>1, <1>2, <1>3, <1>4, <1>5

\* The steps that choose a path choose a candidate.
LEMMA ChoiceStep ==
  ASSUME RankingInv, [Next]_vars
  PROVE  RankingIsThere' /\ CurrentIsCandidate' /\ current' \in Paths \cup {None}
<1> USE SupervisorAssumption
    DEF RankingInv, RankingIsThere, CurrentIsCandidate, Trying, Activating, rank,
        kernel, worker
<1>a. /\ pc \in {"off"} \cup Starting \cup Activating \cup Running
      /\ ranking \in Rankings \cup {NoRanking} /\ current \in Paths \cup {None}
  BY DEF TypeOK
<1>b. \A r \in Rankings : r # NoRanking /\ Candidates(r) \subseteq Paths
  BY DEF Candidates
<1> USE <1>a
<1>1. CASE WorkerClean
  BY <1>1 DEF WorkerClean, TakeDown, To
<1>2. CASE PrepareFails
  BY <1>2 DEF PrepareFails, SetupFails, EnrollFails, To
<1>3. CASE Prepare
  <2>1. CASE recalibrate
    BY <1>3, <2>1 DEF Prepare
  <2>2. CASE ~recalibrate
    <3>1. ranking' \in Rankings /\ Candidates(ranking') # {}
      BY <1>3, <2>2, BootstrapIsRanking, PathsExist DEF Prepare
    <3>2. current' \in Candidates(ranking')
      BY <1>3, <2>2, <3>1, <1>b, FirstIsMember DEF Prepare
    <3> QED
      BY <1>3, <2>2, <3>1, <3>2, <1>b DEF Prepare
  <2> QED
    BY <2>1, <2>2
<1>4. CASE Measure
  <2>1. ranking' \in Rankings /\ Candidates(ranking') = Paths
    BY <1>4, BuildIsRanking DEF Measure
  <2> QED
    BY <1>4, <2>1, <1>b DEF Measure, To
<1>5. CASE Unmark
  <2>1. ranking \in Rankings /\ Candidates(ranking) # {}
    BY <1>5, PathsExist DEF Unmark
  <2>2. current' \in Candidates(ranking)
    BY <1>5, <2>1, <1>b, FirstIsMember DEF Unmark
  <2> QED
    BY <1>5, <2>1, <2>2, <1>b DEF Unmark
<1>6. CASE StartCandidate
  BY <1>6 DEF StartCandidate, To
<1>7. CASE CandidateFails
  BY <1>7 DEF CandidateFails, To
<1>8. CASE InstallGuard
  BY <1>8 DEF InstallGuard, To
<1>9. CASE PersistFile
  BY <1>9 DEF PersistFile, To
<1>10. CASE PersistUnit
  BY <1>10 DEF PersistUnit, To
<1>11. CASE SwitchTraffic
  BY <1>11 DEF SwitchTraffic, To
<1>12. CASE SwitchResolver
  BY <1>12 DEF SwitchResolver, To, UseResolverFile
<1>13. CASE Announce
  BY <1>13 DEF Announce
<1>14. CASE ActivationFails
  BY <1>14 DEF ActivationFails, To
<1>15. CASE Healthy
  BY <1>15 DEF Healthy, UseResolverFile
<1>16. CASE Unhealthy
  BY <1>16 DEF Unhealthy
<1>17. CASE Charge
  <2>1. ranking \in Rankings /\ current \in Candidates(ranking)
    BY <1>17 DEF Charge
  <2>2. Lose(ranking, current) \in Rankings
    BY <2>1, <1>b, LoseIsRanking
  <2>3. CASE up
    <3>1. ranking' \in Rankings /\ current' \in Candidates(ranking') \cup {None}
      BY <1>17, <2>2, <2>3, NextIsCandidate DEF Charge
    <3> QED
      BY <1>17, <3>1, <1>b DEF Charge
  <2>4. CASE ~up
    BY <1>17, <2>1, <2>4, <1>b DEF Charge
  <2> QED
    BY <2>3, <2>4
<1>18. CASE Clear
  BY <1>18 DEF Clear, TakeDown, To
<1>19. CASE SeeStop
  BY <1>19 DEF SeeStop, To
<1>20. CASE WorkerExit
  BY <1>20 DEF WorkerExit, TakeDown, Off
<1>21. CASE WorkerDies
  BY <1>21 DEF WorkerDies, To
<1>22. CASE StopPost
  BY <1>22 DEF StopPost, TakeDown, Off
<1>23. CASE JobDone
  BY <1>23 DEF JobDone
<1>24. CASE Connect
  BY <1>24 DEF Connect
<1>25. CASE Repair
  BY <1>25 DEF Repair
<1>26. CASE SaveToken
  BY <1>26 DEF SaveToken
<1>27. CASE BeginDisconnect
  BY <1>27 DEF BeginDisconnect
<1>28. CASE Disconnecting
  BY <1>28 DEF Disconnecting, Stopped, TakeDown, RestoreResolver, DropRules,
     DisableGuard, DropGuard, UnlinkState, EndDisconnect
<1>29. CASE CliDies
  BY <1>29 DEF CliDies
<1>30. CASE Reboot
  BY <1>30 DEF Reboot, Off
<1>31. CASE ChangeWorld
  BY <1>31 DEF ChangeWorld
<1>32. CASE UNCHANGED vars
  BY <1>32 DEF vars
<1> QED
  BY <1>1, <1>2, <1>3, <1>4, <1>5, <1>6, <1>7, <1>8, <1>9, <1>10, <1>11,
     <1>12, <1>13, <1>14, <1>15, <1>16, <1>17, <1>18, <1>19, <1>20, <1>21,
     <1>22, <1>23, <1>24, <1>25, <1>26, <1>27, <1>28, <1>29, <1>30, <1>31,
     <1>32
  DEF Next

\* Every other value keeps its type, and the watch loop leaves in time.
LEMMA ValuesStep ==
  ASSUME RankingInv, [Next]_vars
  PROVE  TypeOK' /\ LimitsAreAhead'
<1>a. current' \in Paths \cup {None}
  BY ChoiceStep
<1> DEFINE
  Switches == /\ ruleFile \in BOOLEAN /\ enabled \in BOOLEAN /\ recalibrate \in BOOLEAN
              /\ guard \in BOOLEAN /\ rules \in BOOLEAN /\ route \in BOOLEAN
              /\ up \in BOOLEAN /\ promised \in BOOLEAN
  Labels == /\ state \in {"none", "inactive", "active"}
            /\ pc \in {"off"} \cup Starting \cup Activating \cup Running
            /\ job \in {"none", "stop", "restart"}
            /\ cli \in {"idle", "stop", "done"} \cup Releasing
            /\ failures \in 0..2 /\ slow \in 0..3 /\ LimitsAreAhead
<1>b. ranking' \in Rankings \cup {NoRanking}
  <2>1. \A p \in Candidates(ranking) : p \in Paths
    BY DEF Candidates
  <2> QED
    BY <2>1, RankingMoves, BootstrapIsRanking, LoseIsRanking DEF RankingInv, TypeOK
<1> USE <1>a, <1>b
    DEF RankingInv, TypeOK, LimitsAreAhead, Starting, Activating, Running,
        Releasing, Removed, Ignored, disk, rank, kernel, worker, world, history
<1>1. CASE WorkerClean
  <2>1. Switches'
    BY <1>1 DEF WorkerClean, TakeDown, To
  <2>2. Labels'
    BY <1>1 DEF WorkerClean, TakeDown, To
  <2> QED
    BY <1>1, <2>1, <2>2 DEF WorkerClean, TakeDown, To
<1>2. CASE PrepareFails
  <2>1. CASE SetupFails
    <3>1. Switches'
      BY <2>1 DEF SetupFails, To
    <3>2. Labels'
      BY <2>1 DEF SetupFails, To
    <3> QED
      BY <2>1, <3>1, <3>2 DEF SetupFails, To
  <2>2. CASE EnrollFails
    <3>1. Switches'
      BY <2>2 DEF EnrollFails, To
    <3>2. Labels'
      BY <2>2 DEF EnrollFails, To
    <3> QED
      BY <2>2, <3>1, <3>2 DEF EnrollFails, To
  <2> QED
    BY <1>2, <2>1, <2>2 DEF PrepareFails
<1>3. CASE Prepare
  BY <1>3 DEF Prepare
<1>4. CASE Measure
  BY <1>4 DEF Measure, To
<1>5. CASE Unmark
  <2>1. Switches'
    BY <1>5 DEF Unmark
  <2>2. Labels'
    BY <1>5 DEF Unmark
  <2> QED
    BY <1>5, <2>1, <2>2 DEF Unmark
<1>6. CASE StartCandidate
  BY <1>6 DEF StartCandidate, To
<1>7. CASE CandidateFails
  BY <1>7 DEF CandidateFails, To
<1>8. CASE InstallGuard
  BY <1>8 DEF InstallGuard, To
<1>9. CASE PersistFile
  BY <1>9 DEF PersistFile, To
<1>10. CASE PersistUnit
  BY <1>10 DEF PersistUnit, To
<1>11. CASE SwitchTraffic
  BY <1>11 DEF SwitchTraffic, To
<1>12. CASE SwitchResolver
  BY <1>12 DEF SwitchResolver, To, UseResolverFile
<1>13. CASE Announce
  BY <1>13 DEF Announce
<1>14. CASE ActivationFails
  BY <1>14 DEF ActivationFails, To
<1>15. CASE Healthy
  BY <1>15 DEF Healthy, UseResolverFile
<1>16. CASE Unhealthy
  BY <1>16 DEF Unhealthy
<1>17. CASE Charge
  BY <1>17 DEF Charge
<1>18. CASE Clear
  <2>1. Switches'
    BY <1>18 DEF Clear, TakeDown, To
  <2>2. Labels'
    BY <1>18 DEF Clear, TakeDown, To
  <2> QED
    BY <1>18, <2>1, <2>2 DEF Clear, TakeDown, To
<1>19. CASE SeeStop
  BY <1>19 DEF SeeStop, To
<1>20. CASE WorkerExit
  <2>1. Switches'
    BY <1>20 DEF WorkerExit, TakeDown, Off
  <2>2. Labels'
    BY <1>20 DEF WorkerExit, TakeDown, Off
  <2> QED
    BY <1>20, <2>1, <2>2 DEF WorkerExit, TakeDown, Off
<1>21. CASE WorkerDies
  BY <1>21 DEF WorkerDies, To
<1>22. CASE StopPost
  <2>1. Switches'
    BY <1>22 DEF StopPost, TakeDown, Off
  <2>2. Labels'
    BY <1>22 DEF StopPost, TakeDown, Off
  <2> QED
    BY <1>22, <2>1, <2>2 DEF StopPost, TakeDown, Off
<1>23. CASE JobDone
  BY <1>23 DEF JobDone
<1>24. CASE Connect
  BY <1>24 DEF Connect
<1>25. CASE Repair
  BY <1>25 DEF Repair
<1>26. CASE SaveToken
  <2>1. Switches'
    BY <1>26 DEF SaveToken
  <2>2. Labels'
    BY <1>26 DEF SaveToken
  <2> QED
    BY <1>26, <2>1, <2>2 DEF SaveToken
<1>27. CASE BeginDisconnect
  BY <1>27 DEF BeginDisconnect
<1>28. CASE Disconnecting
  <2>1. CASE Stopped
    <3>1. Switches'
      BY <2>1 DEF Stopped, TakeDown
    <3>2. Labels'
      BY <2>1 DEF Stopped, TakeDown
    <3> QED
      BY <2>1, <3>1, <3>2 DEF Stopped, TakeDown
  <2>2. CASE RestoreResolver
    <3>1. Switches'
      BY <2>2 DEF RestoreResolver
    <3>2. Labels'
      BY <2>2 DEF RestoreResolver
    <3> QED
      BY <2>2, <3>1, <3>2 DEF RestoreResolver
  <2>3. CASE DropRules
    <3>1. Switches'
      BY <2>3 DEF DropRules
    <3>2. Labels'
      BY <2>3 DEF DropRules
    <3> QED
      BY <2>3, <3>1, <3>2 DEF DropRules
  <2>4. CASE DisableGuard
    <3>1. Switches'
      BY <2>4 DEF DisableGuard
    <3>2. Labels'
      BY <2>4 DEF DisableGuard
    <3> QED
      BY <2>4, <3>1, <3>2 DEF DisableGuard
  <2>5. CASE DropGuard
    <3>1. Switches'
      BY <2>5 DEF DropGuard
    <3>2. Labels'
      BY <2>5 DEF DropGuard
    <3> QED
      BY <2>5, <3>1, <3>2 DEF DropGuard
  <2>6. CASE UnlinkState
    <3>1. Switches'
      BY <2>6 DEF UnlinkState
    <3>2. Labels'
      BY <2>6 DEF UnlinkState
    <3> QED
      BY <2>6, <3>1, <3>2 DEF UnlinkState
  <2>7. CASE EndDisconnect
    <3>1. Switches'
      BY <2>7 DEF EndDisconnect
    <3>2. Labels'
      BY <2>7 DEF EndDisconnect
    <3> QED
      BY <2>7, <3>1, <3>2 DEF EndDisconnect
  <2> QED
    BY <1>28, <2>1, <2>2, <2>3, <2>4, <2>5, <2>6, <2>7 DEF Disconnecting
<1>29. CASE CliDies
  BY <1>29 DEF CliDies
<1>30. CASE Reboot
  <2>1. Switches'
    BY <1>30 DEF Reboot, Off
  <2>2. Labels'
    BY <1>30 DEF Reboot, Off
  <2> QED
    BY <1>30, <2>1, <2>2 DEF Reboot, Off
<1>31. CASE ChangeWorld
  <2>1. Switches'
    BY <1>31 DEF ChangeWorld
  <2>2. Labels'
    BY <1>31 DEF ChangeWorld
  <2> QED
    BY <1>31, <2>1, <2>2 DEF ChangeWorld
<1>32. CASE UNCHANGED vars
  BY <1>32 DEF vars
<1> QED
  BY <1>1, <1>2, <1>3, <1>4, <1>5, <1>6, <1>7, <1>8, <1>9, <1>10, <1>11,
     <1>12, <1>13, <1>14, <1>15, <1>16, <1>17, <1>18, <1>19, <1>20, <1>21,
     <1>22, <1>23, <1>24, <1>25, <1>26, <1>27, <1>28, <1>29, <1>30, <1>31,
     <1>32
  DEF Next

LEMMA RankingStep == RankingInv /\ [Next]_vars => RankingInv'
BY ChoiceStep, ValuesStep DEF RankingInv

LEMMA RankingAlways == Spec => []RankingInv
BY InitRanking, RankingStep, PTL DEF Spec

(* Every variable of the client keeps its type: the choice of a path gives *)
(* a path or none, and the loss and health counters stay within bounds.    *)
THEOREM SupervisorTypeCorrect == Spec => []TypeOK
<1>1. RankingInv => TypeOK
  BY DEF RankingInv
<1> QED
  BY <1>1, RankingAlways, PTL

(* The tunnel runs only over a path that has not lost three times, however *)
(* measurements, losses, restarts and a new account follow each other.     *)
THEOREM SupervisorUsesCandidate == Spec => []TunnelUsesCandidate
<1>1. RankingInv => TunnelUsesCandidate
  BY DEF RankingInv, CurrentIsCandidate, TunnelUsesCandidate, Trying
<1> QED
  BY <1>1, RankingAlways, PTL

(* Losses are taken back only by a recalibration, a new account, or when   *)
(* every path is excluded: while one is left, each step keeps or adds.     *)
THEOREM SupervisorKeepsLosses == Spec => LossesSurviveWhileUsable
<1> DEFINE
  Kept == ranking # NoRanking /\ ranking' # NoRanking /\ ~recalibrate
            /\ Candidates(ranking) # {} =>
    \A p \in Paths : ranking'.losses[p] >= ranking.losses[p]
<1>1. ASSUME RankingInv, [Next]_vars PROVE Kept
  <2> SUFFICES ASSUME ranking # NoRanking, ranking' # NoRanking, ~recalibrate,
                      Candidates(ranking) # {}, NEW p \in Paths
               PROVE  ranking'.losses[p] >= ranking.losses[p]
    OBVIOUS
  <2>1. CASE ranking' = ranking
    <3>1. ranking.losses \in [Paths -> 0..MaxLosses]
      BY <1>1 DEF RankingInv, TypeOK, Rankings
    <3> QED
      BY <2>1, <3>1 DEF MaxLosses
  <2>2. CASE ranking' # ranking
    <3>1. /\ ranking' = Lose(ranking, current)
          /\ ranking \in Rankings /\ current \in Candidates(ranking)
      BY <1>1, <2>2, RankingMoves
    <3>2. current \in Paths
      BY <3>1 DEF Candidates
    <3> QED
      BY <3>1, <3>2, LoseIsRanking
  <2> QED
    BY <2>1, <2>2
<1>2. Spec => [][Kept]_vars
  <2>1. RankingInv /\ [Next]_vars => [Kept]_vars
    BY <1>1
  <2> HIDE DEF Kept
  <2> QED
    BY <2>1, RankingAlways, PTL DEF Spec
<1> QED
  BY <1>2 DEF LossesSurviveWhileUsable
=============================================================================
