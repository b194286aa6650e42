--------------------------- MODULE RevocationProofs ---------------------------
(***************************************************************************)
(* The safety properties of Revocation, for every set of identities and of *)
(* importers, for every pair of ages and for any number of faults.         *)
(***************************************************************************)
EXTENDS Revocation, TLAPS

LEMMA SnapshotFacts ==
  ASSUME NEW s \in Snapshots
  PROVE  /\ s # Nothing /\ s.age \in Ages
         /\ s.disabled \subseteq Devices /\ s.crl \subseteq Devices
<1>1. /\ s.age \in Ages /\ s.disabled \subseteq Devices /\ s.crl \subseteq Devices
      /\ s = [age |-> s.age, disabled |-> s.disabled, crl |-> s.crl]
  BY DEF Snapshots
<1>2. QED BY <1>1, RevocationAssumption DEF Ages

LEMMA OlderFacts ==
  /\ Older(Nothing) = Nothing
  /\ \A s \in Snapshots : /\ Older(s) \in Snapshots
                          /\ Older(s).crl = s.crl
                          /\ Older(s).disabled = s.disabled
                          /\ Older(s).age = IF s.age < FreshAge THEN s.age + 1 ELSE s.age
<1>1. Older(Nothing) = Nothing
  BY DEF Older
<1>2. ASSUME NEW s \in Snapshots
      PROVE  /\ Older(s) \in Snapshots
             /\ Older(s).crl = s.crl
             /\ Older(s).disabled = s.disabled
             /\ Older(s).age = IF s.age < FreshAge THEN s.age + 1 ELSE s.age
  <2>1. s # Nothing
    BY SnapshotFacts
  <2>2. Older(s) = [age |-> IF s.age < FreshAge THEN s.age + 1 ELSE s.age,
                    disabled |-> s.disabled, crl |-> s.crl]
    BY <2>1 DEF Older, Snapshots
  <2>3. (IF s.age < FreshAge THEN s.age + 1 ELSE s.age) \in Ages
    BY RevocationAssumption, SnapshotFacts DEF Ages
  <2>4. QED BY <2>2, <2>3, SnapshotFacts DEF Snapshots
<1>3. QED BY <1>1, <1>2

\* The steps of Revocation by the part that takes them.
Quiet == \E d \in Devices : Disable(d) \/ List(d) \/ Connect(d)
Syncing == \/ ReadAccounts \/ ReadCrl \/ Accepted \/ NotAccepted
           \/ \E i \in Importers : Send(i)
Importing == \E i \in Importers : Import(i) \/ ImporterDies(i)
Watching == Watch \/ PassFails \/ WatchDies

LEMMA NextParts == [Next]_vars => \/ Quiet \/ Syncing \/ Importing \/ Watching
                                  \/ Tick \/ UNCHANGED vars
  BY DEF Next, Quiet, Syncing, Importing, Watching

SyncType == [step: {"idle", "crl", "public", "inner"},
             body: Snapshots \cup {Nothing}, via: Importers \cup {Nothing}]
ImpType == [step: {"free", "sent", "accepted"} \cup InProgress,
            body: Snapshots \cup {Nothing}]
WatchType == [step: {"sleep", "read", "load", "close", "gate"},
              state: [disabled: SUBSET Devices, crl: SUBSET Devices] \cup {Nothing},
              fresh: BOOLEAN, digest: (SUBSET Devices) \cup {Nothing}]

LEMMA RestTypes == /\ Idle \in SyncType /\ Free \in ImpType /\ Asleep \in WatchType
<1>1. Idle \in SyncType
  BY DEF Idle, SyncAt, SyncType
<1>2. Free \in ImpType
  BY DEF Free, ImpType
<1>3. Asleep \in WatchType
  BY DEF Asleep, WatchAt, WatchType
<1>4. QED BY <1>1, <1>2, <1>3

LEMMA InitSafety == Init => SafetyInv
<1> SUFFICES ASSUME Init PROVE SafetyInv
  OBVIOUS
<1>1. TypeOK
  <2>1. sync \in SyncType /\ imp \in [Importers -> ImpType] /\ watch \in WatchType
    BY RestTypes DEF Init
  <2>2. QED BY <2>1 DEF Init, TypeOK, SyncType, ImpType, WatchType
<1>2. Taken = {}
  BY DEF Init, Taken, Idle, SyncAt, Free
<1>3. Shape
  BY DEF Init, Shape, Idle, SyncAt, Free, Asleep, WatchAt
<1>4. YoungerListsMore
  BY <1>2 DEF Init, YoungerListsMore, Idle, SyncAt
<1>5. ImportsAreSerial
  BY DEF Init, ImportsAreSerial, InProgress, Free
<1>6. WatchSeesGrowth
  BY DEF Init, WatchSeesGrowth, Asleep, WatchAt
<1>7. QED BY <1>1, <1>3, <1>4, <1>5, <1>6 DEF SafetyInv
-----------------------------------------------------------------------------
(* Types.                                                                  *)

LEMMA SyncTypes ==
  ASSUME TypeOK, Shape, Syncing
  PROVE  /\ sync' \in SyncType /\ imp' \in [Importers -> ImpType]
         /\ sync'.step # "idle" => sync'.body \in Snapshots
         /\ sync'.via # Nothing => sync'.step \in {"public", "inner"}
<1>0. sync \in SyncType /\ imp \in [Importers -> ImpType]
  BY DEF TypeOK, SyncType, ImpType
<1>1. CASE ReadAccounts
  <2>1. [age |-> 0, disabled |-> disabled, crl |-> {}] \in Snapshots
    BY RevocationAssumption DEF TypeOK, Snapshots, Ages
  <2>2. sync' = [step |-> "crl", body |-> [age |-> 0, disabled |-> disabled, crl |-> {}],
                 via |-> Nothing]
    BY <1>1 DEF ReadAccounts, SyncAt
  <2>3. QED BY <1>0, <1>1, <2>1, <2>2 DEF ReadAccounts, SyncType
<1>2. CASE ReadCrl
  <2>1. sync.body \in Snapshots
    BY <1>2 DEF ReadCrl, Shape
  <2>2. sync' = [step |-> "public", via |-> Nothing,
                 body |-> [age |-> sync.body.age, disabled |-> sync.body.disabled,
                           crl |-> listed]]
    BY <1>2 DEF ReadCrl, SyncAt
  <2>3. [age |-> sync.body.age, disabled |-> sync.body.disabled, crl |-> listed] \in Snapshots
    BY <2>1 DEF TypeOK, Snapshots
  <2>4. QED BY <1>0, <1>2, <2>2, <2>3 DEF ReadCrl, SyncType
<1>3. ASSUME sync.body \in Snapshots
      PROVE  Sleep \in SyncType /\ Sleep.step = "idle" /\ Sleep.via = Nothing
  <2>1. [age |-> sync.body.age, disabled |-> {}, crl |-> {}] \in Snapshots
    BY <1>3 DEF Snapshots
  <2>2. Sleep = [step |-> "idle", body |-> [age |-> sync.body.age, disabled |-> {}, crl |-> {}],
                 via |-> Nothing]
    BY DEF Sleep, SyncAt
  <2>3. QED BY <2>1, <2>2 DEF SyncType
<1>4. CASE Accepted
  <2>1. sync.body \in Snapshots /\ sync.via \in Importers
    BY <1>0, <1>4 DEF Accepted, Shape, SyncType
  <2>2. imp' \in [Importers -> ImpType]
    BY <1>0, <1>4, RestTypes DEF Accepted
  <2>3. QED BY <1>3, <1>4, <2>1, <2>2 DEF Accepted
<1>5. CASE NotAccepted
  <2>1. sync.body \in Snapshots
    BY <1>5 DEF NotAccepted, Shape
  <2>3. CASE sync.step = "public"
    BY <1>0, <1>5, <2>1, <2>3 DEF NotAccepted, SyncAt, SyncType
  <2>4. CASE sync.step # "public"
    BY <1>0, <1>3, <1>5, <2>1, <2>4 DEF NotAccepted
  <2>5. QED BY <2>3, <2>4
<1>6. ASSUME NEW i \in Importers, Send(i)
      PROVE  /\ sync' \in SyncType /\ imp' \in [Importers -> ImpType]
             /\ sync'.body \in Snapshots /\ sync'.step \in {"public", "inner"}
  <2>1. sync.body \in Snapshots /\ sync.step \in {"public", "inner"}
    BY <1>6 DEF Send, Shape
  <2>2. sync' = [step |-> sync.step, body |-> sync.body, via |-> i]
    BY <1>0, <1>6 DEF Send, SyncType
  <2>3. sync' \in SyncType
    BY <2>1, <2>2 DEF SyncType
  <2>4. [step |-> "sent", body |-> sync.body] \in ImpType
    BY <2>1 DEF ImpType
  <2>5. imp' \in [Importers -> ImpType]
    BY <1>0, <1>6, <2>4 DEF Send
  <2>6. QED BY <2>1, <2>2, <2>3, <2>5
<1>7. QED BY <1>1, <1>2, <1>4, <1>5, <1>6 DEF Syncing

LEMMA ImportTypes ==
  ASSUME TypeOK, Shape, Importing
  PROVE  /\ imp' \in [Importers -> ImpType] /\ torn' \in BOOLEAN /\ faults' \in Nat
         /\ tmp' \in (SUBSET Devices) \cup {Nothing} /\ pem' \subseteq Devices
         /\ stored' \in Snapshots \cup {Nothing}
         /\ \A i \in Importers :
              imp'[i].body = Nothing <=> imp'[i].step \in {"free", "accepted"}
<1> DEFINE Whole(b) == \A i \in Importers :
             b[i].body = Nothing <=> b[i].step \in {"free", "accepted"}
<1>0. /\ imp \in [Importers -> ImpType] /\ Whole(imp)
      /\ torn \in BOOLEAN /\ faults \in Nat /\ stored \in Snapshots \cup {Nothing}
      /\ tmp \in (SUBSET Devices) \cup {Nothing} /\ pem \subseteq Devices
  BY DEF TypeOK, Shape, ImpType
<1> PICK i \in Importers : Import(i) \/ ImporterDies(i)
  BY DEF Importing
<1>1. ASSUME NEW f \in ImpType, f.body = Nothing <=> f.step \in {"free", "accepted"}
      PROVE  /\ [imp EXCEPT ![i] = f] \in [Importers -> ImpType]
             /\ Whole([imp EXCEPT ![i] = f])
  BY <1>0, <1>1
<1>2. Free \in ImpType /\ Free.body = Nothing /\ Free.step = "free"
  BY RestTypes DEF Free
<1>3. [imp EXCEPT ![i] = Free] \in [Importers -> ImpType] /\ Whole([imp EXCEPT ![i] = Free])
  BY <1>1, <1>2
<1>4. ASSUME NEW t \in {"checked", "written", "replaced"}, imp[i].body # Nothing
      PROVE  At(i, t) \in [Importers -> ImpType] /\ Whole(At(i, t))
  <2>1. [step |-> t, body |-> imp[i].body] \in ImpType
    BY <1>0 DEF ImpType, InProgress
  <2>2. At(i, t) = [imp EXCEPT ![i] = [step |-> t, body |-> imp[i].body]]
    <3>1. imp[i] = [step |-> imp[i].step, body |-> imp[i].body]
      BY <1>0 DEF ImpType
    <3>2. [imp[i] EXCEPT !.step = t] = [step |-> t, body |-> imp[i].body]
      BY <3>1
    <3>3. QED BY <3>2 DEF At
  <2>3. QED BY <1>1, <1>4, <2>1, <2>2
<1>5. ASSUME imp[i].step \notin {"free", "accepted"}
      PROVE  imp[i].body \in Snapshots /\ imp[i].body # Nothing
  BY <1>0, <1>5 DEF ImpType
<1> HIDE DEF Whole
<1>6. CASE Check(i)
  BY <1>0, <1>3, <1>4, <1>5, <1>6 DEF Check, files, Whole
<1>7. CASE WriteTmp(i)
  BY <1>0, <1>4, <1>5, <1>7, SnapshotFacts DEF WriteTmp, Whole
<1>8. CASE Replace(i)
  BY <1>0, <1>3, <1>4, <1>5, <1>8 DEF Replace, Whole
<1>9. CASE Publish(i)
  <2>1. [Free EXCEPT !.step = "accepted"] = [step |-> "accepted", body |-> Nothing]
    BY DEF Free
  <2>2. [step |-> "accepted", body |-> Nothing] \in ImpType
    BY DEF ImpType
  <2>3. imp' \in [Importers -> ImpType] /\ Whole(imp')
    BY <1>1, <1>3, <1>9, <2>1, <2>2 DEF Publish
  <2>4. stored' \in Snapshots
    BY <1>5, <1>9 DEF Publish
  <2>5. QED BY <1>0, <1>9, <2>3, <2>4 DEF Publish, Whole
<1>10. CASE ImporterDies(i)
  BY <1>0, <1>3, <1>10 DEF ImporterDies, Fault, files, Whole
<1>11. QED BY <1>6, <1>7, <1>8, <1>9, <1>10 DEF Import

LEMMA WatchTypes ==
  ASSUME TypeOK, Shape, Watching
  PROVE  /\ watch' \in WatchType
         /\ last' \in (SUBSET Devices) \cup {Nothing}
         /\ opened' \in BOOLEAN /\ permit' \in BOOLEAN
         /\ loaded' \subseteq Devices /\ sessions' \subseteq Devices /\ faults' \in Nat
<1>0. /\ watch \in WatchType
      /\ last \in (SUBSET Devices) \cup {Nothing} /\ pem \subseteq Devices
      /\ opened \in BOOLEAN /\ permit \in BOOLEAN /\ faults \in Nat
      /\ loaded \subseteq Devices /\ sessions \subseteq Devices
  BY DEF TypeOK, Shape, WatchType
<1>1. Asleep \in WatchType /\ Asleep.step = "sleep"
  BY RestTypes DEF Asleep, WatchAt
<1>2. CASE ReadStored
  <2>1. CASE stored = Nothing
    BY <1>0, <1>1, <1>2, <2>1 DEF ReadStored, Flush, swan
  <2>2. CASE stored # Nothing
    <3>1. stored \in Snapshots
      BY <2>2 DEF TypeOK
    <3>2. (stored.age < FreshAge) \in BOOLEAN /\ Lists(stored) \in
             [disabled : SUBSET Devices, crl : SUBSET Devices]
      BY <3>1, SnapshotFacts DEF Lists
    <3>3. watch' = [step |-> "read", state |-> Lists(stored),
                    fresh |-> stored.age < FreshAge, digest |-> Nothing]
      BY <1>2, <2>2 DEF ReadStored, WatchAt
    <3>4. watch' \in WatchType
      BY <3>2, <3>3 DEF WatchType
    <3>5. QED BY <1>0, <1>2, <2>2, <3>4 DEF ReadStored, swan
  <2>3. QED BY <2>1, <2>2
<1>3. ASSUME NEW t \in {"load", "close", "gate"}
      PROVE  [watch EXCEPT !.step = t] \in WatchType
  BY <1>0 DEF WatchType
<1>4. CASE ReadPem
  <2>1. /\ (IF watch.fresh /\ pem # last THEN "load" ELSE "close") \in {"load", "close"}
        /\ watch' = [step |-> IF watch.fresh /\ pem # last THEN "load" ELSE "close",
                     state |-> watch.state, fresh |-> watch.fresh, digest |-> pem]
    BY <1>4 DEF ReadPem, WatchAt
  <2>2. watch' \in WatchType
    BY <1>0, <2>1 DEF WatchType
  <2>3. QED BY <1>0, <1>4, <2>2 DEF ReadPem, swan
<1>5. CASE LoadCreds
  <2>1. watch' \in WatchType
    BY <1>3, <1>5 DEF LoadCreds
  <2>2. watch.digest \in (SUBSET Devices) \cup {Nothing}
    BY <1>0 DEF WatchType
  <2>3. QED BY <1>0, <1>5, <2>1, <2>2 DEF LoadCreds
<1>6. CASE CloseSessions
  <2>1. watch' \in WatchType
    BY <1>3, <1>6 DEF CloseSessions
  <2>2. QED BY <1>0, <1>6, <2>1 DEF CloseSessions
<1>7. CASE Gate
  <2>1. watch' \in WatchType
    BY <1>1, <1>7 DEF Gate
  <2>2. watch.fresh \in BOOLEAN
    BY <1>0 DEF WatchType
  <2>3. QED BY <1>0, <1>7, <2>1, <2>2 DEF Gate, swan
<1>8. CASE PassFails
  <2>1. faults' \in Nat
    BY <1>0, <1>8 DEF PassFails, Fault
  <2>2. QED BY <1>0, <1>1, <1>8, <2>1 DEF PassFails, Flush, swan
<1>9. CASE WatchDies
  <2>1. faults' \in Nat
    BY <1>0, <1>9 DEF WatchDies, Fault
  <2>2. QED BY <1>0, <1>1, <1>9, <2>1 DEF WatchDies, Flush, swan
<1>10. QED BY <1>2, <1>4, <1>5, <1>6, <1>7, <1>8, <1>9 DEF Watching, Watch

LEMMA TickTypes ==
  ASSUME TypeOK, Shape, Tick
  PROVE  TypeOK' /\ Shape'
<1>0. /\ sync \in SyncType /\ imp \in [Importers -> ImpType]
      /\ stored \in Snapshots \cup {Nothing}
  BY DEF TypeOK, SyncType, ImpType
<1>1. \A b \in Snapshots \cup {Nothing} :
        Older(b) \in Snapshots \cup {Nothing} /\ (Older(b) = Nothing <=> b = Nothing)
  BY OlderFacts, SnapshotFacts
<1>2. /\ sync' \in SyncType /\ sync'.step = sync.step /\ sync'.via = sync.via
      /\ sync'.body = Older(sync.body)
  <2>1. sync' = [step |-> sync.step, body |-> Older(sync.body), via |-> sync.via]
    BY <1>0 DEF Tick, SyncType
  <2>2. QED BY <1>0, <1>1, <2>1 DEF SyncType
<1>3. imp' \in [Importers -> ImpType] /\
      \A i \in Importers : imp'[i].step = imp[i].step /\ imp'[i].body = Older(imp[i].body)
  <2>1. ASSUME NEW i \in Importers
        PROVE  /\ imp'[i] = [step |-> imp[i].step, body |-> Older(imp[i].body)]
               /\ imp'[i] \in ImpType
    <3>1. imp'[i] = [imp[i] EXCEPT !.body = Older(@)]
      BY DEF Tick
    <3>2. imp[i] \in ImpType
      BY <1>0
    <3>3. imp'[i] = [step |-> imp[i].step, body |-> Older(imp[i].body)]
      BY <3>1, <3>2 DEF ImpType
    <3>4. QED BY <1>1, <3>2, <3>3 DEF ImpType
  <2>2. imp' = [i \in Importers |-> imp'[i]]
    BY DEF Tick
  <2>3. QED BY <2>1, <2>2
<1>4. stored' \in Snapshots \cup {Nothing}
  BY <1>0, <1>1 DEF Tick
<1>5. TypeOK'
  BY <1>2, <1>3, <1>4 DEF TypeOK, Tick, source, swan, SyncType, ImpType, WatchType
<1>6. Shape'
  BY <1>0, <1>1, <1>2, <1>3, OlderFacts DEF Shape, SyncType, ImpType
<1>7. QED BY <1>5, <1>6

LEMMA TypeStep == TypeOK /\ Shape /\ [Next]_vars => TypeOK' /\ Shape'
<1> SUFFICES ASSUME TypeOK, Shape, [Next]_vars PROVE TypeOK' /\ Shape'
  OBVIOUS
<1>1. CASE Quiet
  <2>1. UNCHANGED <<sync, imp, files, watch, last, opened, permit, torn, faults, loaded>>
    BY <1>1 DEF Quiet, Disable, List, Connect, swan
  <2>2. disabled' \subseteq Devices /\ listed' \subseteq Devices /\ sessions' \subseteq Devices
    BY <1>1 DEF Quiet, Disable, List, Connect, TypeOK, source, swan
  <2>3. QED BY <2>1, <2>2 DEF TypeOK, Shape, files
<1>2. CASE Syncing
  <2>1. UNCHANGED <<source, files, watch, last, opened, swan, permit, torn, faults>>
    BY <1>2 DEF Syncing, ReadAccounts, ReadCrl, Send, Accepted, NotAccepted
  <2>2. TypeOK'
    BY <1>2, <2>1, SyncTypes DEF TypeOK, source, files, swan, SyncType, ImpType
  <2>3. \A i \in Importers : imp'[i].body = Nothing <=> imp'[i].step \in {"free", "accepted"}
    <3>1. CASE ReadAccounts \/ ReadCrl \/ NotAccepted
      BY <3>1 DEF ReadAccounts, ReadCrl, NotAccepted, Shape
    <3>2. CASE Accepted
      BY <3>2 DEF Accepted, Shape, TypeOK, Free
    <3>3. ASSUME NEW i \in Importers, Send(i)
          PROVE  \A j \in Importers : imp'[j].body = Nothing <=> imp'[j].step \in {"free", "accepted"}
      <4>1. sync.body # Nothing
        BY <3>3, SnapshotFacts DEF Send, Shape
      <4>2. imp' = [imp EXCEPT ![i] = [step |-> "sent", body |-> sync.body]]
        BY <3>3 DEF Send
      <4>3. QED BY <4>1, <4>2 DEF Shape, TypeOK
    <3>4. QED BY <1>2, <3>1, <3>2, <3>3 DEF Syncing
  <2>4. QED BY <1>2, <2>2, <2>3, SyncTypes DEF Shape
<1>3. CASE Importing
  <2>1. UNCHANGED <<source, sync, watch, last, opened, swan, permit>>
    BY <1>3 DEF Importing, Import, Check, WriteTmp, Replace, Publish, ImporterDies
  <2>2. TypeOK'
    BY <1>3, <2>1, ImportTypes DEF TypeOK, source, swan, ImpType
  <2>3. QED BY <1>3, <2>1, <2>2, ImportTypes DEF Shape
<1>4. CASE Watching
  <2>1. UNCHANGED <<source, sync, imp, files, torn>>
    BY <1>4 DEF Watching, Watch, ReadStored, ReadPem, LoadCreds, CloseSessions, Gate,
                PassFails, WatchDies
  <2>2. TypeOK'
    BY <1>4, <2>1, WatchTypes DEF TypeOK, source, files, WatchType
  <2>3. QED BY <2>1, <2>2 DEF Shape
<1>5. CASE Tick
  BY <1>5, TickTypes
<1>6. CASE UNCHANGED vars
  BY <1>6 DEF vars, source, files, swan, TypeOK, Shape
<1>7. QED BY <1>1, <1>2, <1>3, <1>4, <1>5, <1>6, NextParts
-----------------------------------------------------------------------------
(* The order of the snapshots.                                             *)

LEMMA TakenTypes == ASSUME TypeOK, Shape PROVE Taken \subseteq Snapshots
  BY DEF TypeOK, Shape, Taken

\* A step that takes no new snapshot and does not touch sync's own.
LEMMA FewerTaken ==
  ASSUME YoungerListsMore, Taken' \subseteq Taken, listed \subseteq listed',
         \/ sync' = sync
         \/ /\ sync.body # Nothing /\ sync'.body # Nothing
            /\ sync'.step # "crl" /\ sync'.body.age = sync.body.age
  PROVE  YoungerListsMore'
  BY DEF YoungerListsMore

LEMMA TickOrder ==
  ASSUME TypeOK, Shape, YoungerListsMore, Tick
  PROVE  YoungerListsMore'
<1> DEFINE Aged(t) == IF t.age < FreshAge THEN t.age + 1 ELSE t.age
<1>1. sync'.step = sync.step /\ sync'.body = Older(sync.body)
  BY DEF Tick, TypeOK
<1>2. \A i \in Importers : imp'[i].body = Older(imp[i].body)
  BY DEF Tick, TypeOK
<1>3. \A t \in Taken' : \E s \in Taken : t.crl = s.crl /\ t.age = Aged(s)
  <2> SUFFICES ASSUME NEW t \in Taken'
               PROVE  \E s \in Taken : t = Older(s)
    BY TakenTypes, OlderFacts
  <2>1. t # Nothing
    BY DEF Taken
  <2>2. CASE \E i \in Importers : t = imp'[i].body
    BY <1>2, <2>1, <2>2, OlderFacts DEF Taken
  <2>3. CASE t = stored'
    BY <2>1, <2>3, OlderFacts DEF Taken, Tick
  <2>4. CASE t = sync'.body /\ sync'.step \in {"public", "inner"}
    BY <1>1, <2>1, <2>4, OlderFacts DEF Taken
  <2>5. QED BY <2>2, <2>3, <2>4 DEF Taken
<1>4. \A s \in Taken : s.age \in 0..FreshAge
  BY TakenTypes, SnapshotFacts DEF Ages
<1>5. sync.body \in Snapshots \cup {Nothing}
  BY DEF TypeOK
<1>6. /\ sync'.body = Nothing <=> sync.body = Nothing
      /\ sync.body # Nothing => sync'.body.age = Aged(sync.body) /\ sync.body.age \in 0..FreshAge
  BY <1>1, <1>5, OlderFacts, SnapshotFacts DEF Ages
<1>7. FreshAge \in Nat
  BY RevocationAssumption
<1>8. ASSUME NEW s \in Taken', NEW t \in Taken', s.age <= t.age, s.age < FreshAge
      PROVE  t.crl \subseteq s.crl
  <2>1. PICK x \in Taken : s.crl = x.crl /\ s.age = Aged(x)
    BY <1>3
  <2>2. PICK y \in Taken : t.crl = y.crl /\ t.age = Aged(y)
    BY <1>3
  <2>3. x.age <= y.age /\ x.age < FreshAge
    BY <1>4, <1>7, <1>8, <2>1, <2>2
  <2>4. QED BY <2>1, <2>2, <2>3 DEF YoungerListsMore
<1>9. \A t \in Taken' : t.crl \subseteq listed'
  BY <1>3 DEF YoungerListsMore, Tick, source
<1>10. sync'.body = Nothing => Taken' = {}
  BY <1>3, <1>6 DEF YoungerListsMore
<1>11. ASSUME NEW t \in Taken', sync'.body # Nothing
       PROVE  /\ sync'.body.age <= t.age
              /\ sync'.step = "crl" /\ t.age < FreshAge => sync'.body.age < t.age
  <2>1. PICK x \in Taken : t.crl = x.crl /\ t.age = Aged(x)
    BY <1>3
  <2>2. /\ sync.body # Nothing /\ sync.body.age <= x.age
        /\ sync.step = "crl" /\ x.age < FreshAge => sync.body.age < x.age
    BY <1>6, <1>11 DEF YoungerListsMore
  <2>3. sync'.body.age = Aged(sync.body) /\ sync.body.age \in 0..FreshAge
    BY <1>6, <2>2
  <2>4. QED BY <1>1, <1>4, <1>7, <2>1, <2>2, <2>3
<1>12. QED BY <1>8, <1>9, <1>10, <1>11 DEF YoungerListsMore

LEMMA SyncOrder ==
  ASSUME TypeOK, Shape, YoungerListsMore, Syncing
  PROVE  YoungerListsMore'
<1>0. Taken \subseteq Snapshots /\ (sync.step # "idle" => sync.body \in Snapshots)
  BY TakenTypes DEF Shape
<1>1. CASE ReadAccounts
  <2>1. sync' = [step |-> "crl", body |-> [age |-> 0, disabled |-> disabled, crl |-> {}],
                 via |-> Nothing]
    BY <1>1 DEF ReadAccounts, SyncAt
  <2>2. Taken' \subseteq Taken /\ listed' = listed
    BY <1>1, <2>1 DEF ReadAccounts, Taken, files, source
  <2>3. sync'.body # Nothing
    BY <1>1, <2>1, SyncTypes, SnapshotFacts DEF Syncing
  <2>4. \A t \in Taken : t.age \in Nat /\ t.age > 0
    <3>1. CASE sync.body = Nothing
      BY <3>1 DEF YoungerListsMore
    <3>2. CASE sync.body # Nothing
      <4>1. sync.body.age > 0 /\ sync.body.age \in Nat
        BY <1>1, <3>2, SnapshotFacts, RevocationAssumption DEF ReadAccounts, TypeOK, Ages
      <4>2. \A t \in Taken : sync.body.age <= t.age /\ t.age \in 0..FreshAge
        BY <1>0, <3>2, SnapshotFacts DEF YoungerListsMore, Ages
      <4>3. QED BY <4>1, <4>2, RevocationAssumption
    <3>3. QED BY <3>1, <3>2
  <2>5. QED BY <2>1, <2>2, <2>3, <2>4 DEF YoungerListsMore
<1>2. CASE ReadCrl
  <2> DEFINE new == [age |-> sync.body.age, disabled |-> sync.body.disabled, crl |-> listed]
  <2>1. sync' = [step |-> "public", body |-> new, via |-> Nothing]
    BY <1>2 DEF ReadCrl, SyncAt
  <2>2. Taken' \subseteq Taken \cup {new} /\ listed' = listed
    BY <1>2, <2>1 DEF ReadCrl, Taken, files, source
  <2>3. sync.body \in Snapshots /\ sync.step = "crl"
    BY <1>0, <1>2 DEF ReadCrl
  <2>4. sync'.body # Nothing
    BY <1>2, <2>1, SyncTypes, SnapshotFacts DEF Syncing
  <2>5. sync.body # Nothing /\ sync.body.age \in 0..FreshAge
    BY <2>3, SnapshotFacts DEF Ages
  <2>6. \A t \in Taken : /\ t.age \in 0..FreshAge /\ sync.body.age <= t.age
                         /\ t.age < FreshAge => sync.body.age < t.age
    BY <1>0, <2>3, <2>5, SnapshotFacts DEF YoungerListsMore, Ages
  <2>7. new.age = sync.body.age /\ new.crl = listed /\ sync'.body = new /\ sync'.step = "public"
    BY <2>1
  <2>8. FreshAge \in Nat
    BY RevocationAssumption
  <2> HIDE DEF new
  <2>9. ASSUME NEW s \in Taken \cup {new}, NEW t \in Taken \cup {new},
               s.age <= t.age, s.age < FreshAge
        PROVE  t.crl \subseteq s.crl
    <3>1. CASE s = new
      BY <2>7, <3>1 DEF YoungerListsMore
    <3>2. CASE s # new /\ t = new
      BY <2>5, <2>6, <2>7, <2>8, <2>9, <3>2
    <3>3. CASE s # new /\ t # new
      BY <2>9, <3>3 DEF YoungerListsMore
    <3>4. QED BY <3>1, <3>2, <3>3
  <2>10. QED BY <2>2, <2>4, <2>5, <2>6, <2>7, <2>9 DEF YoungerListsMore
<1>3. ASSUME sync.body \in Snapshots
      PROVE  /\ Sleep.step = "idle" /\ Sleep.body # Nothing
             /\ Sleep.body.age = sync.body.age
  <2>1. [age |-> sync.body.age, disabled |-> {}, crl |-> {}] \in Snapshots
    BY <1>3 DEF Snapshots
  <2>2. QED BY <2>1, SnapshotFacts DEF Sleep, SyncAt
<1>4. CASE Accepted
  <2>1. sync.body \in Snapshots /\ sync.body # Nothing
    BY <1>0, <1>4, SnapshotFacts DEF Accepted, Shape
  <2>2. Taken' \subseteq Taken /\ listed' = listed
    BY <1>3, <1>4, <2>1 DEF Accepted, Taken, Free, files, source, TypeOK
  <2>3. QED BY <1>3, <1>4, <2>1, <2>2, FewerTaken DEF Accepted
<1>5. CASE NotAccepted
  <2>1. sync.body \in Snapshots /\ sync.body # Nothing
    BY <1>0, <1>5, SnapshotFacts DEF NotAccepted, Shape
  <2>2. /\ sync'.step \in {"inner", "idle"} /\ sync'.body # Nothing
        /\ sync'.body.age = sync.body.age
        /\ sync'.step = "inner" => sync'.body = sync.body
    BY <1>3, <1>5, <2>1 DEF NotAccepted, SyncAt
  <2>3. Taken' \subseteq Taken /\ listed' = listed
    BY <1>5, <2>2 DEF NotAccepted, Taken, files, source
  <2>4. QED BY <2>1, <2>2, <2>3, FewerTaken
<1>6. ASSUME NEW i \in Importers, Send(i)
      PROVE  YoungerListsMore'
  <2>1. sync.step \in {"public", "inner"} /\ sync.body # Nothing
    BY <1>0, <1>6, SnapshotFacts DEF Send
  <2>2. sync'.step = sync.step /\ sync'.body = sync.body
    BY <1>6 DEF Send, TypeOK
  <2>3. Taken' \subseteq Taken /\ listed' = listed
    BY <1>6, <2>1, <2>2 DEF Send, Taken, files, source, TypeOK
  <2>4. QED BY <2>1, <2>2, <2>3, FewerTaken
<1>7. QED BY <1>1, <1>2, <1>4, <1>5, <1>6 DEF Syncing

\* What the importers' steps do to one of them.
LEMMA ImportEffect ==
  ASSUME TypeOK, Shape, NEW i \in Importers, Import(i) \/ ImporterDies(i)
  PROVE  /\ \A j \in Importers : j # i => imp'[j] = imp[j]
         /\ imp'[i].body \in {imp[i].body, Nothing}
         /\ imp[i].step # "accepted" =>
              imp[i].body \in Snapshots /\ imp[i].body # Nothing
         /\ stored' = stored \/ (Publish(i) /\ stored' = imp[i].body)
<1>1. imp \in [Importers -> ImpType]
  BY DEF TypeOK, ImpType
<1>2. imp[i].step \notin {"free", "accepted"} =>
        imp[i].body \in Snapshots /\ imp[i].body # Nothing
  BY <1>1 DEF Shape, ImpType
<1>3. Import(i) => Check(i) \/ WriteTmp(i) \/ Replace(i) \/ Publish(i)
  BY DEF Import
<1>4. imp[i].step # "free"
  BY <1>3 DEF Check, WriteTmp, Replace, Publish, ImporterDies, InProgress
<1>5. stored' = stored \/ (Publish(i) /\ stored' = imp[i].body)
  BY <1>3 DEF Check, WriteTmp, Replace, Publish, ImporterDies, files
<1>6. \/ \E t : imp' = At(i, t)
      \/ \E t : imp' = [imp EXCEPT ![i] = [step |-> t, body |-> Nothing]]
  <2>1. [Free EXCEPT !.step = "accepted"] = [step |-> "accepted", body |-> Nothing]
    BY DEF Free
  <2>2. CASE Check(i) \/ ImporterDies(i)
    BY <2>2 DEF Check, ImporterDies, Free
  <2>3. CASE WriteTmp(i) \/ Replace(i)
    BY <2>3 DEF WriteTmp, Replace, Free
  <2>4. CASE Publish(i)
    BY <2>1, <2>4 DEF Publish, Free
  <2>5. QED BY <1>3, <2>2, <2>3, <2>4
<1>7. CASE \E t : imp' = At(i, t)
  BY <1>1, <1>2, <1>4, <1>5, <1>7 DEF At, ImpType
<1>8. CASE \E t : imp' = [imp EXCEPT ![i] = [step |-> t, body |-> Nothing]]
  BY <1>1, <1>2, <1>4, <1>5, <1>8
<1>9. QED BY <1>6, <1>7, <1>8

LEMMA YoungerStep ==
  TypeOK /\ Shape /\ YoungerListsMore /\ [Next]_vars => YoungerListsMore'
<1> SUFFICES ASSUME TypeOK, Shape, YoungerListsMore, [Next]_vars PROVE YoungerListsMore'
  OBVIOUS
<1>1. CASE Quiet
  BY <1>1 DEF Quiet, Disable, List, Connect, YoungerListsMore, Taken, files, source
<1>2. CASE Importing
  <2> PICK i \in Importers : Import(i) \/ ImporterDies(i)
    BY <1>2 DEF Importing
  <2>1. sync' = sync /\ listed' = listed
    BY DEF Import, Check, WriteTmp, Replace, Publish, ImporterDies, source
  <2>2. Taken' \subseteq Taken
    BY <2>1, ImportEffect DEF Taken
  <2>3. QED BY <2>1, <2>2, FewerTaken
<1>3. CASE Watching
  <2>1. UNCHANGED <<source, sync, imp, files>>
    BY <1>3 DEF Watching, Watch, ReadStored, ReadPem, LoadCreds, CloseSessions, Gate,
                PassFails, WatchDies
  <2>2. QED BY <2>1 DEF YoungerListsMore, Taken, files, source
<1>4. CASE UNCHANGED vars
  BY <1>4 DEF vars, YoungerListsMore, Taken, files, source
<1>5. QED BY <1>1, <1>2, <1>3, <1>4, SyncOrder, TickOrder, NextParts
-----------------------------------------------------------------------------
(* One import at a time, unless torn.                                      *)

LEMMA SerialImpliesWhole == TypeOK /\ ImportsAreSerial => SnapshotIsWhole
  BY DEF ImportsAreSerial, SnapshotIsWhole, InProgress, TypeOK

LEMMA SerialTick ==
  ASSUME TypeOK, Shape, ImportsAreSerial, Tick
  PROVE  ImportsAreSerial'
<1> SUFFICES ASSUME ~torn PROVE ImportsAreSerial'
  BY DEF ImportsAreSerial, Tick
<1>1. \A i \in Importers : imp'[i].step = imp[i].step /\ imp'[i].body = Older(imp[i].body)
  BY DEF Tick, TypeOK
<1>2. tmp' = tmp /\ pem' = pem /\ stored' = Older(stored)
  BY DEF Tick
<1>3. stored \in Snapshots \cup {Nothing} /\ FreshAge \in Nat
  BY RevocationAssumption DEF TypeOK
<1>4. \A i \in Importers : imp[i].step \in InProgress => imp[i].body \in Snapshots
  BY DEF Shape, TypeOK, InProgress
<1>5. /\ stored' = Nothing <=> stored = Nothing
      /\ stored # Nothing => stored'.crl = stored.crl
  BY <1>2, <1>3, OlderFacts, SnapshotFacts
<1>6. \A i \in Importers : imp[i].step \in InProgress => imp'[i].body.crl = imp[i].body.crl
  BY <1>1, <1>4, OlderFacts
<1>7. ASSUME NEW i \in Importers, imp[i].step \in InProgress, stored # Nothing
      PROVE  imp'[i].body.age <= stored'.age
  <2>1. imp[i].body \in Snapshots /\ stored \in Snapshots
    BY <1>3, <1>4, <1>7
  <2>2. imp[i].body.age \in 0..FreshAge /\ stored.age \in 0..FreshAge
    BY <2>1, SnapshotFacts DEF Ages
  <2>3. imp[i].body.age <= stored.age
    BY <1>7 DEF ImportsAreSerial
  <2>4. /\ imp'[i].body.age = IF imp[i].body.age < FreshAge THEN imp[i].body.age + 1
                              ELSE imp[i].body.age
        /\ stored'.age = IF stored.age < FreshAge THEN stored.age + 1 ELSE stored.age
    BY <1>1, <1>2, <2>1, OlderFacts
  <2>5. QED BY <1>3, <2>2, <2>3, <2>4
<1>8. QED BY <1>1, <1>2, <1>5, <1>6, <1>7 DEF ImportsAreSerial, InProgress

LEMMA SerialSync ==
  ASSUME TypeOK, Shape, ImportsAreSerial, Syncing
  PROVE  ImportsAreSerial'
<1>1. UNCHANGED <<tmp, pem, stored, torn>>
  BY DEF Syncing, ReadAccounts, ReadCrl, Send, Accepted, NotAccepted, files
<1>2. \A i \in Importers :
        \/ imp'[i] = imp[i]
        \/ imp[i].step \notin InProgress /\ imp'[i].step \in {"free", "sent"}
  <2>1. CASE ReadAccounts \/ ReadCrl \/ NotAccepted
    BY <2>1 DEF ReadAccounts, ReadCrl, NotAccepted
  <2>2. CASE Accepted
    BY <2>2 DEF Accepted, Free, InProgress, TypeOK
  <2>3. CASE \E i \in Importers : Send(i)
    BY <2>3 DEF Send, InProgress, TypeOK
  <2>4. QED BY <2>1, <2>2, <2>3 DEF Syncing
<1>3. QED BY <1>1, <1>2 DEF ImportsAreSerial, InProgress

LEMMA SerialImport ==
  ASSUME TypeOK, Shape, YoungerListsMore, ImportsAreSerial, Importing
  PROVE  ImportsAreSerial' /\ (~torn' => pem \subseteq pem')
<1> PICK i \in Importers : Import(i) \/ ImporterDies(i)
  BY DEF Importing
<1>1. \A j \in Importers : j # i => imp'[j] = imp[j]
  BY ImportEffect
<1>2. imp \in [Importers -> ImpType]
  BY DEF TypeOK, ImpType
<1>3. \A t : At(i, t)[i].step = t /\ At(i, t)[i].body = imp[i].body
  BY <1>2 DEF At, ImpType
<1>4. CASE Check(i) /\ ~Acceptable(imp[i].body)
  <2>1. imp'[i].step = "free" /\ imp[i].step = "sent"
    BY <1>2, <1>4 DEF Check, Free
  <2>2. UNCHANGED <<tmp, pem, stored>> /\ (torn => torn')
    BY <1>4 DEF Check, files
  <2>3. QED BY <1>1, <2>1, <2>2 DEF ImportsAreSerial, InProgress
<1>5. CASE Check(i) /\ Acceptable(imp[i].body)
  <2>1. imp'[i].step = "checked" /\ imp'[i].body = imp[i].body /\ imp[i].step = "sent"
    BY <1>3, <1>5 DEF Check
  <2>2. UNCHANGED <<tmp, pem, stored>>
    BY <1>5 DEF Check, files
  <2>3. SUFFICES ASSUME ~torn' PROVE ImportsAreSerial'
    BY <2>2 DEF ImportsAreSerial
  <2>4. ~torn /\ \A j \in Importers : imp[j].step \notin InProgress
    BY <1>5, <2>3 DEF Check
  <2>5. ASSUME stored # Nothing
        PROVE  imp[i].body.age <= stored.age /\ stored.crl \subseteq imp[i].body.crl
    <3>1. imp[i].body \in Taken /\ stored \in Taken
      BY <2>1, <2>5 DEF Shape, Taken
    <3>2. imp[i].body.age <= stored.age /\ imp[i].body.age <= AcceptAge
      BY <1>5, <2>5 DEF Acceptable
    <3>3. imp[i].body.age < FreshAge
      BY <3>1, <3>2, TakenTypes, SnapshotFacts, RevocationAssumption DEF Ages
    <3>4. QED BY <3>1, <3>2, <3>3 DEF YoungerListsMore
  <2>6. QED BY <1>1, <2>1, <2>2, <2>4, <2>5 DEF ImportsAreSerial, InProgress
<1>6. CASE WriteTmp(i)
  <2>1. /\ imp[i].step = "checked" /\ imp'[i].step = "written"
        /\ imp'[i].body = imp[i].body /\ tmp' = imp[i].body.crl
    BY <1>3, <1>6 DEF WriteTmp
  <2>2. UNCHANGED <<pem, stored, torn>>
    BY <1>6 DEF WriteTmp
  <2>3. QED BY <1>1, <2>1, <2>2 DEF ImportsAreSerial, InProgress
<1>7. CASE Replace(i) /\ tmp = Nothing
  <2>1. imp[i].step = "written" /\ imp'[i].step = "free"
    BY <1>2, <1>7 DEF Replace, Free
  <2>2. UNCHANGED <<tmp, pem, stored, torn>>
    BY <1>7 DEF Replace
  <2>3. QED BY <1>1, <2>1, <2>2 DEF ImportsAreSerial, InProgress
<1>8. CASE Replace(i) /\ tmp # Nothing
  <2>1. /\ imp[i].step = "written" /\ imp'[i].step = "replaced"
        /\ imp'[i].body = imp[i].body /\ pem' = tmp
    BY <1>3, <1>8 DEF Replace
  <2>2. UNCHANGED <<stored, torn>>
    BY <1>8 DEF Replace
  <2>3. ASSUME ~torn
        PROVE  /\ tmp = imp[i].body.crl /\ pem \subseteq tmp
               /\ \A j \in Importers : imp[j].step \in InProgress => j = i
    BY <2>1, <2>3 DEF ImportsAreSerial, InProgress
  <2>4. QED BY <1>1, <2>1, <2>2, <2>3 DEF ImportsAreSerial, InProgress
<1>9. CASE Publish(i)
  <2>1. /\ imp[i].step = "replaced" /\ imp'[i].step \in {"free", "accepted"}
        /\ stored' = imp[i].body /\ imp[i].body # Nothing
    <3>1. Free.step = "free" /\ [Free EXCEPT !.step = "accepted"].step = "accepted"
      BY DEF Free
    <3>2. QED BY <1>2, <1>9, <3>1 DEF Publish, Shape
  <2>2. UNCHANGED <<pem, torn>>
    BY <1>9 DEF Publish
  <2>3. ASSUME ~torn
        PROVE  /\ pem = imp[i].body.crl
               /\ \A j \in Importers : imp[j].step \in InProgress => j = i
    BY <2>1, <2>3 DEF ImportsAreSerial, InProgress
  <2>4. QED BY <1>1, <2>1, <2>2, <2>3 DEF ImportsAreSerial, InProgress
<1>10. CASE ImporterDies(i)
  <2>1. imp'[i].step = "free" /\ UNCHANGED <<tmp, pem, stored>>
    BY <1>2, <1>10 DEF ImporterDies, Free, files
  <2>2. ~torn' => ~torn /\ imp[i].step \notin InProgress
    BY <1>10 DEF ImporterDies
  <2>3. QED BY <1>1, <2>1, <2>2 DEF ImportsAreSerial, InProgress
<1>11. QED BY <1>4, <1>5, <1>6, <1>7, <1>8, <1>9, <1>10 DEF Import

LEMMA WatchingFrame ==
  ASSUME Watching
  PROVE  UNCHANGED <<disabled, listed, sync, imp, tmp, pem, stored, torn>>
  BY DEF Watching, Watch, ReadStored, ReadPem, LoadCreds, CloseSessions, Gate,
         PassFails, WatchDies, source, files

LEMMA SerialStep == TypeOK /\ Shape /\ YoungerListsMore /\ ImportsAreSerial
                      /\ [Next]_vars => ImportsAreSerial'
<1> SUFFICES ASSUME TypeOK, Shape, YoungerListsMore, ImportsAreSerial, [Next]_vars
             PROVE  ImportsAreSerial'
  OBVIOUS
<1>1. CASE Quiet
  BY <1>1 DEF Quiet, Disable, List, Connect, ImportsAreSerial, files
<1>2. CASE Watching
  BY <1>2, WatchingFrame DEF ImportsAreSerial
<1>3. CASE UNCHANGED vars
  BY <1>3 DEF vars, ImportsAreSerial, files
<1>4. QED BY <1>1, <1>2, <1>3, SerialTick, SerialSync, SerialImport, NextParts
-----------------------------------------------------------------------------
(* The watcher.                                                            *)

LEMMA WatchStep == TypeOK /\ Shape /\ YoungerListsMore /\ ImportsAreSerial
                     /\ WatchSeesGrowth /\ [Next]_vars => WatchSeesGrowth'
<1> SUFFICES ASSUME TypeOK, Shape, YoungerListsMore, ImportsAreSerial,
                    WatchSeesGrowth, [Next]_vars
             PROVE  WatchSeesGrowth'
  OBVIOUS
<1>1. CASE Quiet \/ Syncing \/ Tick \/ UNCHANGED vars
  <2>1. UNCHANGED <<watch, pem, loaded, last, torn>>
    BY <1>1 DEF Quiet, Disable, List, Connect, Syncing, ReadAccounts, ReadCrl, Send,
                Accepted, NotAccepted, Tick, vars, files, swan
  <2>2. QED BY <2>1 DEF WatchSeesGrowth
<1>2. CASE Importing
  <2>1. UNCHANGED <<watch, loaded, last>>
    BY <1>2 DEF Importing, Import, Check, WriteTmp, Replace, Publish, ImporterDies, swan
  <2>2. ~torn' => ~torn
    <3> PICK i \in Importers : Import(i) \/ ImporterDies(i)
      BY <1>2 DEF Importing
    <3>1. CASE Check(i)
      BY <3>1 DEF Check
    <3>2. CASE WriteTmp(i) \/ Replace(i) \/ Publish(i)
      BY <3>2 DEF WriteTmp, Replace, Publish
    <3>3. CASE ImporterDies(i)
      BY <3>3 DEF ImporterDies
    <3>4. QED BY <3>1, <3>2, <3>3 DEF Import
  <2>3. ~torn' => pem \subseteq pem'
    BY <1>2, SerialImport
  <2>4. QED BY <2>1, <2>2, <2>3 DEF WatchSeesGrowth
<1>3. CASE Watching
  <2>0. pem' = pem /\ torn' = torn
    BY <1>3, WatchingFrame
  <2> SUFFICES ASSUME ~torn PROVE WatchSeesGrowth'
    BY <2>0 DEF WatchSeesGrowth
  <2>1. CASE ReadStored
    <3>1. CASE stored = Nothing
      BY <2>0, <2>1, <3>1 DEF ReadStored, Flush, Asleep, WatchAt, swan, WatchSeesGrowth
    <3>2. CASE stored # Nothing
      <4>1. watch'.step = "read" /\ watch'.state.crl = stored.crl
        BY <2>1, <3>2 DEF ReadStored, WatchAt, Lists
      <4>2. stored.crl \subseteq pem
        BY <3>2, SerialImpliesWhole DEF SnapshotIsWhole
      <4>3. QED BY <2>0, <2>1, <4>1, <4>2 DEF ReadStored, swan, WatchSeesGrowth
    <3>3. QED BY <3>1, <3>2
  <2>2. CASE ReadPem
    <3>1. /\ watch'.step = IF watch.fresh /\ pem # last THEN "load" ELSE "close"
          /\ watch'.state = watch.state /\ watch'.fresh = watch.fresh /\ watch'.digest = pem
          /\ watch.step = "read"
      BY <2>2 DEF ReadPem, WatchAt
    <3>2. loaded' = loaded /\ last' = last
      BY <2>2 DEF ReadPem, swan
    <3>3. CASE watch.fresh /\ pem # last
      BY <2>0, <3>1, <3>2, <3>3 DEF WatchSeesGrowth
    <3>4. CASE watch.fresh /\ pem = last
      <4>1. last # Nothing
        BY <3>4, RevocationAssumption DEF TypeOK
      <4>2. last \subseteq loaded /\ watch.state.crl \subseteq pem
        BY <3>1, <4>1 DEF WatchSeesGrowth
      <4>3. QED BY <2>0, <3>1, <3>2, <3>4, <4>2 DEF WatchSeesGrowth
    <3>5. CASE ~watch.fresh
      BY <2>0, <3>1, <3>2, <3>5 DEF WatchSeesGrowth
    <3>6. QED BY <3>3, <3>4, <3>5
  <2>3. CASE LoadCreds
    <3>1. /\ watch'.step = "close" /\ watch'.state = watch.state /\ watch.step = "load"
          /\ watch'.digest = watch.digest /\ loaded' = pem /\ last' = watch.digest
      BY <2>3 DEF LoadCreds, TypeOK
    <3>2. QED BY <2>0, <3>1 DEF WatchSeesGrowth
  <2>4. CASE CloseSessions
    <3>1. /\ watch'.step = "gate" /\ watch'.state = watch.state /\ watch.step = "close"
          /\ watch'.fresh = watch.fresh /\ loaded' = loaded /\ last' = last
      BY <2>4 DEF CloseSessions, TypeOK
    <3>2. QED BY <2>0, <3>1 DEF WatchSeesGrowth
  <2>5. CASE Gate \/ PassFails \/ WatchDies
    <3>1. watch'.step = "sleep" /\ loaded' = loaded /\ (last' = last \/ last' = Nothing)
      BY <2>5 DEF Gate, PassFails, WatchDies, Flush, Asleep, WatchAt, swan
    <3>2. QED BY <2>0, <3>1 DEF WatchSeesGrowth
  <2>6. QED BY <1>3, <2>1, <2>2, <2>3, <2>4, <2>5 DEF Watching, Watch
<1>4. QED BY <1>1, <1>2, <1>3, NextParts
-----------------------------------------------------------------------------
(* The theorems.                                                           *)

LEMMA SafetyStep == SafetyInv /\ [Next]_vars => SafetyInv'
  BY TypeStep, YoungerStep, SerialStep, WatchStep DEF SafetyInv

LEMMA SafetyHolds == Spec => []SafetyInv
  BY InitSafety, SafetyStep, PTL DEF Spec

(* Every variable keeps its type, and every snapshot its shape.            *)
THEOREM RevocationTypeCorrect == Spec => []TypeOK
<1>1. SafetyInv => TypeOK
  BY DEF SafetyInv
<1>2. QED BY <1>1, SafetyHolds, PTL

(* revocation-import.py stores the CRL before the list it belongs to.      *)
THEOREM RevocationSnapshotIsWhole == Spec => []SnapshotIsWhole
<1>1. SafetyInv => SnapshotIsWhole
  BY SerialImpliesWhole DEF SafetyInv
<1>2. QED BY <1>1, SafetyHolds, PTL

(* revocation-watch.py opens the gate with the CRL of the snapshot whose   *)
(* freshness opens it already loaded.                                      *)
THEOREM RevocationGateUsesItsList == Spec => []GateUsesItsList
<1>1. SafetyInv => GateUsesItsList
  BY DEF SafetyInv, WatchSeesGrowth, GateUsesItsList
<1>2. QED BY <1>1, SafetyHolds, PTL

(* The import of a delayed snapshot never takes back a newer one.          *)
THEOREM RevocationNeverOlder == Spec => NeverOlder
<1>1. SafetyInv /\ [Next]_vars =>
        [stored # Nothing /\ ~torn' /\ (\E i \in Importers : Publish(i)) =>
           stored'.age <= stored.age]_vars
  BY DEF SafetyInv, ImportsAreSerial, InProgress, Publish
<1>2. QED BY <1>1, SafetyHolds, PTL DEF Spec, NeverOlder
=============================================================================
