---------------------------- MODULE IssuerProofs ----------------------------
(* Theorems about Issuer, for every value of its constants.                *)
EXTENDS IssuerInv, FiniteSetTheorems, TLAPS

-----------------------------------------------------------------------------
(* Types of the operators on accounts.json.                                *)

LEMMA SlotType == ASSUME NEW s \in Slots PROVE s[1] \in Accounts
  BY DEF Slots

LEMMA EmptyTypes == /\ EmptyDb \in Database /\ NoJob \in Job
                    /\ NoAccount \in Account /\ NoRecord \in Record
<1>1. NoAccount \in Account
  BY DEF NoAccount, Account
<1>2. NoRecord \in Record
  BY DEF NoRecord, Record
<1>3. EmptyDb \in Database
  BY <1>1, <1>2 DEF EmptyDb, Database
<1>4. NoJob \in Job
  BY DEF NoJob, Job, Labels
<1>5. QED BY <1>1, <1>2, <1>3, <1>4

LEMMA DatabaseFields ==
  ASSUME NEW v \in Database
  PROVE  /\ v = [acct |-> v.acct, dev |-> v.dev]
         /\ v.acct \in [Accounts -> Account]
         /\ v.dev \in [Slots -> Record]
  BY DEF Database

LEMMA SetRecordType ==
  ASSUME NEW v \in Database, NEW s \in Slots, NEW r \in Record
  PROVE  SetRecord(v, s, r) \in Database
  BY DEF SetRecord, Database

LEMMA SetAccountType ==
  ASSUME NEW v \in Database, NEW a, NEW r \in Account
  PROVE  SetAccount(v, a, r) \in Database
  BY DEF SetAccount, Database

LEMMA AccountTypes ==
  ASSUME NEW r \in Account
  PROVE  /\ Opened(r) \in Account /\ Closing(r) \in Account /\ Deleted(r) \in Account
         /\ [r EXCEPT !.next = @ + 1] \in Account
<1>1. Opened(r) \in Account /\ Closing(r) \in Account
  BY DEF Account, Opened, Closing
<1>2. Deleted(r) \in Account
  BY DEF Account, Deleted
<1>3. [r EXCEPT !.next = @ + 1] \in Account
  BY DEF Account
<1>4. QED BY <1>1, <1>2, <1>3

LEMMA RecordTypes ==
  ASSUME NEW r \in Record
  PROVE  /\ Pending(r) \in Record /\ Confirmed(r) \in Record
         /\ Flagged(r) \in Record /\ Settled(r) \in Record
         /\ \A i \in Identities \cup {None}, k \in Keys \cup {None} :
              Signed(r, i, k) \in Record
         /\ \A k \in Keys \cup {None}, x \in Addresses : Admitted(r, k, x) \in Record
         /\ \A n \in Nat : [r EXCEPT !.number = n] \in Record
<1>1. Pending(r) \in Record /\ Confirmed(r) \in Record
  BY DEF Record, Pending, Confirmed
<1>2. Flagged(r) \in Record /\ Settled(r) \in Record
  BY DEF Record, Flagged, Settled
<1>3. ASSUME NEW i \in Identities \cup {None}, NEW k \in Keys \cup {None}
      PROVE  Signed(r, i, k) \in Record
  BY DEF Record, Signed
<1>4. ASSUME NEW k \in Keys \cup {None}, NEW x \in Addresses
      PROVE  Admitted(r, k, x) \in Record
  BY DEF Record, Admitted, Pending
<1>5. ASSUME NEW n \in Nat PROVE [r EXCEPT !.number = n] \in Record
  BY DEF Record
<1>6. QED BY <1>1, <1>2, <1>3, <1>4, <1>5

LEMMA ReserveType ==
  ASSUME NEW v \in Database, NEW s \in Slots
  PROVE  Reserve(v, s) \in Database
<1> DEFINE a == s[1]
           w == SetAccount(v, a, [v.acct[a] EXCEPT !.next = @ + 1])
<1>1. a \in Accounts
  BY SlotType
<1>2. v.acct[a] \in Account /\ v.acct[a].next \in Nat /\ v.dev[s] \in Record
  BY <1>1, DatabaseFields DEF Account
<1>3. w \in Database
  BY <1>1, <1>2, SetAccountType, AccountTypes
<1>4. SetRecord(w, s, [v.dev[s] EXCEPT !.number = v.acct[a].next]) \in Database
  BY <1>2, <1>3, SetRecordType, RecordTypes
<1>5. QED BY <1>4 DEF Reserve

LEMMA UpdateTypes ==
  ASSUME NEW v \in Database, NEW j \in Job
  PROVE  /\ FlagAll(v, j) \in Database
         /\ SettleAll(v, j) \in Database
<1>1. \A a \in Accounts : v.acct[a] \in Account
  BY DatabaseFields
<1>2. \A s \in Slots : v.dev[s] \in Record
  BY DatabaseFields
<1>3. FlagAll(v, j) \in Database
  BY <1>1, <1>2, AccountTypes, RecordTypes DEF FlagAll, SettleAll, Database
<1>4. SettleAll(v, j) \in Database
  BY <1>1, <1>2, AccountTypes, RecordTypes DEF FlagAll, SettleAll, Database
<1>5. QED BY <1>3, <1>4
-----------------------------------------------------------------------------
(* What the operators on accounts.json keep.                               *)

\* The fields of a record that decide what its device may do.
Core(r) == [type |-> r.type, id |-> r.id, key |-> r.key, address |-> r.address,
            disabled |-> r.disabled, revoke_pending |-> r.revoke_pending,
            revoked |-> r.revoked]

LEMMA SetRecordKeeps ==
  ASSUME NEW v \in Database, NEW s \in Slots, NEW r
  PROVE  /\ SetRecord(v, s, r).acct = v.acct
         /\ SetRecord(v, s, r).dev[s] = r
         /\ \A t \in Slots : t # s => SetRecord(v, s, r).dev[t] = v.dev[t]
  BY DatabaseFields DEF SetRecord

LEMMA SetAccountKeeps ==
  ASSUME NEW v \in Database, NEW a, NEW r
  PROVE  /\ SetAccount(v, a, r).dev = v.dev
         /\ \A b \in Accounts : SetAccount(v, a, r).acct[b] =
                                IF b = a THEN r ELSE v.acct[b]
  BY DatabaseFields DEF SetAccount

LEMMA ReserveKeeps ==
  ASSUME NEW v \in Database, NEW s \in Slots
  PROVE  /\ \A t \in Slots : Core(Reserve(v, s).dev[t]) = Core(v.dev[t])
         /\ \A a \in Accounts : Live(Reserve(v, s), a) <=> Live(v, a)
<1> DEFINE a == s[1]
           w == SetAccount(v, a, [v.acct[a] EXCEPT !.next = @ + 1])
           r == [v.dev[s] EXCEPT !.number = v.acct[a].next]
<1>1. a \in Accounts /\ v.acct[a] \in Account /\ v.dev[s] \in Record
  BY SlotType, DatabaseFields
<1>2. w \in Database
  BY <1>1, AccountTypes, SetAccountType
<1>3. Core(r) = Core(v.dev[s])
  BY <1>1 DEF Core, Record
<1>4. \A t \in Slots : Core(SetRecord(w, s, r).dev[t]) = Core(v.dev[t])
  BY <1>2, <1>3, SetRecordKeeps, SetAccountKeeps
<1>5. \A b \in Accounts : Live(SetRecord(w, s, r), b) <=> Live(v, b)
  <2>1. SetRecord(w, s, r).acct = w.acct
    BY <1>2, SetRecordKeeps
  <2>2. \A b \in Accounts : b # a => w.acct[b] = v.acct[b]
    BY SetAccountKeeps
  <2>3. w.acct[a] = [v.acct[a] EXCEPT !.next = @ + 1]
    BY <1>1, SetAccountKeeps
  <2>4. QED BY <1>1, <2>1, <2>2, <2>3 DEF Live, Account
<1>6. QED BY <1>4, <1>5 DEF Reserve

\* The record operators, field by field.
SameDevice(q, r) == /\ q.type = r.type /\ q.id = r.id /\ q.key = r.key
                    /\ q.address = r.address
SameFlags(q, r)  == /\ q.disabled = r.disabled /\ q.revoked = r.revoked
                    /\ q.revoke_pending = r.revoke_pending

LEMMA CoreKeeps ==
  ASSUME NEW q, NEW r, Core(q) = Core(r)
  PROVE  SameDevice(q, r) /\ SameFlags(q, r)
  BY DEF Core, SameDevice, SameFlags

LEMMA PendingKeeps ==
  ASSUME NEW r \in Record
  PROVE  SameDevice(Pending(r), r) /\ SameFlags(Pending(r), r)
  BY DEF Record, SameDevice, SameFlags, Pending

LEMMA ConfirmedKeeps ==
  ASSUME NEW r \in Record
  PROVE  SameDevice(Confirmed(r), r) /\ SameFlags(Confirmed(r), r)
  BY DEF Record, SameDevice, SameFlags, Confirmed

LEMMA FlaggedKeeps ==
  ASSUME NEW r \in Record
  PROVE  SameDevice(Flagged(r), r) /\ Flagged(r).disabled /\ Flagged(r).revoke_pending
  BY DEF Record, SameDevice, Flagged

LEMMA SettledKeeps ==
  ASSUME NEW r \in Record
  PROVE  SameDevice(Settled(r), r) /\ Settled(r).disabled = r.disabled
  BY DEF Record, SameDevice, Settled

LEMMA SignedKeeps ==
  ASSUME NEW r \in Record, NEW i, NEW k
  PROVE  /\ SameFlags(Signed(r, i, k), r)
         /\ Signed(r, i, k).type = "ikev2" /\ Signed(r, i, k).id = i
         /\ Signed(r, i, k).key = k /\ Signed(r, i, k).address = r.address
  BY DEF Record, SameFlags, Signed

LEMMA AdmittedKeeps ==
  ASSUME NEW r \in Record, NEW k, NEW x
  PROVE  /\ SameFlags(Admitted(r, k, x), r)
         /\ Admitted(r, k, x).type = "wireguard"
         /\ Admitted(r, k, x).key = k /\ Admitted(r, k, x).address = x
  BY DEF Record, SameFlags, Admitted, Pending

LEMMA UpdateKeeps ==
  ASSUME NEW v \in Database, NEW j \in Job
  PROVE  /\ \A s \in Slots : FlagAll(v, j).dev[s] =
              IF s \in j.slots THEN Flagged(v.dev[s]) ELSE v.dev[s]
         /\ \A s \in Slots : SettleAll(v, j).dev[s] =
              IF s \in j.slots THEN Settled(v.dev[s]) ELSE v.dev[s]
  BY DEF FlagAll, SettleAll

-----------------------------------------------------------------------------
(* The flock.                                                              *)

LEMMA HolderIsAlone ==
  ASSUME Locking, NEW p \in Procs, job[p].pc # "idle"
  PROVE  lock = p /\ mem[p] = db /\ \A q \in Procs \ {p} : job[q].pc = "idle"
  BY DEF Locking

LEMMA FreeMeansIdle ==
  ASSUME Locking, lock = None
  PROVE  \A q \in Procs : job[q].pc = "idle"
  BY ConstantsAssumption DEF Locking

\* The four ways a step of p treats the lock, its copy and the file.
LEMMA LockSteps ==
  ASSUME TypeOK, Locking, NEW p \in Procs,
         \A q \in Procs \ {p} : job'[q] = job[q]
  PROVE  /\ lock = None /\ lock' = p /\ mem'[p] = db' => Locking'
         /\ job[p].pc # "idle" /\ UNCHANGED <<db, lock, mem>> => Locking'
         /\ job[p].pc # "idle" /\ lock' = lock /\ mem'[p] = db' => Locking'
         /\ job[p].pc # "idle" /\ job'[p].pc = "idle" => Locking'
  BY HolderIsAlone, FreeMeansIdle DEF Locking

-----------------------------------------------------------------------------
(* Type correctness.                                                       *)

LEMMA JobTypes ==
  ASSUME NEW j \in Job
  PROVE  /\ \A S \in SUBSET Slots : [j EXCEPT !.todo = S] \in Job
         /\ \A label \in Labels : [j EXCEPT !.pc = label] \in Job
         /\ \A c \in Serials : [j EXCEPT !.pc = "install", !.serial = c] \in Job
<1>1. ASSUME NEW S \in SUBSET Slots PROVE [j EXCEPT !.todo = S] \in Job
  BY DEF Job
<1>2. ASSUME NEW label \in Labels PROVE [j EXCEPT !.pc = label] \in Job
  BY DEF Job
<1>3. ASSUME NEW c \in Serials PROVE [j EXCEPT !.pc = "install", !.serial = c] \in Job
  BY DEF Job, Labels
<1>4. QED BY <1>1, <1>2, <1>3

\* What a step needs of the types to begin, write, move on and release.
LEMMA StepTypes ==
  ASSUME TypeOK, NEW p \in Procs
  PROVE  /\ \A j \in Job : Begin(p, j) =>
              /\ lock' \in Procs \cup {None} /\ mem' \in [Procs -> Database]
              /\ job' \in [Procs -> Job]
         /\ \A label \in Labels : Goto(p, label) => job' \in [Procs -> Job]
         /\ \A v \in Database : Write(p, v) =>
              db' \in Database /\ mem' \in [Procs -> Database]
         /\ Release(p) =>
              /\ lock' \in Procs \cup {None} /\ mem' \in [Procs -> Database]
              /\ job' \in [Procs -> Job]
<1>1. ASSUME NEW j \in Job, Begin(p, j)
      PROVE  /\ lock' \in Procs \cup {None} /\ mem' \in [Procs -> Database]
             /\ job' \in [Procs -> Job]
  BY <1>1 DEF TypeOK, Begin
<1>2. ASSUME NEW label \in Labels, Goto(p, label) PROVE job' \in [Procs -> Job]
  BY <1>2, JobTypes DEF TypeOK, Goto
<1>3. ASSUME NEW v \in Database, Write(p, v)
      PROVE  db' \in Database /\ mem' \in [Procs -> Database]
  BY <1>3 DEF TypeOK, Write
<1>4. ASSUME Release(p)
      PROVE  /\ lock' \in Procs \cup {None} /\ mem' \in [Procs -> Database]
             /\ job' \in [Procs -> Job]
  BY <1>4, EmptyTypes DEF TypeOK, Release
<1>5. QED BY <1>1, <1>2, <1>3, <1>4

LEMMA TypeStep == BaseInv /\ [Next]_vars => TypeOK'
<1> SUFFICES ASSUME BaseInv, [Next]_vars PROVE TypeOK'
  OBVIOUS
<1> USE DEF BaseInv, TypeOK
<1>1. CASE UNCHANGED vars
  BY <1>1 DEF vars, wire, ca, swan
<1>2. CASE Request
  <2> USE StepTypes DEF wire, ca, swan, Procs
  <2>1. ASSUME NEW a \in Accounts, BeginIssue(a) PROVE TypeOK'
    BY <2>1 DEF BeginIssue, NoJob, Job, Labels
  <2>2. ASSUME NEW a \in Accounts, BeginDeleteAccount(a) PROVE TypeOK'
    <3> DEFINE S == {s \in {a} \X Devices : Known(db, s)}
    <3>1. S \in SUBSET Slots
      BY DEF Slots
    <3> HIDE DEF S
    <3>2. QED
      BY <2>2, <3>1 DEF BeginDeleteAccount, BeginRevoke, NoJob, Job, Labels, S
  <2>3. ASSUME NEW s \in Slots, BeginDeviceInfo(s) PROVE TypeOK'
    BY <2>3 DEF BeginDeviceInfo, NoJob, Job, Labels
  <2>4. ASSUME NEW s \in Slots, BeginRevokeDevice(s) PROVE TypeOK'
    BY <2>4 DEF BeginRevokeDevice, BeginRevoke, NoJob, Job, Labels
  <2>5. ASSUME NEW s \in Slots, NEW k \in Keys, NEW i \in Identities,
               BeginEnroll(s, k, i)
        PROVE  TypeOK'
    BY <2>5 DEF BeginEnroll, NoJob, Job, Labels
  <2>6. ASSUME NEW s \in Slots, NEW k \in Keys, BeginEnrollWireguard(s, k)
        PROVE  TypeOK'
    BY <2>6 DEF BeginEnrollWireguard, NoJob, Job, Labels
  <2>7. CASE BeginSync
    BY <2>7 DEF BeginSync, WantedSlots, NoJob, Job, Labels
  <2>8. QED BY <1>2, <2>1, <2>2, <2>3, <2>4, <2>5, <2>6, <2>7 DEF Request
<1>3. CASE Environment
  BY <1>3, EmptyTypes DEF Environment, Reboot, SwanRestart, Tick, Connect,
     Disconnect, NearExpiry, wire, ca, swan
<1>4. ASSUME NEW p \in Procs, Enrollment(p) PROVE TypeOK'
  <2> USE StepTypes DEF wire, ca, swan, Labels
  <2>0. mem[p] \in Database /\ job[p] \in Job
    OBVIOUS
  <2>1. CASE CreateAccount(p)
    BY <2>0, <2>1, SetAccountType, AccountTypes, EmptyTypes DEF CreateAccount
  <2>2. CASE NameDevice(p)
    BY <2>0, <2>2, ReserveType DEF NameDevice, Job
  <2>3. CASE ReuseCertificate(p)
    BY <2>3 DEF ReuseCertificate
  <2>4. CASE SignCertificate(p)
    <3>1. PICK c \in Serials : /\ row' = [row EXCEPT ![c] = job[p].id]
                               /\ job' = [job EXCEPT ![p].pc = "install",
                                                     ![p].serial = c]
      BY <2>4 DEF SignCertificate
    <3>2. job' \in [Procs -> Job]
      BY <2>0, <3>1, JobTypes
    <3>3. job[p].id \in Identities \cup {None}
      BY <2>0 DEF Job
    <3>4. QED BY <2>4, <3>1, <3>2, <3>3 DEF SignCertificate
  <2>5. CASE InstallCertificate(p)
    BY <2>0, <2>5 DEF InstallCertificate, Job
  <2>6. CASE RecordCertificate(p)
    <3>1. PICK s \in job[p].slots :
            Write(p, Reserve(SetRecord(mem[p], s, Signed(mem[p].dev[s], job[p].id,
                                                         job[p].key)), s))
      BY <2>6 DEF RecordCertificate
    <3>2. /\ s \in Slots /\ mem[p].dev[s] \in Record
          /\ job[p].id \in Identities \cup {None} /\ job[p].key \in Keys \cup {None}
      BY <2>0, DatabaseFields DEF Job
    <3>3. Signed(mem[p].dev[s], job[p].id, job[p].key) \in Record
      BY <3>2, RecordTypes
    <3>4. Reserve(SetRecord(mem[p], s, Signed(mem[p].dev[s], job[p].id,
                                              job[p].key)), s) \in Database
      BY <2>0, <3>2, <3>3, SetRecordType, ReserveType
    <3>5. QED BY <2>6, <3>1, <3>4 DEF RecordCertificate
  <2>7. CASE ReplyCertificate(p)
    BY <2>0, <2>7 DEF ReplyCertificate, Job, At, JobShape, Signing
  <2>8. CASE AdmitPeer(p)
    <3>0. PICK s \in job[p].slots : \E r \in Admissions(mem[p], s, job[p].key) :
            Write(p, Reserve(SetRecord(mem[p], s, r), s))
      BY <2>8 DEF AdmitPeer
    <3>1. PICK r \in Admissions(mem[p], s, job[p].key) :
            Write(p, Reserve(SetRecord(mem[p], s, r), s))
      BY <3>0
    <3>2. /\ s \in Slots /\ mem[p].dev[s] \in Record
          /\ job[p].key \in Keys \cup {None}
      BY <2>0, DatabaseFields DEF Job
    <3>3. r \in Record
      <4>1. CASE Known(mem[p], s)
        BY <3>1, <3>2, <4>1, RecordTypes DEF Admissions
      <4>2. CASE ~Known(mem[p], s)
        <5>1. PICK x \in Addresses : r = Admitted(mem[p].dev[s], job[p].key, x)
          BY <3>1, <4>2 DEF Admissions
        <5>2. QED BY <3>2, <5>1, RecordTypes
      <4>3. QED BY <4>1, <4>2
    <3>4. Reserve(SetRecord(mem[p], s, r), s) \in Database
      BY <2>0, <3>2, <3>3, SetRecordType, ReserveType
    <3>5. QED BY <2>8, <3>1, <3>4 DEF AdmitPeer
  <2>9. CASE ApplyPeer(p)
    BY <2>0, <2>9, HolderIsAlone
       DEF ApplyPeer, At, SetPeer, JobShape, Admitting, RecordShape, WgSlots
  <2>10. CASE ConfirmPeer(p)
    <3>1. PICK s \in job[p].slots :
            db' = SetRecord(mem[p], s, Confirmed(mem[p].dev[s]))
      BY <2>10 DEF ConfirmPeer
    <3>2. s \in Slots /\ mem[p].dev[s] \in Record
      BY <2>0, DatabaseFields DEF Job
    <3>3. SetRecord(mem[p], s, Confirmed(mem[p].dev[s])) \in Database
      BY <2>0, <3>2, RecordTypes, SetRecordType
    <3>4. QED BY <2>10, <3>1, <3>3 DEF ConfirmPeer
  <2>11. QED BY <1>4, <2>1, <2>2, <2>3, <2>4, <2>5, <2>6, <2>7, <2>8, <2>9,
                <2>10 DEF Enrollment
<1>5. ASSUME NEW p \in Procs, Revocation(p) PROVE TypeOK'
  <2> USE StepTypes DEF wire, ca, swan, Labels
  <2>0. mem[p] \in Database /\ job[p] \in Job
    OBVIOUS
  <2>1. CASE FlagRecords(p)
    BY <2>0, <2>1, UpdateTypes DEF FlagRecords
  <2>2. CASE RemovePeer(p)
    <3>1. PICK s \in job[p].todo :
            /\ DropPeer(mem[p].dev[s].key)
            /\ job' = [job EXCEPT ![p].todo = @ \ {s}]
      BY <2>2 DEF RemovePeer
    <3>2. job[p].todo \ {s} \in SUBSET Slots
      BY <2>0 DEF Job
    <3>3. job' \in [Procs -> Job]
      BY <2>0, <3>1, <3>2, JobTypes
    <3>4. QED BY <2>2, <3>1, <3>3 DEF RemovePeer, DropPeer
  <2>3. CASE PeersRemoved(p)
    BY <2>3 DEF PeersRemoved
  <2>4. CASE RevokeRow(p)
    BY <2>4 DEF RevokeRow
  <2>5. CASE RowsRevoked(p)
    BY <2>5 DEF RowsRevoked
  <2>6. CASE PublishCrl(p)
    BY <2>6 DEF PublishCrl, CrlType
  <2>7. CASE GiveUpCrl(p)
    BY <2>7 DEF GiveUpCrl
  <2>8. CASE LoadCreds(p)
    BY <2>8 DEF LoadCreds
  <2>9. CASE TerminateSession(p)
    BY <2>9 DEF TerminateSession
  <2>10. CASE SessionsGone(p)
    BY <2>10 DEF SessionsGone
  <2>11. CASE SettleRecords(p)
    BY <2>0, <2>11, UpdateTypes DEF SettleRecords
  <2>12. QED BY <1>5, <2>1, <2>2, <2>3, <2>4, <2>5, <2>6, <2>7, <2>8, <2>9,
                <2>10, <2>11 DEF Revocation
<1>6. ASSUME NEW p \in Procs, Sync(p) PROVE TypeOK'
  <2> USE StepTypes DEF wire, ca, swan, Labels
  <2>0. mem[p] \in Database /\ job[p] \in Job
    OBVIOUS
  <2>1. CASE SyncRemove(p)
    BY <2>1 DEF SyncRemove, DropPeer
  <2>2. CASE SyncApply(p)
    <3>1. PICK s \in job[p].todo :
            /\ SetPeer(mem[p].dev[s].key, mem[p].dev[s].address)
            /\ job' = [job EXCEPT ![p].todo = @ \ {s}]
      BY <2>2 DEF SyncApply
    <3>2. job[p].todo \ {s} \in SUBSET Slots
      BY <2>0 DEF Job
    <3>3. job' \in [Procs -> Job]
      BY <2>0, <3>1, <3>2, JobTypes
    <3>4. mem[p] = db /\ job[p].todo \subseteq WgSlots(db)
      BY <2>2, HolderIsAlone DEF SyncApply, At, JobShape
    <3>5. mem[p].dev[s].key \in Keys
      BY <3>4 DEF RecordShape, WgSlots
    <3>6. QED BY <2>2, <3>1, <3>3, <3>5 DEF SyncApply, SetPeer
  <2>3. CASE SyncDone(p)
    BY <2>3 DEF SyncDone
  <2>4. QED BY <1>6, <2>1, <2>2, <2>3 DEF Sync
<1>7. ASSUME NEW p \in Procs, Fail(p) PROVE TypeOK'
  BY <1>7, StepTypes DEF Fail, wire, ca, swan
<1>8. QED BY <1>1, <1>2, <1>3, <1>4, <1>5, <1>6, <1>7 DEF Next

LEMMA LockingStep == BaseInv /\ [Next]_vars => Locking'
<1> SUFFICES ASSUME BaseInv, [Next]_vars PROVE Locking'
  OBVIOUS
<1> USE DEF BaseInv
<1>1. CASE UNCHANGED vars
  BY <1>1 DEF vars, Locking
<1>2. ASSUME NEW p \in Procs, NEW j, Begin(p, j), UNCHANGED db
      PROVE  Locking'
  BY <1>2, LockSteps DEF Begin, TypeOK
<1>3. ASSUME NEW p \in Procs, job[p].pc # "idle", Release(p) PROVE Locking'
  BY <1>3, LockSteps DEF Release, TypeOK, NoJob
<1>4. ASSUME NEW p \in Procs, NEW label, job[p].pc # "idle", Goto(p, label),
             UNCHANGED <<db, lock, mem>>
      PROVE  Locking'
  BY <1>4, LockSteps DEF Goto, TypeOK
<1>5. ASSUME NEW p \in Procs, NEW label, NEW v, job[p].pc # "idle",
             Goto(p, label), Write(p, v), UNCHANGED lock
      PROVE  Locking'
  BY <1>5, LockSteps DEF Goto, Write, TypeOK
<1>6. CASE Request
  BY <1>2, <1>6 DEF Request, Procs, BeginIssue, BeginDeleteAccount, BeginRevoke,
     BeginDeviceInfo, BeginRevokeDevice, BeginEnroll, BeginEnrollWireguard,
     BeginSync
<1>7. CASE Environment
  BY <1>7 DEF Environment, Reboot, SwanRestart, Tick, Connect, Disconnect,
     NearExpiry, Locking, NoJob
<1>8. ASSUME NEW p \in Procs, Enrollment(p) PROVE Locking'
  <2> USE DEF At
  <2>1. CASE CreateAccount(p) \/ NameDevice(p) \/ ReplyCertificate(p)
             \/ ConfirmPeer(p)
    BY <1>3, <2>1 DEF CreateAccount, NameDevice, ReplyCertificate, ConfirmPeer
  <2>2. CASE ReuseCertificate(p) \/ InstallCertificate(p) \/ ApplyPeer(p)
    BY <1>4, <2>2 DEF ReuseCertificate, InstallCertificate, ApplyPeer
  <2>3. CASE SignCertificate(p)
    BY <2>3, LockSteps DEF SignCertificate, TypeOK
  <2>4. CASE RecordCertificate(p) \/ AdmitPeer(p)
    BY <1>5, <2>4 DEF RecordCertificate, AdmitPeer
  <2>5. QED BY <1>8, <2>1, <2>2, <2>3, <2>4 DEF Enrollment
<1>9. ASSUME NEW p \in Procs, Revocation(p) PROVE Locking'
  <2> USE DEF At
  <2>1. CASE FlagRecords(p)
    BY <1>5, <2>1 DEF FlagRecords
  <2>2. CASE RemovePeer(p)
    BY <2>2, LockSteps DEF RemovePeer, TypeOK
  <2>3. CASE PeersRemoved(p) \/ RowsRevoked(p) \/ PublishCrl(p) \/ LoadCreds(p)
             \/ SessionsGone(p)
    BY <1>4, <2>3 DEF PeersRemoved, RowsRevoked, PublishCrl, LoadCreds,
       SessionsGone
  <2>4. CASE RevokeRow(p) \/ TerminateSession(p)
    BY <2>4 DEF RevokeRow, TerminateSession, Locking
  <2>5. CASE GiveUpCrl(p) \/ SettleRecords(p)
    BY <1>3, <2>5 DEF GiveUpCrl, SettleRecords
  <2>6. QED BY <1>9, <2>1, <2>2, <2>3, <2>4, <2>5 DEF Revocation
<1>10. ASSUME NEW p \in Procs, Sync(p) PROVE Locking'
  <2> USE DEF At
  <2>1. CASE SyncRemove(p)
    BY <2>1 DEF SyncRemove, Locking
  <2>2. CASE SyncApply(p)
    BY <2>2, LockSteps DEF SyncApply, TypeOK
  <2>3. CASE SyncDone(p)
    BY <1>3, <2>3 DEF SyncDone
  <2>4. QED BY <1>10, <2>1, <2>2, <2>3 DEF Sync
<1>11. ASSUME NEW p \in Procs, Fail(p) PROVE Locking'
  BY <1>3, <1>11 DEF Fail, At
<1>12. QED BY <1>1, <1>6, <1>7, <1>8, <1>9, <1>10, <1>11 DEF Next

-----------------------------------------------------------------------------
(* The effect of each step that writes accounts.json.                      *)

Kept(t) == /\ SameDevice(db'.dev[t], db.dev[t])
           /\ SameFlags(db'.dev[t], db.dev[t])
LiveKept == \A a \in Accounts : Live(db', a) <=> Live(db, a)

LEMMA CreateEffect ==
  ASSUME BaseInv, NEW p \in Procs, CreateAccount(p)
  PROVE  db'.dev = db.dev
<1>1. mem[p] = db
  BY HolderIsAlone DEF CreateAccount, At, BaseInv
<1>2. QED BY <1>1, SetAccountKeeps DEF CreateAccount, BaseInv, TypeOK

LEMMA NameEffect ==
  ASSUME BaseInv, NEW p \in Procs, NameDevice(p)
  PROVE  LiveKept /\ \A t \in Slots : Kept(t)
<1>1. mem[p] = db /\ db \in Database /\ job[p].slots \subseteq Slots
  BY HolderIsAlone DEF NameDevice, At, BaseInv, TypeOK, Job
<1>2. PICK s \in Slots : db' = Reserve(db, s)
  BY <1>1 DEF NameDevice
<1>3. QED BY <1>1, <1>2, ReserveKeeps, CoreKeeps DEF Kept, LiveKept

LEMMA RecordEffect ==
  ASSUME BaseInv, NEW p \in Procs, RecordCertificate(p)
  PROVE  /\ LiveKept
         /\ \E s \in job[p].slots :
              /\ \A t \in Slots : t # s => Kept(t)
              /\ db'.dev[s].type = "ikev2" /\ db'.dev[s].id = job[p].id
              /\ db'.dev[s].key = job[p].key
              /\ db'.dev[s].address = db.dev[s].address
              /\ SameFlags(db'.dev[s], db.dev[s])
<1>1. /\ mem[p] = db /\ db \in Database /\ job[p].slots \subseteq Slots
      /\ job[p].id \in Identities \cup {None} /\ job[p].key \in Keys \cup {None}
  BY HolderIsAlone DEF RecordCertificate, At, BaseInv, TypeOK, Job
<1> DEFINE Rec(s) == Signed(db.dev[s], job[p].id, job[p].key)
<1>2. PICK s \in job[p].slots : db' = Reserve(SetRecord(db, s, Rec(s)), s)
  BY <1>1 DEF RecordCertificate, Write
<1>3. s \in Slots /\ db.dev[s] \in Record /\ Rec(s) \in Record
  BY <1>1, <1>2, DatabaseFields, RecordTypes
<1> DEFINE w == SetRecord(db, s, Rec(s))
<1>4. w \in Database /\ w.acct = db.acct
  BY <1>1, <1>3, SetRecordType, SetRecordKeeps
<1>5. \A t \in Slots : t # s => w.dev[t] = db.dev[t]
  BY <1>1, <1>3, SetRecordKeeps
<1>6. w.dev[s] = Rec(s)
  BY <1>1, <1>3, SetRecordKeeps
<1>7. \A t \in Slots : SameDevice(db'.dev[t], w.dev[t]) /\ SameFlags(db'.dev[t], w.dev[t])
  BY <1>2, <1>3, <1>4, ReserveKeeps, CoreKeeps
<1>8. LiveKept
  BY <1>2, <1>3, <1>4, ReserveKeeps DEF LiveKept, Live
<1>9. \A t \in Slots : t # s => Kept(t)
  BY <1>5, <1>7 DEF Kept
<1>10. /\ db'.dev[s].type = "ikev2" /\ db'.dev[s].id = job[p].id
       /\ db'.dev[s].key = job[p].key /\ db'.dev[s].address = db.dev[s].address
       /\ SameFlags(db'.dev[s], db.dev[s])
  <2> DEFINE old == db.dev[s]
             new == w.dev[s]
  <2>1. old \in Record /\ new = Signed(old, job[p].id, job[p].key)
    BY <1>3, <1>6
  <2>2. SameDevice(db'.dev[s], new) /\ SameFlags(db'.dev[s], new)
    BY <1>3, <1>7
  <2> HIDE DEF old, new
  <2>3. /\ SameFlags(new, old) /\ new.type = "ikev2" /\ new.id = job[p].id
        /\ new.key = job[p].key /\ new.address = old.address
    BY <2>1, SignedKeeps
  <2>4. /\ db'.dev[s].type = "ikev2" /\ db'.dev[s].id = job[p].id
        /\ db'.dev[s].key = job[p].key /\ db'.dev[s].address = old.address
        /\ SameFlags(db'.dev[s], old)
    BY <2>2, <2>3 DEF SameDevice, SameFlags
  <2>5. QED BY <2>4 DEF old
<1>11. QED BY <1>2, <1>8, <1>9, <1>10

LEMMA AdmitEffect ==
  ASSUME BaseInv, NEW p \in Procs, AdmitPeer(p)
  PROVE  /\ LiveKept
         /\ \E s \in job[p].slots :
              /\ \A t \in Slots : t # s => Kept(t)
              /\ SameFlags(db'.dev[s], db.dev[s])
              /\ IF Known(db, s) THEN Kept(s)
                 ELSE /\ db'.dev[s].type = "wireguard"
                      /\ db'.dev[s].key = job[p].key
                      /\ FirstFree(db, db'.dev[s].address)
<1>1. /\ mem[p] = db /\ db \in Database /\ job[p].slots \subseteq Slots
      /\ job[p].key \in Keys \cup {None}
  BY HolderIsAlone DEF AdmitPeer, At, BaseInv, TypeOK, Job
<1>2. PICK s \in job[p].slots : \E r \in Admissions(db, s, job[p].key) :
               db' = Reserve(SetRecord(db, s, r), s)
  BY <1>1 DEF AdmitPeer, Write
<1>3. PICK r \in Admissions(db, s, job[p].key) :
               db' = Reserve(SetRecord(db, s, r), s)
  BY <1>2
<1>4. s \in Slots /\ db.dev[s] \in Record
  BY <1>1, <1>2, DatabaseFields
<1>5. CASE Known(db, s)
  <2>1. r = Pending(db.dev[s]) /\ r \in Record
    BY <1>3, <1>4, <1>5, RecordTypes DEF Admissions
  <2>2. SetRecord(db, s, r) \in Database
    BY <1>1, <1>4, <2>1, SetRecordType
  <2>3. LiveKept
    BY <1>1, <1>3, <1>4, <2>2, ReserveKeeps, SetRecordKeeps DEF LiveKept, Live
  <2>4. \A t \in Slots : t # s => Kept(t)
    BY <1>1, <1>3, <1>4, <2>2, ReserveKeeps, CoreKeeps, SetRecordKeeps DEF Kept
  <2>5. SameDevice(db'.dev[s], r) /\ SameFlags(db'.dev[s], r)
    BY <1>1, <1>3, <1>4, <2>2, ReserveKeeps, CoreKeeps, SetRecordKeeps
  <2>6. Kept(s)
    BY <1>4, <2>1, <2>5, PendingKeeps DEF Kept, SameDevice, SameFlags
  <2>7. QED BY <1>5, <2>3, <2>4, <2>6 DEF Kept
<1>6. CASE ~Known(db, s)
  <2>1. PICK x \in Addresses : FirstFree(db, x) /\ r = Admitted(db.dev[s], job[p].key, x)
    BY <1>3, <1>6 DEF Admissions
  <2>2. r \in Record
    BY <1>1, <1>4, <2>1, RecordTypes
  <2>3. SetRecord(db, s, r) \in Database
    BY <1>1, <1>4, <2>2, SetRecordType
  <2>4. LiveKept
    BY <1>1, <1>3, <1>4, <2>3, ReserveKeeps, SetRecordKeeps DEF LiveKept, Live
  <2>5. \A t \in Slots : t # s => Kept(t)
    BY <1>1, <1>3, <1>4, <2>3, ReserveKeeps, CoreKeeps, SetRecordKeeps DEF Kept
  <2>6. SameDevice(db'.dev[s], r) /\ SameFlags(db'.dev[s], r)
    BY <1>1, <1>3, <1>4, <2>3, ReserveKeeps, CoreKeeps, SetRecordKeeps
  <2>7. /\ SameFlags(r, db.dev[s]) /\ r.type = "wireguard"
        /\ r.key = job[p].key /\ r.address = x
    <3> DEFINE old == db.dev[s]
    <3>1. old \in Record /\ r = Admitted(old, job[p].key, x)
      BY <1>4, <2>1
    <3> HIDE DEF old
    <3>2. SameFlags(r, old) /\ r.type = "wireguard" /\ r.key = job[p].key /\ r.address = x
      BY <3>1, AdmittedKeeps
    <3>3. QED BY <3>2 DEF old
  <2>8. QED BY <1>6, <2>1, <2>4, <2>5, <2>6, <2>7 DEF SameDevice, SameFlags
<1>7. QED BY <1>5, <1>6

LEMMA ConfirmEffect ==
  ASSUME BaseInv, NEW p \in Procs, ConfirmPeer(p)
  PROVE  LiveKept /\ \A t \in Slots : Kept(t)
<1>1. mem[p] = db /\ db \in Database /\ job[p].slots \subseteq Slots
  BY HolderIsAlone DEF ConfirmPeer, At, BaseInv, TypeOK, Job
<1>2. PICK s \in Slots : db' = SetRecord(db, s, Confirmed(db.dev[s]))
  BY <1>1 DEF ConfirmPeer
<1>3. db.dev[s] \in Record
  BY <1>1, DatabaseFields
<1>4. Kept(s)
  <2>1. db'.dev[s] = Confirmed(db.dev[s])
    BY <1>1, <1>2, SetRecordKeeps
  <2>2. QED BY <1>3, <2>1, ConfirmedKeeps DEF Kept
<1>5. \A t \in Slots : t # s => Kept(t)
  BY <1>1, <1>2, SetRecordKeeps DEF Kept, SameDevice, SameFlags
<1>6. QED BY <1>1, <1>2, <1>4, <1>5, SetRecordKeeps DEF LiveKept, Live

LEMMA FlagEffect ==
  ASSUME BaseInv, NEW p \in Procs, FlagRecords(p)
  PROVE  \A t \in Slots :
           /\ SameDevice(db'.dev[t], db.dev[t])
           /\ t \in job[p].slots => db'.dev[t].disabled /\ db'.dev[t].revoke_pending
           /\ t \notin job[p].slots => Kept(t)
<1>1. mem[p] = db /\ db \in Database /\ job[p] \in Job
  BY HolderIsAlone DEF FlagRecords, At, BaseInv, TypeOK
<1>2. \A t \in Slots : db'.dev[t] = IF t \in job[p].slots THEN Flagged(db.dev[t])
                                   ELSE db.dev[t]
  BY <1>1, UpdateKeeps DEF FlagRecords, Write
<1>3. \A t \in Slots : db.dev[t] \in Record
  BY <1>1, DatabaseFields
<1>4. ASSUME NEW t \in Slots, t \in job[p].slots
      PROVE  /\ SameDevice(db'.dev[t], db.dev[t])
             /\ db'.dev[t].disabled /\ db'.dev[t].revoke_pending
  <2>1. db'.dev[t] = Flagged(db.dev[t]) /\ db.dev[t] \in Record
    BY <1>2, <1>3, <1>4
  <2>2. QED BY <2>1, FlaggedKeeps
<1>5. ASSUME NEW t \in Slots, t \notin job[p].slots
      PROVE  SameDevice(db'.dev[t], db.dev[t]) /\ Kept(t)
  BY <1>2, <1>5 DEF Kept, SameDevice, SameFlags
<1>6. QED BY <1>4, <1>5

LEMMA SettleEffect ==
  ASSUME BaseInv, NEW p \in Procs, SettleRecords(p)
  PROVE  \A t \in Slots :
           /\ SameDevice(db'.dev[t], db.dev[t])
           /\ db'.dev[t].disabled = db.dev[t].disabled
           /\ t \notin job[p].slots => Kept(t)
<1>1. mem[p] = db /\ db \in Database /\ job[p] \in Job
  BY HolderIsAlone DEF SettleRecords, At, BaseInv, TypeOK
<1>2. \A t \in Slots : db'.dev[t] = IF t \in job[p].slots THEN Settled(db.dev[t])
                                   ELSE db.dev[t]
  BY <1>1, UpdateKeeps DEF SettleRecords
<1>3. \A t \in Slots : db.dev[t] \in Record
  BY <1>1, DatabaseFields
<1>4. ASSUME NEW t \in Slots, t \in job[p].slots
      PROVE  /\ SameDevice(db'.dev[t], db.dev[t])
             /\ db'.dev[t].disabled = db.dev[t].disabled
  <2>1. db'.dev[t] = Settled(db.dev[t]) /\ db.dev[t] \in Record
    BY <1>2, <1>3, <1>4
  <2>2. QED BY <2>1, SettledKeeps
<1>5. ASSUME NEW t \in Slots, t \notin job[p].slots
      PROVE  /\ SameDevice(db'.dev[t], db.dev[t]) /\ Kept(t)
             /\ db'.dev[t].disabled = db.dev[t].disabled
  BY <1>2, <1>5 DEF Kept, SameDevice, SameFlags
<1>6. QED BY <1>4, <1>5

-----------------------------------------------------------------------------
(* Layer 1 is inductive.                                                   *)

\* Records keep their device, or are new: their shape survives every step.
LEMMA RecordShapeStep == BaseInv /\ [Next]_vars => RecordShape'
<1> SUFFICES ASSUME BaseInv, [Next]_vars PROVE RecordShape'
  OBVIOUS
<1>1. RecordShape
  BY DEF BaseInv
<1>2. CASE db' = db
  BY <1>1, <1>2 DEF RecordShape, IsWg
<1>3. CASE \A t \in Slots : SameDevice(db'.dev[t], db.dev[t])
  BY <1>1, <1>3 DEF RecordShape, IsWg, SameDevice
<1>4. ASSUME NEW p \in Procs, CreateAccount(p) PROVE RecordShape'
  BY <1>1, <1>4, CreateEffect DEF RecordShape, IsWg
<1>5. ASSUME NEW p \in Procs,
             NameDevice(p) \/ ConfirmPeer(p) \/ FlagRecords(p) \/ SettleRecords(p)
      PROVE  RecordShape'
  BY <1>3, <1>5, NameEffect, ConfirmEffect, FlagEffect, SettleEffect DEF Kept
<1>6. ASSUME NEW p \in Procs, RecordCertificate(p) PROVE RecordShape'
  <2>1. job[p].id \in Identities
    BY <1>6 DEF RecordCertificate, At, BaseInv, JobShape, Signing
  <2>2. PICK s \in job[p].slots :
          /\ \A t \in Slots : t # s => Kept(t)
          /\ db'.dev[s].type = "ikev2" /\ db'.dev[s].id = job[p].id
    BY <1>6, RecordEffect
  <2>3. QED BY <1>1, <2>1, <2>2 DEF RecordShape, IsWg, Kept, SameDevice
<1>7. ASSUME NEW p \in Procs, AdmitPeer(p) PROVE RecordShape'
  <2>1. job[p].key \in Keys
    BY <1>7 DEF AdmitPeer, At, BaseInv, JobShape
  <2>2. PICK s \in job[p].slots :
          /\ \A t \in Slots : t # s => Kept(t)
          /\ IF Known(db, s) THEN Kept(s)
             ELSE /\ db'.dev[s].type = "wireguard"
                  /\ db'.dev[s].key = job[p].key
                  /\ FirstFree(db, db'.dev[s].address)
    BY <1>7, AdmitEffect
  <2>3. CASE Known(db, s)
    BY <1>3, <2>2, <2>3 DEF Kept
  <2>4. CASE ~Known(db, s)
    BY <1>1, <2>1, <2>2, <2>4
       DEF RecordShape, IsWg, Kept, SameDevice, FirstFree, FreeAddresses
  <2>5. QED BY <2>3, <2>4
<1>8. CASE UNCHANGED vars
  BY <1>2, <1>8 DEF vars
<1>9. CASE Request
  BY <1>2, <1>9 DEF Request, BeginIssue, BeginDeleteAccount, BeginRevoke,
     BeginDeviceInfo, BeginRevokeDevice, BeginEnroll, BeginEnrollWireguard,
     BeginSync
<1>10. CASE Environment
  BY <1>2, <1>10 DEF Environment, Reboot, SwanRestart, Tick, Connect,
     Disconnect, NearExpiry
<1>11. ASSUME NEW p \in Procs, Enrollment(p) \/ Revocation(p) \/ Sync(p) \/ Fail(p)
       PROVE  RecordShape'
  <2>1. CASE \/ ReuseCertificate(p) \/ SignCertificate(p) \/ InstallCertificate(p)
             \/ ReplyCertificate(p) \/ ApplyPeer(p)
    BY <1>2, <2>1 DEF ReuseCertificate, SignCertificate, InstallCertificate,
       ReplyCertificate, ApplyPeer
  <2>2. CASE \/ RemovePeer(p) \/ PeersRemoved(p) \/ RevokeRow(p) \/ RowsRevoked(p)
             \/ PublishCrl(p) \/ GiveUpCrl(p) \/ LoadCreds(p)
             \/ TerminateSession(p) \/ SessionsGone(p)
    BY <1>2, <2>2 DEF RemovePeer, PeersRemoved, RevokeRow, RowsRevoked,
       PublishCrl, GiveUpCrl, LoadCreds, TerminateSession, SessionsGone
  <2>3. CASE SyncRemove(p) \/ SyncApply(p) \/ SyncDone(p) \/ Fail(p)
    BY <1>2, <2>3 DEF SyncRemove, SyncApply, SyncDone, Fail
  <2>4. QED BY <1>4, <1>5, <1>6, <1>7, <1>11, <2>1, <2>2, <2>3
            DEF Enrollment, Revocation, Sync
<1>12. QED BY <1>8, <1>9, <1>10, <1>11 DEF Next

\* JobShape of one process.
JobShapeOf(p) ==
  LET j == job[p] IN
    /\ j.pc \in Signing \cup Admitting \cup {"admit"} =>
         \E s \in Slots : j.slots = {s}
    /\ j.pc \in Signing => j.id \in Identities
    /\ j.pc = "install" => j.serial \in Serials /\ row[j.serial] = j.id
    /\ j.pc \in {"record", "reply"} => folder[j.id] \in Serials
    /\ j.pc = "admit" => /\ j.key \in Keys
                         /\ \A s \in j.slots : Known(db, s) => IsWg(db, s)
    /\ j.pc \in Admitting => j.slots \subseteq WgSlots(db)
    /\ j.pc \in {"flag", "peers", "sync"} => j.todo \subseteq WgSlots(db)

LEMMA IdleShape == \A p \in Procs : (job[p].pc = "idle" => JobShapeOf(p))
                                  /\ (job'[p].pc = "idle" => JobShapeOf(p)')
  BY DEF JobShapeOf, Signing, Admitting

LEMMA SplitShape == /\ JobShape <=> \A p \in Procs : JobShapeOf(p)
                    /\ JobShape' <=> \A p \in Procs : JobShapeOf(p)'
  BY DEF JobShape, JobShapeOf

\* Only the process that takes the step has to be looked at.
LEMMA OneShape ==
  ASSUME BaseInv, NEW p \in Procs, job[p].pc # "idle" \/ lock = None,
         \A q \in Procs \ {p} : job'[q] = job[q], JobShapeOf(p)'
  PROVE  JobShape'
<1>1. \A q \in Procs \ {p} : job'[q].pc = "idle"
  BY HolderIsAlone, FreeMeansIdle DEF BaseInv
<1>2. QED BY <1>1, IdleShape, SplitShape

LEMMA JobShapeStep == BaseInv /\ [Next]_vars => JobShape'
<1> SUFFICES ASSUME BaseInv, [Next]_vars PROVE JobShape'
  OBVIOUS
<1> USE DEF BaseInv
<1>0. /\ TypeOK /\ Locking /\ JobShape /\ \A p \in Procs : JobShapeOf(p)
      /\ \A p \in Procs : job[p] \in Job
  BY SplitShape DEF TypeOK
<1>1. CASE UNCHANGED <<db, job, row, folder>>
  BY <1>0, <1>1 DEF JobShape, WgSlots, IsWg
<1>2. ASSUME NEW p \in Procs, NEW j, Begin(p, j), j \in Job,
             UNCHANGED <<db, row, folder>>, JobShapeOf(p)'
      PROVE  JobShape'
  BY <1>0, <1>2, OneShape DEF Begin, TypeOK
<1>3. ASSUME NEW p \in Procs, job[p].pc # "idle", Release(p) PROVE JobShape'
  <2>1. job'[p] = NoJob /\ \A q \in Procs \ {p} : job'[q] = job[q]
    BY <1>3 DEF Release, TypeOK
  <2>2. JobShapeOf(p)'
    BY <2>1, IdleShape DEF NoJob
  <2>3. QED BY <1>3, <2>1, <2>2, OneShape
<1>4. ASSUME NEW p \in Procs, NEW label \in Labels, job[p].pc # "idle",
             Goto(p, label)
      PROVE  /\ \A q \in Procs \ {p} : job'[q] = job[q]
             /\ job'[p].pc = label
             /\ job'[p].slots = job[p].slots /\ job'[p].todo = job[p].todo
             /\ job'[p].id = job[p].id /\ job'[p].key = job[p].key
             /\ job'[p].serial = job[p].serial
  BY <1>0, <1>4 DEF Goto, TypeOK, Job
<1>5. CASE Request
  <2> USE DEF Procs, NoJob, JobShapeOf, Signing, Admitting
  <2>1. ASSUME NEW a \in Accounts, BeginIssue(a) PROVE JobShape'
    <3> DEFINE j == [NoJob EXCEPT !.pc = "create", !.acct = a]
    <3>1. j \in Job
      BY DEF Job, Labels
    <3>2. QED BY <1>0, <1>2, <2>1, <3>1 DEF BeginIssue, Begin, TypeOK, ca
  <2>2. ASSUME NEW S \in SUBSET Slots, NEW a \in Accounts \cup {None},
               BeginRevoke(S, a)
        PROVE  JobShape'
    <3> DEFINE T == {s \in S : IsWg(db, s)}
               j == [NoJob EXCEPT !.pc = "flag", !.acct = a, !.slots = S,
                                  !.todo = T]
    <3>1. T \in SUBSET WgSlots(db) /\ T \in SUBSET Slots
      BY DEF WgSlots
    <3> HIDE DEF T
    <3>2. j \in Job
      BY <3>1 DEF Job, Labels
    <3>3. Begin("issuer", j) /\ UNCHANGED <<db, row, folder>>
      BY <2>2 DEF BeginRevoke, T, ca
    <3>4. j.pc = "flag" /\ j.todo = T
      OBVIOUS
    <3> HIDE DEF j
    <3>5. WgSlots(db)' = WgSlots(db) /\ job'["issuer"] = j
      BY <3>3, <1>0 DEF Begin, TypeOK, WgSlots, IsWg
    <3>6. QED BY <1>2, <3>1, <3>2, <3>3, <3>4, <3>5
  <2>3. ASSUME NEW s \in Slots, BeginDeviceInfo(s) PROVE JobShape'
    <3> DEFINE j == [NoJob EXCEPT !.pc = "name", !.slots = {s}]
    <3>1. j \in Job
      BY DEF Job, Labels
    <3>2. QED BY <1>0, <1>2, <2>3, <3>1 DEF BeginDeviceInfo, Begin, TypeOK, ca
  <2>4. ASSUME NEW s \in Slots, NEW k \in Keys, NEW i \in Identities,
               BeginEnroll(s, k, i)
        PROVE  JobShape'
    <3> DEFINE j == [NoJob EXCEPT !.pc = "sign", !.slots = {s}, !.id = i, !.key = k]
    <3>1. j \in Job
      BY DEF Job, Labels
    <3>2. QED BY <1>0, <1>2, <2>4, <3>1 DEF BeginEnroll, Begin, TypeOK, ca
  <2>5. ASSUME NEW s \in Slots, NEW k \in Keys, BeginEnrollWireguard(s, k)
        PROVE  JobShape'
    <3> DEFINE j == [NoJob EXCEPT !.pc = "admit", !.slots = {s}, !.key = k]
    <3>1. j \in Job
      BY DEF Job, Labels
    <3>2. /\ Begin("portal", j) /\ UNCHANGED <<db, row, folder>>
          /\ Known(db, s) => IsWg(db, s)
      BY <2>5 DEF BeginEnrollWireguard, MayEnrollWireguard, ca
    <3>3. j.pc = "admit" /\ j.slots = {s} /\ j.key = k
      OBVIOUS
    <3> HIDE DEF j
    <3>4. job'["portal"] = j
      BY <3>2, <1>0 DEF Begin, TypeOK
    <3>5. QED BY <1>2, <3>1, <3>2, <3>3, <3>4 DEF Known, IsWg
  <2>6. CASE BeginSync
    <3> DEFINE j == [NoJob EXCEPT !.pc = "sync", !.todo = WantedSlots(db)]
    <3>1. WantedSlots(db) \in SUBSET Slots /\ WantedSlots(db) \subseteq WgSlots(db)
      BY DEF WantedSlots, WgSlots
    <3>2. j \in Job
      BY <3>1 DEF Job, Labels
    <3>3. Begin("timer", j) /\ UNCHANGED <<db, row, folder>>
      BY <2>6 DEF BeginSync, ca
    <3>4. j.pc = "sync" /\ j.todo = WantedSlots(db)
      OBVIOUS
    <3> HIDE DEF j
    <3>5. WgSlots(db)' = WgSlots(db) /\ job'["timer"] = j
      BY <3>3, <1>0 DEF Begin, TypeOK, WgSlots, IsWg
    <3>6. QED BY <1>2, <3>1, <3>2, <3>3, <3>4, <3>5
  <2>7. ASSUME NEW s \in Slots, BeginRevokeDevice(s) PROVE JobShape'
    BY <2>2, <2>7 DEF BeginRevokeDevice
  <2>8. ASSUME NEW a \in Accounts, BeginDeleteAccount(a) PROVE JobShape'
    <3> DEFINE S == {s \in {a} \X Devices : Known(db, s)}
    <3>1. S \in SUBSET Slots
      BY DEF Slots
    <3> HIDE DEF S
    <3>2. QED BY <2>2, <2>8, <3>1 DEF BeginDeleteAccount, S
  <2>9. QED BY <1>5, <2>1, <2>3, <2>4, <2>5, <2>6, <2>7, <2>8 DEF Request
<1>6. CASE Environment
  <2>1. CASE Reboot
    BY <2>1, IdleShape, SplitShape DEF Reboot, NoJob
  <2>2. CASE ~Reboot
    BY <1>1, <1>6, <2>2 DEF Environment, SwanRestart, Tick, Connect, Disconnect,
       NearExpiry, ca
  <2>3. QED BY <2>1, <2>2
<1>7. ASSUME NEW p \in Procs, Enrollment(p) PROVE JobShape'
  <2> USE DEF At, JobShapeOf, Signing, Admitting
  <2>1. CASE CreateAccount(p) \/ NameDevice(p) \/ ReplyCertificate(p)
             \/ ConfirmPeer(p)
    BY <1>3, <2>1 DEF CreateAccount, NameDevice, ReplyCertificate, ConfirmPeer
  <2>2. CASE ReuseCertificate(p)
    BY <1>0, <1>4, <2>2, OneShape DEF ReuseCertificate, Labels, Reusable, ca, TypeOK
  <2>3. CASE SignCertificate(p)
    <3>1. PICK c \in Serials : /\ row' = [row EXCEPT ![c] = job[p].id]
                               /\ job' = [job EXCEPT ![p].pc = "install",
                                                     ![p].serial = c]
      BY <2>3 DEF SignCertificate
    <3>2. /\ \A q \in Procs \ {p} : job'[q] = job[q]
          /\ job'[p].pc = "install" /\ job'[p].serial = c
          /\ job'[p].slots = job[p].slots /\ job'[p].id = job[p].id
      BY <1>0, <3>1 DEF TypeOK, Job
    <3>3. row'[c] = job[p].id
      BY <3>1 DEF TypeOK
    <3>4. QED BY <1>0, <2>3, <3>2, <3>3, OneShape DEF SignCertificate
  <2>4. CASE InstallCertificate(p)
    BY <1>0, <1>4, <2>4, OneShape DEF InstallCertificate, Labels, TypeOK
  <2>5. CASE RecordCertificate(p)
    BY <1>0, <1>4, <2>5, OneShape DEF RecordCertificate, Labels, ca
  <2>6. CASE AdmitPeer(p)
    <3>1. PICK s \in job[p].slots :
            /\ \A t \in Slots : t # s => Kept(t)
            /\ IF Known(db, s) THEN Kept(s)
               ELSE /\ db'.dev[s].type = "wireguard"
                    /\ db'.dev[s].key = job[p].key
                    /\ FirstFree(db, db'.dev[s].address)
      BY <2>6, AdmitEffect
    <3>2. job[p].slots = {s} /\ s \in Slots
      BY <1>0, <2>6 DEF AdmitPeer
    <3>3. IsWg(db', s)
      BY <1>0, <2>6, <3>1, <3>2 DEF AdmitPeer, IsWg, Kept, SameDevice
    <3>4. QED BY <1>0, <1>4, <2>6, <3>2, <3>3, OneShape
              DEF AdmitPeer, Labels, WgSlots
  <2>7. CASE ApplyPeer(p)
    BY <1>0, <1>4, <2>7, OneShape DEF ApplyPeer, Labels, WgSlots, IsWg, ca
  <2>8. QED BY <1>7, <2>1, <2>2, <2>3, <2>4, <2>5, <2>6, <2>7 DEF Enrollment
<1>8. ASSUME NEW p \in Procs, Revocation(p) PROVE JobShape'
  <2> USE DEF At, JobShapeOf, Signing, Admitting
  <2>1. CASE FlagRecords(p)
    <3>1. \A t \in Slots : SameDevice(db'.dev[t], db.dev[t])
      BY <2>1, FlagEffect
    <3>2. WgSlots(db) \subseteq WgSlots(db')
      BY <3>1 DEF SameDevice, WgSlots, IsWg
    <3>3. QED BY <1>0, <1>4, <2>1, <3>2, OneShape DEF FlagRecords, Labels, ca
  <2>2. CASE RemovePeer(p)
    <3>1. PICK s \in job[p].todo : job' = [job EXCEPT ![p].todo = @ \ {s}]
      BY <2>2 DEF RemovePeer
    <3>2. /\ \A q \in Procs \ {p} : job'[q] = job[q]
          /\ job'[p].pc = "peers" /\ job'[p].todo \subseteq job[p].todo
      BY <1>0, <2>2, <3>1 DEF RemovePeer, TypeOK, Job
    <3>3. QED BY <1>0, <2>2, <3>2, OneShape DEF RemovePeer, WgSlots, IsWg
  <2>3. CASE \/ PeersRemoved(p) \/ RowsRevoked(p) \/ PublishCrl(p) \/ LoadCreds(p)
             \/ SessionsGone(p)
    <3>1. PICK label \in CertSteps \cup {"settle"} : Goto(p, label)
      BY <2>3 DEF PeersRemoved, RowsRevoked, PublishCrl, LoadCreds, SessionsGone,
         CertSteps
    <3>2. job[p].pc # "idle"
      BY <2>3 DEF PeersRemoved, RowsRevoked, PublishCrl, LoadCreds, SessionsGone
    <3>3. QED BY <1>4, <3>1, <3>2, OneShape DEF CertSteps, Labels
  <2>4. CASE RevokeRow(p) \/ TerminateSession(p)
    BY <1>1, <2>4 DEF RevokeRow, TerminateSession, ca
  <2>5. CASE GiveUpCrl(p) \/ SettleRecords(p)
    BY <1>3, <2>5 DEF GiveUpCrl, SettleRecords
  <2>6. QED BY <1>8, <2>1, <2>2, <2>3, <2>4, <2>5 DEF Revocation
<1>9. ASSUME NEW p \in Procs, Sync(p) PROVE JobShape'
  <2> USE DEF At, JobShapeOf, Signing, Admitting
  <2>1. CASE SyncRemove(p)
    BY <1>1, <2>1 DEF SyncRemove, ca
  <2>2. CASE SyncApply(p)
    <3>1. PICK s \in job[p].todo : job' = [job EXCEPT ![p].todo = @ \ {s}]
      BY <2>2 DEF SyncApply
    <3>2. /\ \A q \in Procs \ {p} : job'[q] = job[q]
          /\ job'[p].pc = "sync" /\ job'[p].todo \subseteq job[p].todo
      BY <1>0, <2>2, <3>1 DEF SyncApply, TypeOK, Job
    <3>3. QED BY <1>0, <2>2, <3>2, OneShape DEF SyncApply, WgSlots, IsWg
  <2>3. CASE SyncDone(p)
    BY <1>3, <2>3 DEF SyncDone
  <2>4. QED BY <1>9, <2>1, <2>2, <2>3 DEF Sync
<1>10. ASSUME NEW p \in Procs, Fail(p) PROVE JobShape'
  BY <1>3, <1>10 DEF Fail, At
<1>11. CASE UNCHANGED vars
  BY <1>1, <1>11 DEF vars, ca
<1>12. QED BY <1>5, <1>6, <1>7, <1>8, <1>9, <1>10, <1>11 DEF Next

-----------------------------------------------------------------------------
LEMMA BaseInit == Init => BaseInv
<1> SUFFICES ASSUME Init PROVE BaseInv
  OBVIOUS
<1> USE DEF Init
<1>1. TypeOK
  BY EmptyTypes DEF TypeOK, CrlType
<1>2. Locking /\ JobShape
  BY DEF Locking, JobShape, NoJob, Signing, Admitting
<1>3. RecordShape
  BY DEF RecordShape, EmptyDb, NoRecord, IsWg
<1>4. QED BY <1>1, <1>2, <1>3 DEF BaseInv

LEMMA BaseStep == BaseInv /\ [Next]_vars => BaseInv'
  BY TypeStep, LockingStep, RecordShapeStep, JobShapeStep DEF BaseInv

LEMMA BaseHolds == Spec => []BaseInv
  BY BaseInit, BaseStep, PTL DEF Spec

(* Every variable keeps its type, over every operation, failure and reboot. *)
THEOREM IssuerTypeCorrect == Spec => []TypeOK
<1>1. BaseInv => TypeOK
  BY DEF BaseInv
<1>2. QED BY <1>1, BaseHolds, PTL

(* Mutual exclusion of locked(): at most one process is inside an operation, *)
(* and the copy it works on is the file, so no write is lost to a stale copy. *)
THEOREM IssuerWritesAreSerial == Spec => []Locking
<1>1. BaseInv => Locking
  BY DEF BaseInv
<1>2. QED BY <1>1, BaseHolds, PTL

-----------------------------------------------------------------------------
(* Layer 2: what each step does to the peers and to the records of peers.   *)

LEMMA KeptPeers ==
  ASSUME PeerFacts, peers' \subseteq peers, \A t \in Slots : Kept(t)
  PROVE  PeerFacts'
<1>1. /\ \A t \in Slots : db'.dev[t].key = db.dev[t].key
      /\ \A t \in Slots : /\ IsWg(db', t) <=> IsWg(db, t)
                          /\ Known(db', t) <=> Known(db, t)
      /\ \A t \in Slots : /\ Retired(db', t) <=> Retired(db, t)
                          /\ db'.dev[t].disabled = db.dev[t].disabled
  BY DEF Kept, SameDevice, SameFlags, IsWg, Known, Retired
<1>2. WgSlots(db') = WgSlots(db)
  BY <1>1 DEF WgSlots
<1>3. KeysAreOwned'
  BY <1>1, <1>2 DEF PeerFacts, KeysAreOwned, WgSlots
<1>4. PeersAreRecorded'
  BY <1>1, <1>2 DEF PeerFacts, PeersAreRecorded, WgSlots
<1>5. FreshIsEnabled' /\ RetiredPeerIsGone'
  BY <1>1 DEF PeerFacts, FreshIsEnabled, RetiredPeerIsGone
<1>6. QED BY <1>3, <1>4, <1>5 DEF PeerFacts

LEMMA SameFileKept == ASSUME db'.dev = db.dev PROVE \A t \in Slots : Kept(t)
  BY DEF Kept, SameDevice, SameFlags

\* A peer set for a record that is not disabled.
LEMMA SetPeerFacts ==
  ASSUME PeerFacts, db' = db, NEW s \in WgSlots(db), ~db.dev[s].disabled,
         peers' = peers \cup {db.dev[s].key}
  PROVE  PeerFacts'
<1>1. WgSlots(db') = WgSlots(db)
  BY DEF WgSlots, IsWg
<1>2. RetiredPeerIsGone'
  <2> SUFFICES ASSUME NEW t \in Slots, IsWg(db, t), Retired(db, t),
                      db.dev[t].key \in peers'
               PROVE  FALSE
    BY DEF RetiredPeerIsGone, IsWg, Retired
  <2>1. db.dev[t].key = db.dev[s].key
    BY DEF PeerFacts, RetiredPeerIsGone
  <2>2. t = s
    BY <2>1 DEF PeerFacts, KeysAreOwned, WgSlots
  <2>3. QED BY <2>2 DEF Retired
<1>3. QED BY <1>1, <1>2 DEF PeerFacts, KeysAreOwned, PeersAreRecorded,
             FreshIsEnabled, Known

LEMMA PeerFactsStep == BaseInv /\ PeerInv /\ [Next]_vars => PeerFacts'
<1> SUFFICES ASSUME BaseInv, PeerInv, [Next]_vars PROVE PeerFacts'
  OBVIOUS
<1>0. PeerFacts /\ JobPeers /\ JobShape /\ TypeOK /\ Locking
  BY DEF PeerInv, BaseInv
<1>1. ASSUME db' = db, peers' \subseteq peers PROVE PeerFacts'
  BY <1>0, <1>1, KeptPeers, SameFileKept
<1>2. CASE UNCHANGED vars
  BY <1>1, <1>2 DEF vars, wire
<1>3. CASE Request
  <2>1. db' = db /\ peers' = peers
    BY <1>3 DEF Request, BeginIssue, BeginDeleteAccount, BeginRevoke,
       BeginDeviceInfo, BeginRevokeDevice, BeginEnroll, BeginEnrollWireguard,
       BeginSync, wire
  <2>2. QED BY <1>1, <2>1
<1>4. CASE Environment
  <2>1. db' = db /\ peers' \subseteq peers
    BY <1>4 DEF Environment, Reboot, SwanRestart, Tick, Connect, Disconnect,
       NearExpiry, wire
  <2>2. QED BY <1>1, <2>1
<1>5. ASSUME NEW p \in Procs, Enrollment(p) PROVE PeerFacts'
  <2>1. CASE CreateAccount(p)
    BY <1>0, <2>1, CreateEffect, SameFileKept, KeptPeers DEF CreateAccount, wire
  <2>2. CASE NameDevice(p) \/ ConfirmPeer(p)
    BY <1>0, <2>2, NameEffect, ConfirmEffect, KeptPeers
       DEF NameDevice, ConfirmPeer, wire
  <2>3. CASE \/ ReuseCertificate(p) \/ SignCertificate(p)
             \/ InstallCertificate(p) \/ ReplyCertificate(p)
    BY <1>1, <2>3 DEF ReuseCertificate, SignCertificate, InstallCertificate,
       ReplyCertificate, wire
  <2>4. CASE RecordCertificate(p)
    <3>1. PICK s \in job[p].slots :
            /\ \A t \in Slots : t # s => Kept(t)
            /\ db'.dev[s].type = "ikev2" /\ SameFlags(db'.dev[s], db.dev[s])
      BY <2>4, RecordEffect
    <3>2. peers' = peers /\ s \in Slots /\ ~IsWg(db, s) /\ ~IsWg(db', s)
      BY <1>0, <2>4, <3>1
         DEF RecordCertificate, wire, TypeOK, Job, JobPeers, At, Signing, IsWg
    <3>3. \A t \in Slots : /\ IsWg(db', t) <=> IsWg(db, t)
                           /\ Retired(db', t) <=> Retired(db, t)
                           /\ db'.dev[t].disabled => Known(db', t)
                           /\ IsWg(db, t) => db'.dev[t].key = db.dev[t].key
      BY <1>0, <3>1, <3>2 DEF Kept, SameDevice, SameFlags, IsWg, Retired, Known,
         PeerFacts, FreshIsEnabled
    <3>4. QED BY <1>0, <3>2, <3>3 DEF PeerFacts, KeysAreOwned, PeersAreRecorded,
                 FreshIsEnabled, RetiredPeerIsGone, WgSlots
  <2>5. CASE AdmitPeer(p)
    <3>1. PICK s \in job[p].slots :
            /\ \A t \in Slots : t # s => Kept(t)
            /\ SameFlags(db'.dev[s], db.dev[s])
            /\ IF Known(db, s) THEN Kept(s)
               ELSE /\ db'.dev[s].type = "wireguard"
                    /\ db'.dev[s].key = job[p].key
                    /\ FirstFree(db, db'.dev[s].address)
      BY <2>5, AdmitEffect
    <3>2. /\ peers' = peers /\ s \in Slots
          /\ MayEnrollWireguard(db, s, job[p].key)
      BY <1>0, <2>5, <3>1 DEF AdmitPeer, wire, TypeOK, Job, JobPeers, At
    <3>3. CASE Known(db, s)
      BY <1>0, <3>1, <3>2, <3>3, KeptPeers
    <3>4. CASE ~Known(db, s)
      <4>1. ~IsWg(db, s) /\ IsWg(db', s) /\ ~Retired(db', s) /\ Known(db', s)
        BY <1>0, <3>1, <3>2, <3>4 DEF IsWg, Known, Retired, SameFlags, PeerFacts,
           FreshIsEnabled
      <4>2. \A t \in Slots : t # s =>
              /\ IsWg(db', t) <=> IsWg(db, t)
              /\ Known(db', t) <=> Known(db, t)
              /\ Retired(db', t) <=> Retired(db, t)
              /\ db'.dev[t].disabled = db.dev[t].disabled
              /\ db'.dev[t].key = db.dev[t].key
        BY <3>1 DEF Kept, SameDevice, SameFlags, IsWg, Retired, Known
      <4>3. \A t \in WgSlots(db) : db.dev[t].key # db'.dev[s].key
        BY <3>1, <3>2, <3>4, <4>1 DEF MayEnrollWireguard, KeyUsedElsewhere, WgSlots
      <4>4. KeysAreOwned'
        BY <1>0, <4>1, <4>2, <4>3 DEF PeerFacts, KeysAreOwned, WgSlots
      <4>5. PeersAreRecorded'
        BY <1>0, <3>2, <4>1, <4>2 DEF PeerFacts, PeersAreRecorded, WgSlots
      <4>6. FreshIsEnabled' /\ RetiredPeerIsGone'
        BY <1>0, <3>2, <4>1, <4>2 DEF PeerFacts, FreshIsEnabled, RetiredPeerIsGone
      <4>7. QED BY <4>4, <4>5, <4>6 DEF PeerFacts
    <3>5. QED BY <3>3, <3>4
  <2>6. CASE ApplyPeer(p)
    <3>1. PICK s \in job[p].slots : peers' = peers \cup {db.dev[s].key}
      BY <1>0, <2>6, HolderIsAlone DEF ApplyPeer, At, SetPeer
    <3>2. s \in WgSlots(db) /\ ~db.dev[s].disabled /\ db' = db
      BY <1>0, <2>6, <3>1 DEF ApplyPeer, At, JobShape, JobPeers, Admitting
    <3>3. QED BY <1>0, <3>1, <3>2, SetPeerFacts
  <2>7. QED BY <1>5, <2>1, <2>2, <2>3, <2>4, <2>5, <2>6 DEF Enrollment
<1>6. ASSUME NEW p \in Procs, Revocation(p) PROVE PeerFacts'
  <2>1. CASE FlagRecords(p)
    <3>1. \A t \in Slots :
           /\ SameDevice(db'.dev[t], db.dev[t])
           /\ t \in job[p].slots => db'.dev[t].disabled /\ db'.dev[t].revoke_pending
           /\ t \notin job[p].slots => Kept(t)
      BY <2>1, FlagEffect
    <3>2. peers' = peers /\ \A s \in job[p].slots : Known(db, s)
      BY <1>0, <2>1 DEF FlagRecords, wire, JobPeers, At
    <3>3. \A t \in Slots : /\ IsWg(db', t) <=> IsWg(db, t)
                           /\ Known(db', t) <=> Known(db, t)
                           /\ db'.dev[t].key = db.dev[t].key
      BY <3>1 DEF SameDevice, IsWg, Known
    <3>4. \A t \in Slots : /\ Retired(db', t) => Retired(db, t)
                           /\ db'.dev[t].disabled => Known(db', t)
      BY <1>0, <3>1, <3>2, <3>3 DEF Kept, SameFlags, Retired, PeerFacts,
         FreshIsEnabled
    <3>5. QED BY <1>0, <3>2, <3>3, <3>4 DEF PeerFacts, KeysAreOwned,
                 PeersAreRecorded, FreshIsEnabled, RetiredPeerIsGone, WgSlots
  <2>2. CASE RemovePeer(p)
    BY <1>1, <2>2 DEF RemovePeer, DropPeer
  <2>3. CASE \/ PeersRemoved(p) \/ RevokeRow(p) \/ RowsRevoked(p)
             \/ PublishCrl(p) \/ GiveUpCrl(p) \/ LoadCreds(p)
             \/ TerminateSession(p) \/ SessionsGone(p)
    BY <1>1, <2>3 DEF PeersRemoved, RevokeRow, RowsRevoked, PublishCrl,
       GiveUpCrl, LoadCreds, TerminateSession, SessionsGone, wire
  <2>4. CASE SettleRecords(p)
    <3>1. \A t \in Slots :
           /\ SameDevice(db'.dev[t], db.dev[t])
           /\ db'.dev[t].disabled = db.dev[t].disabled
           /\ t \notin job[p].slots => Kept(t)
      BY <2>4, SettleEffect
    <3>2. /\ peers' = peers
          /\ \A s \in job[p].slots : IsWg(db, s) => db.dev[s].key \notin peers
      BY <1>0, <2>4 DEF SettleRecords, wire, JobPeers, At, Revoking
    <3>3. \A t \in Slots : /\ IsWg(db', t) <=> IsWg(db, t)
                           /\ Known(db', t) <=> Known(db, t)
                           /\ db'.dev[t].key = db.dev[t].key
      BY <3>1 DEF SameDevice, IsWg, Known
    <3>4. \A t \in Slots : t \notin job[p].slots =>
            (Retired(db', t) <=> Retired(db, t))
      BY <3>1 DEF Kept, SameFlags, Retired
    <3>5. QED BY <1>0, <3>1, <3>2, <3>3, <3>4 DEF PeerFacts, KeysAreOwned,
                 PeersAreRecorded, FreshIsEnabled, RetiredPeerIsGone, WgSlots
  <2>5. QED BY <1>6, <2>1, <2>2, <2>3, <2>4 DEF Revocation
<1>7. ASSUME NEW p \in Procs, Sync(p) PROVE PeerFacts'
  <2>1. CASE SyncRemove(p) \/ SyncDone(p)
    BY <1>1, <2>1 DEF SyncRemove, SyncDone, DropPeer, wire
  <2>2. CASE SyncApply(p)
    <3>1. PICK s \in job[p].todo : peers' = peers \cup {db.dev[s].key}
      BY <1>0, <2>2, HolderIsAlone DEF SyncApply, At, SetPeer
    <3>2. s \in WgSlots(db) /\ ~db.dev[s].disabled /\ db' = db
      BY <1>0, <2>2, <3>1 DEF SyncApply, At, JobShape, JobPeers, WantedSlots
    <3>3. QED BY <1>0, <3>1, <3>2, SetPeerFacts
  <2>3. QED BY <1>7, <2>1, <2>2 DEF Sync
<1>8. ASSUME NEW p \in Procs, Fail(p) PROVE PeerFacts'
  BY <1>1, <1>8 DEF Fail, wire
<1>9. QED BY <1>2, <1>3, <1>4, <1>5, <1>6, <1>7, <1>8 DEF Next

\* JobPeers of one process.
JobPeersOf(p) ==
  LET j == job[p] IN
    /\ j.pc = "admit" => \A s \in j.slots : MayEnrollWireguard(db, s, j.key)
    /\ j.pc \in Admitting \cup Signing => \A s \in j.slots : ~db.dev[s].disabled
    /\ j.pc \in Signing => \A s \in j.slots : ~IsWg(db, s)
    /\ j.pc = "sync" => j.todo \subseteq WantedSlots(db)
    /\ j.pc = "flag" => /\ \A s \in j.slots : Known(db, s)
                        /\ j.todo = j.slots \cap WgSlots(db)
    /\ j.pc \in Revoking => \A s \in j.slots :
         /\ db.dev[s].disabled /\ db.dev[s].revoke_pending
         /\ IsWg(db, s) => \/ db.dev[s].key \notin peers
                           \/ j.pc = "peers" /\ s \in j.todo

LEMMA IdlePeers == \A p \in Procs : job'[p].pc = "idle" => JobPeersOf(p)'
  BY DEF JobPeersOf, Signing, Admitting, Revoking, CertSteps

LEMMA SplitPeers == /\ JobPeers <=> \A p \in Procs : JobPeersOf(p)
                    /\ JobPeers' <=> \A p \in Procs : JobPeersOf(p)'
<1>1. JobPeers <=> \A p \in Procs : JobPeersOf(p)
  BY DEF JobPeers, JobPeersOf
<1>2. JobPeers' <=> \A p \in Procs : JobPeersOf(p)'
  BY DEF JobPeers, JobPeersOf
<1>3. QED BY <1>1, <1>2

LEMMA OnePeers ==
  ASSUME BaseInv, NEW p \in Procs, job[p].pc # "idle" \/ lock = None,
         \A q \in Procs \ {p} : job'[q] = job[q], JobPeersOf(p)'
  PROVE  JobPeers'
<1>1. \A q \in Procs \ {p} : job'[q].pc = "idle"
  BY HolderIsAlone, FreeMeansIdle DEF BaseInv
<1>2. QED BY <1>1, IdlePeers, SplitPeers

LEMMA JobPeersStep == BaseInv /\ PeerInv /\ [Next]_vars => JobPeers'
<1> SUFFICES ASSUME BaseInv, PeerInv, [Next]_vars PROVE JobPeers'
  OBVIOUS
<1>0. /\ PeerFacts /\ JobShape /\ TypeOK /\ Locking
      /\ \A p \in Procs : JobPeersOf(p) /\ JobShapeOf(p)
      /\ \A p \in Procs : job[p] \in Job
  BY SplitPeers, SplitShape DEF PeerInv, BaseInv, TypeOK
<1>1. CASE UNCHANGED <<db, job, peers>>
  BY <1>0, <1>1, SplitPeers DEF JobPeersOf, WgSlots, IsWg, Known, WantedSlots,
     MayEnrollWireguard, HasRoom, ActiveDevices, FreeAddresses,
     KeyUsedElsewhere, Live, Retired
<1>2. ASSUME NEW p \in Procs, NEW j, Begin(p, j)
      PROVE  job'[p] = j /\ (JobPeersOf(p)' => JobPeers')
  BY <1>0, <1>2, OnePeers DEF Begin, TypeOK
<1>3. ASSUME NEW p \in Procs, job[p].pc # "idle", Release(p) PROVE JobPeers'
  <2>1. job'[p] = NoJob /\ \A q \in Procs \ {p} : job'[q] = job[q]
    BY <1>0, <1>3 DEF Release, TypeOK
  <2>2. JobPeersOf(p)'
    BY <2>1, IdlePeers DEF NoJob
  <2>3. QED BY <1>3, <2>1, <2>2, OnePeers
<1>4. ASSUME NEW p \in Procs, NEW label \in Labels, job[p].pc # "idle",
             Goto(p, label)
      PROVE  /\ \A q \in Procs \ {p} : job'[q] = job[q]
             /\ job'[p].pc = label
             /\ job'[p].slots = job[p].slots /\ job'[p].todo = job[p].todo
             /\ JobPeersOf(p)' => JobPeers'
  BY <1>0, <1>4, OnePeers DEF Goto, TypeOK, Job
<1>5. CASE Request
  <2> USE DEF Procs
  <2>1. ASSUME NEW a \in Accounts, BeginIssue(a) PROVE JobPeers'
    <3> DEFINE j == [NoJob EXCEPT !.pc = "create", !.acct = a]
    <3>1. Begin("command", j) /\ j.pc = "create"
      BY <2>1 DEF BeginIssue, NoJob
    <3> HIDE DEF j
    <3>2. QED BY <1>2, <3>1 DEF JobPeersOf, Signing, Admitting, Revoking, CertSteps
  <2>2. ASSUME NEW S \in SUBSET Slots, NEW a, BeginRevoke(S, a),
               \A s \in S : Known(db, s)
        PROVE  JobPeers'
    <3> DEFINE T == {s \in S : IsWg(db, s)}
               j == [NoJob EXCEPT !.pc = "flag", !.acct = a, !.slots = S,
                                  !.todo = T]
    <3>1. j.pc = "flag" /\ j.slots = S /\ j.todo = T
      BY DEF NoJob
    <3>2. Begin("issuer", j) /\ db' = db
      BY <2>2 DEF BeginRevoke
    <3>3. T = S \cap WgSlots(db)
      BY DEF WgSlots
    <3> HIDE DEF T, j
    <3>4. job'["issuer"] = j /\ (JobPeersOf("issuer")' => JobPeers')
      BY <1>2, <3>2
    <3>5. JobPeersOf("issuer")'
      BY <2>2, <3>1, <3>2, <3>3, <3>4 DEF JobPeersOf, Signing, Admitting,
         Revoking, CertSteps, Known, WgSlots, IsWg
    <3>6. QED BY <3>4, <3>5
  <2>3. ASSUME NEW s \in Slots, BeginDeviceInfo(s) PROVE JobPeers'
    <3> DEFINE j == [NoJob EXCEPT !.pc = "name", !.slots = {s}]
    <3>1. Begin("issuer", j) /\ j.pc = "name"
      BY <2>3 DEF BeginDeviceInfo, NoJob
    <3> HIDE DEF j
    <3>2. QED BY <1>2, <3>1 DEF JobPeersOf, Signing, Admitting, Revoking, CertSteps
  <2>4. ASSUME NEW s \in Slots, NEW k \in Keys, NEW i \in Identities,
               BeginEnroll(s, k, i)
        PROVE  JobPeers'
    <3> DEFINE j == [NoJob EXCEPT !.pc = "sign", !.slots = {s}, !.id = i, !.key = k]
    <3>1. /\ Begin("issuer", j) /\ db' = db
          /\ ~db.dev[s].disabled /\ ~IsWg(db, s)
      BY <2>4 DEF BeginEnroll, Known, IsWg
    <3>2. j.pc = "sign" /\ j.slots = {s}
      BY DEF NoJob
    <3> HIDE DEF j
    <3>3. QED BY <1>2, <3>1, <3>2 DEF JobPeersOf, IsWg, Signing, Admitting,
                 Revoking, CertSteps
  <2>5. ASSUME NEW s \in Slots, NEW k \in Keys, BeginEnrollWireguard(s, k)
        PROVE  JobPeers'
    <3> DEFINE j == [NoJob EXCEPT !.pc = "admit", !.slots = {s}, !.key = k]
    <3>1. Begin("portal", j) /\ db' = db /\ MayEnrollWireguard(db, s, k)
      BY <2>5 DEF BeginEnrollWireguard
    <3>2. j.pc = "admit" /\ j.slots = {s} /\ j.key = k
      BY DEF NoJob
    <3> HIDE DEF j
    <3>3. MayEnrollWireguard(db', s, k)
      BY <3>1
    <3>4. QED BY <1>2, <3>1, <3>2, <3>3 DEF JobPeersOf, Signing, Admitting,
                 Revoking, CertSteps
  <2>6. CASE BeginSync
    <3> DEFINE j == [NoJob EXCEPT !.pc = "sync", !.todo = WantedSlots(db)]
    <3>1. Begin("timer", j) /\ db' = db
      BY <2>6 DEF BeginSync
    <3>2. j.pc = "sync" /\ j.todo = WantedSlots(db)
      BY DEF NoJob
    <3> HIDE DEF j
    <3>3. j.todo = WantedSlots(db')
      BY <3>1, <3>2
    <3>4. QED BY <1>2, <3>1, <3>2, <3>3 DEF JobPeersOf, Signing, Admitting,
                 Revoking, CertSteps
  <2>7. ASSUME NEW s \in Slots, BeginRevokeDevice(s) PROVE JobPeers'
    BY <2>2, <2>7 DEF BeginRevokeDevice
  <2>8. ASSUME NEW a \in Accounts, BeginDeleteAccount(a) PROVE JobPeers'
    <3> DEFINE S == {s \in {a} \X Devices : Known(db, s)}
    <3>1. S \in SUBSET Slots /\ \A s \in S : Known(db, s)
      BY DEF Slots
    <3>2. BeginRevoke(S, a)
      BY <2>8 DEF BeginDeleteAccount
    <3> HIDE DEF S
    <3>3. QED BY <2>2, <3>1, <3>2
  <2>9. QED BY <1>5, <2>1, <2>3, <2>4, <2>5, <2>6, <2>7, <2>8 DEF Request
<1>6. CASE Environment
  <2>1. CASE Reboot
    BY <2>1, IdlePeers, SplitPeers DEF Reboot, NoJob
  <2>2. CASE ~Reboot
    BY <1>1, <1>6, <2>2 DEF Environment, SwanRestart, Tick, Connect, Disconnect,
       NearExpiry, wire
  <2>3. QED BY <2>1, <2>2
<1>7. ASSUME NEW p \in Procs, Enrollment(p) PROVE JobPeers'
  <2> USE DEF At
  <2>1. CASE CreateAccount(p) \/ NameDevice(p) \/ ReplyCertificate(p)
             \/ ConfirmPeer(p)
    BY <1>3, <2>1 DEF CreateAccount, NameDevice, ReplyCertificate, ConfirmPeer
  <2>2. ASSUME job[p].pc \in Signing, NEW label \in Signing, db' = db,
               \A q \in Procs \ {p} : job'[q] = job[q],
               job'[p].pc = label, job'[p].slots = job[p].slots
        PROVE  JobPeers'
    <3>1. JobPeersOf(p)'
      BY <1>0, <2>2 DEF JobPeersOf, Signing, Admitting, Revoking, CertSteps, IsWg
    <3>2. QED BY <2>2, <3>1, OnePeers DEF Signing
  <2>3. CASE ReuseCertificate(p) \/ InstallCertificate(p)
    BY <1>4, <2>2, <2>3 DEF ReuseCertificate, InstallCertificate, Signing, Labels
  <2>4. CASE SignCertificate(p)
    <3>1. PICK c \in Serials : job' = [job EXCEPT ![p].pc = "install",
                                                  ![p].serial = c]
      BY <2>4 DEF SignCertificate
    <3>2. /\ \A q \in Procs \ {p} : job'[q] = job[q]
          /\ job'[p].pc = "install" /\ job'[p].slots = job[p].slots
      BY <1>0, <3>1 DEF TypeOK, Job
    <3>3. QED BY <2>2, <2>4, <3>2 DEF SignCertificate, Signing
  <2>5. CASE RecordCertificate(p)
    <3>1. PICK s \in job[p].slots :
            /\ db'.dev[s].type = "ikev2" /\ SameFlags(db'.dev[s], db.dev[s])
      BY <2>5, RecordEffect
    <3>2. /\ job[p].slots = {s} /\ ~db.dev[s].disabled
      BY <1>0, <2>5, <3>1 DEF RecordCertificate, JobShapeOf, JobPeersOf, Signing
    <3>3. job'[p].slots = {s} /\ ~db'.dev[s].disabled /\ ~IsWg(db', s)
      BY <1>4, <2>5, <3>1, <3>2 DEF RecordCertificate, Labels, SameFlags, IsWg
    <3>4. QED BY <1>4, <2>5, <3>3 DEF RecordCertificate, Labels, JobPeersOf,
                 Signing, Admitting, Revoking, CertSteps
  <2>6. CASE AdmitPeer(p)
    <3>1. PICK s \in job[p].slots : SameFlags(db'.dev[s], db.dev[s])
      BY <2>6, AdmitEffect
    <3>2. /\ job[p].slots = {s} /\ s \in Slots
          /\ MayEnrollWireguard(db, s, job[p].key)
      BY <1>0, <2>6, <3>1 DEF AdmitPeer, JobShapeOf, JobPeersOf
    <3>3. ~db.dev[s].disabled
      BY <1>0, <3>2 DEF MayEnrollWireguard, PeerFacts, FreshIsEnabled
    <3>4. job'[p].slots = {s} /\ ~db'.dev[s].disabled
      BY <1>4, <2>6, <3>1, <3>2, <3>3 DEF AdmitPeer, Labels, SameFlags
    <3>5. QED BY <1>4, <2>6, <3>4 DEF AdmitPeer, Labels, JobPeersOf,
                 Signing, Admitting, Revoking, CertSteps
  <2>7. CASE ApplyPeer(p)
    <3>1. /\ job'[p].pc = "confirm" /\ job'[p].slots = job[p].slots
          /\ JobPeersOf(p)' => JobPeers'
      BY <1>4, <2>7 DEF ApplyPeer, Labels
    <3>2. \A s \in job[p].slots : ~db'.dev[s].disabled
      BY <1>0, <2>7 DEF ApplyPeer, JobPeersOf, Admitting
    <3>3. QED BY <3>1, <3>2 DEF JobPeersOf, Signing, Admitting, Revoking, CertSteps
  <2>8. QED BY <1>7, <2>1, <2>3, <2>4, <2>5, <2>6, <2>7 DEF Enrollment
<1>8. ASSUME NEW p \in Procs, Revocation(p) PROVE JobPeers'
  <2> USE DEF At
  <2>1. CASE FlagRecords(p)
    <3>1. \A t \in Slots :
           /\ SameDevice(db'.dev[t], db.dev[t])
           /\ t \in job[p].slots => db'.dev[t].disabled /\ db'.dev[t].revoke_pending
      BY <2>1, FlagEffect
    <3>2. /\ job'[p].pc = "peers" /\ job'[p].slots = job[p].slots
          /\ job'[p].todo = job[p].todo
          /\ JobPeersOf(p)' => JobPeers'
      BY <1>4, <2>1 DEF FlagRecords, Labels
    <3>3. /\ job[p].slots \subseteq Slots
          /\ job[p].todo = job[p].slots \cap WgSlots(db)
      BY <1>0, <2>1 DEF FlagRecords, Job, JobPeersOf
    <3>4. \A t \in Slots : IsWg(db', t) <=> IsWg(db, t)
      BY <3>1 DEF SameDevice, IsWg
    <3>5. JobPeersOf(p)'
      BY <3>1, <3>2, <3>3, <3>4 DEF JobPeersOf, Signing, Admitting, Revoking,
         CertSteps, WgSlots
    <3>6. QED BY <3>2, <3>5
  <2>2. CASE RemovePeer(p)
    <3>1. PICK s \in job[p].todo : /\ job' = [job EXCEPT ![p].todo = @ \ {s}]
                                   /\ peers' = peers \ {db.dev[s].key}
      BY <1>0, <2>2, HolderIsAlone DEF RemovePeer, DropPeer
    <3>2. /\ \A q \in Procs \ {p} : job'[q] = job[q]
          /\ job'[p].pc = "peers" /\ job'[p].slots = job[p].slots
          /\ job'[p].todo = job[p].todo \ {s}
      BY <1>0, <2>2, <3>1 DEF RemovePeer, TypeOK, Job
    <3>3. \A t \in job[p].slots :
            /\ db.dev[t].disabled /\ db.dev[t].revoke_pending
            /\ IsWg(db, t) => db.dev[t].key \notin peers' \/ t \in job'[p].todo
      BY <1>0, <2>2, <3>1, <3>2 DEF RemovePeer, JobPeersOf, Revoking
    <3>4. JobPeersOf(p)'
      BY <2>2, <3>2, <3>3 DEF RemovePeer, JobPeersOf, Signing, Admitting,
         Revoking, CertSteps, IsWg
    <3>5. QED BY <2>2, <3>2, <3>4, OnePeers DEF RemovePeer
  <2>3. CASE \/ PeersRemoved(p) \/ RowsRevoked(p) \/ PublishCrl(p) \/ LoadCreds(p)
             \/ SessionsGone(p)
    <3> USE DEF PeersRemoved, RowsRevoked, PublishCrl, LoadCreds, SessionsGone
    <3>1. PICK label \in CertSteps \cup {"settle"} : Goto(p, label)
      BY <2>3 DEF CertSteps
    <3>2. /\ job[p].pc \in {"peers"} \cup CertSteps /\ db' = db /\ peers' = peers
          /\ job[p].pc = "peers" => job[p].todo = {}
      BY <2>3 DEF CertSteps, wire
    <3>3. /\ job'[p].pc = label /\ job'[p].slots = job[p].slots
          /\ JobPeersOf(p)' => JobPeers'
      BY <1>4, <3>1, <3>2 DEF CertSteps, Labels
    <3>4. \A s \in job[p].slots :
            /\ db.dev[s].disabled /\ db.dev[s].revoke_pending
            /\ IsWg(db, s) => db.dev[s].key \notin peers
      BY <1>0, <3>2 DEF JobPeersOf, Revoking
    <3>5. \A s \in job'[p].slots :
            /\ db'.dev[s].disabled /\ db'.dev[s].revoke_pending
            /\ IsWg(db', s) => db'.dev[s].key \notin peers'
      BY <3>2, <3>3, <3>4
    <3>6. JobPeersOf(p)'
      BY <3>1, <3>3, <3>5 DEF JobPeersOf, CertSteps, Signing, Admitting
    <3>7. QED BY <3>3, <3>6
  <2>4. CASE RevokeRow(p) \/ TerminateSession(p)
    BY <1>1, <2>4 DEF RevokeRow, TerminateSession, wire
  <2>5. CASE GiveUpCrl(p) \/ SettleRecords(p)
    BY <1>3, <2>5 DEF GiveUpCrl, SettleRecords
  <2>6. QED BY <1>8, <2>1, <2>2, <2>3, <2>4, <2>5 DEF Revocation
<1>9. ASSUME NEW p \in Procs, Sync(p) PROVE JobPeers'
  <2> USE DEF At
  <2>1. ASSUME job[p].pc = "sync", db' = db, job'[p].pc = "sync",
               job'[p].todo \subseteq job[p].todo,
               \A q \in Procs \ {p} : job'[q] = job[q]
        PROVE  JobPeers'
    <3>1. WantedSlots(db') = WantedSlots(db)
      BY <2>1
    <3>2. JobPeersOf(p)'
      BY <1>0, <2>1, <3>1 DEF JobPeersOf, Signing, Admitting, Revoking, CertSteps
    <3>3. QED BY <2>1, <3>2, OnePeers
  <2>2. CASE SyncRemove(p)
    BY <2>1, <2>2 DEF SyncRemove
  <2>3. CASE SyncApply(p)
    <3>1. PICK s \in job[p].todo : job' = [job EXCEPT ![p].todo = @ \ {s}]
      BY <2>3 DEF SyncApply
    <3>2. /\ \A q \in Procs \ {p} : job'[q] = job[q]
          /\ job'[p].pc = job[p].pc /\ job'[p].todo \subseteq job[p].todo
      BY <1>0, <3>1 DEF TypeOK, Job
    <3>3. QED BY <2>1, <2>3, <3>2 DEF SyncApply
  <2>4. CASE SyncDone(p)
    BY <1>3, <2>4 DEF SyncDone
  <2>5. QED BY <1>9, <2>2, <2>3, <2>4 DEF Sync
<1>10. ASSUME NEW p \in Procs, Fail(p) PROVE JobPeers'
  BY <1>3, <1>10 DEF Fail, At
<1>11. CASE UNCHANGED vars
  BY <1>1, <1>11 DEF vars, wire
<1>12. QED BY <1>5, <1>6, <1>7, <1>8, <1>9, <1>10, <1>11 DEF Next

-----------------------------------------------------------------------------
LEMMA PeerInit == Init => PeerInv
<1> SUFFICES ASSUME Init PROVE PeerInv
  OBVIOUS
<1>1. \A s \in Slots : db.dev[s] = NoRecord
  BY DEF Init, EmptyDb
<1>2. PeerFacts
  BY <1>1 DEF Init, PeerFacts, KeysAreOwned, PeersAreRecorded, FreshIsEnabled,
     RetiredPeerIsGone, WgSlots, IsWg, Known, NoRecord
<1>3. JobPeers
  BY DEF Init, JobPeers, NoJob, Signing, Admitting, Revoking, CertSteps
<1>4. QED BY <1>2, <1>3 DEF PeerInv

LEMMA PeerHolds == Spec => [](BaseInv /\ PeerInv)
<1>1. BaseInv /\ PeerInv /\ [Next]_vars => BaseInv' /\ PeerInv'
  BY BaseStep, PeerFactsStep, JobPeersStep DEF PeerInv
<1>2. QED BY BaseInit, PeerInit, <1>1, PTL DEF Spec

(* A revocation reported complete is complete in the kernel: the key of a   *)
(* retired device is no peer, whatever failed or was retried on the way.    *)
THEOREM IssuerRetiredPeerIsGone == Spec => []RetiredPeerIsGone
<1>1. PeerInv => RetiredPeerIsGone
  BY DEF PeerInv, PeerFacts
<1>2. QED BY <1>1, PeerHolds, PTL

-----------------------------------------------------------------------------
Unchanging(s) == /\ db'.dev[s].disabled /\ db'.dev[s].key = db.dev[s].key
                 /\ db'.dev[s].id = db.dev[s].id
                 /\ db'.dev[s].address = db.dev[s].address

LEMMA FinalStep ==
  ASSUME BaseInv, PeerInv, [Next]_vars, NEW t \in Slots, db.dev[t].disabled
  PROVE  Unchanging(t)
<1>0. PeerFacts /\ JobShape /\ JobPeers /\ TypeOK
  BY DEF PeerInv, BaseInv
<1>1. ASSUME db'.dev = db.dev PROVE Unchanging(t)
  BY <1>1 DEF Unchanging
<1>2. ASSUME Kept(t) PROVE Unchanging(t)
  BY <1>2 DEF Unchanging, Kept, SameDevice, SameFlags
<1>3. ASSUME NEW p \in Procs,
             CreateAccount(p) \/ NameDevice(p) \/ ConfirmPeer(p)
      PROVE  Unchanging(t)
  BY <1>1, <1>2, <1>3, CreateEffect, NameEffect, ConfirmEffect
<1>4. ASSUME NEW p \in Procs, RecordCertificate(p) PROVE Unchanging(t)
  <2>1. PICK s \in job[p].slots : \A u \in Slots : u # s => Kept(u)
    BY <1>4, RecordEffect
  <2>2. ~db.dev[s].disabled
    BY <1>0, <1>4, <2>1 DEF RecordCertificate, At, JobPeers, Signing
  <2>3. QED BY <1>2, <2>1, <2>2
<1>5. ASSUME NEW p \in Procs, AdmitPeer(p) PROVE Unchanging(t)
  <2>1. PICK s \in job[p].slots : /\ \A u \in Slots : u # s => Kept(u)
                                  /\ Known(db, s) => Kept(s)
    BY <1>5, AdmitEffect
  <2>2. Known(db, t)
    BY <1>0 DEF PeerFacts, FreshIsEnabled
  <2>3. QED BY <1>2, <2>1, <2>2
<1>6. ASSUME NEW p \in Procs, FlagRecords(p) PROVE Unchanging(t)
  BY <1>2, <1>6, FlagEffect DEF Unchanging, SameDevice
<1>7. ASSUME NEW p \in Procs, SettleRecords(p) PROVE Unchanging(t)
  BY <1>7, SettleEffect DEF Unchanging, SameDevice
<1>8. CASE UNCHANGED vars
  BY <1>1, <1>8 DEF vars
<1>9. CASE Request
  <2>1. db' = db
    BY <1>9 DEF Request, BeginIssue, BeginDeleteAccount, BeginRevoke,
       BeginDeviceInfo, BeginRevokeDevice, BeginEnroll, BeginEnrollWireguard,
       BeginSync
  <2>2. QED BY <1>1, <2>1
<1>10. CASE Environment
  <2>1. db' = db
    BY <1>10 DEF Environment, Reboot, SwanRestart, Tick, Connect, Disconnect,
       NearExpiry
  <2>2. QED BY <1>1, <2>1
<1>11. ASSUME NEW p \in Procs, Enrollment(p) \/ Revocation(p) \/ Sync(p) \/ Fail(p)
       PROVE  Unchanging(t)
  <2>1. CASE \/ ReuseCertificate(p) \/ SignCertificate(p) \/ InstallCertificate(p)
             \/ ReplyCertificate(p) \/ ApplyPeer(p)
    BY <1>1, <2>1 DEF ReuseCertificate, SignCertificate, InstallCertificate,
       ReplyCertificate, ApplyPeer
  <2>2. CASE \/ RemovePeer(p) \/ PeersRemoved(p) \/ RevokeRow(p) \/ RowsRevoked(p)
             \/ PublishCrl(p) \/ GiveUpCrl(p) \/ LoadCreds(p)
             \/ TerminateSession(p) \/ SessionsGone(p)
    BY <1>1, <2>2 DEF RemovePeer, PeersRemoved, RevokeRow, RowsRevoked,
       PublishCrl, GiveUpCrl, LoadCreds, TerminateSession, SessionsGone
  <2>3. CASE SyncRemove(p) \/ SyncApply(p) \/ SyncDone(p) \/ Fail(p)
    BY <1>1, <2>3 DEF SyncRemove, SyncApply, SyncDone, Fail
  <2>4. QED BY <1>3, <1>4, <1>5, <1>6, <1>7, <1>11, <2>1, <2>2, <2>3
            DEF Enrollment, Revocation, Sync
<1>12. QED BY <1>8, <1>9, <1>10, <1>11 DEF Next

(* No write of any process turns a disabled record back on, loses it, or    *)
(* gives its key, address or identity away.                                 *)
THEOREM IssuerDisabledIsFinal == Spec => DisabledIsFinal
<1> DEFINE Final == \A s \in Slots : db.dev[s].disabled =>
                      /\ db'.dev[s].disabled
                      /\ db'.dev[s].key = db.dev[s].key
                      /\ db'.dev[s].id = db.dev[s].id
                      /\ db'.dev[s].address = db.dev[s].address
<1>1. BaseInv /\ PeerInv /\ [Next]_vars => [Final]_vars
  BY FinalStep DEF Unchanging
<1>2. Spec => [][Final]_vars
  BY <1>1, PeerHolds, PTL DEF Spec
<1>3. QED BY <1>2 DEF DisabledIsFinal
-----------------------------------------------------------------------------
(* The steps sorted by what they write, for the layers that follow.         *)

LEMMA Writers ==
  ASSUME [Next]_vars
  PROVE  \/ db' = db
         \/ \E p \in Procs : \/ CreateAccount(p) \/ NameDevice(p)
                             \/ RecordCertificate(p) \/ AdmitPeer(p)
                             \/ ConfirmPeer(p) \/ FlagRecords(p)
                             \/ SettleRecords(p)
<1>1. CASE UNCHANGED vars
  BY <1>1 DEF vars
<1>2. CASE Request
  BY <1>2 DEF Request, BeginIssue, BeginDeleteAccount, BeginRevoke,
     BeginDeviceInfo, BeginRevokeDevice, BeginEnroll, BeginEnrollWireguard,
     BeginSync
<1>3. CASE Environment
  BY <1>3 DEF Environment, Reboot, SwanRestart, Tick, Connect, Disconnect,
     NearExpiry
<1>4. ASSUME NEW p \in Procs, Enrollment(p)
      PROVE  \/ db' = db
             \/ CreateAccount(p) \/ NameDevice(p) \/ RecordCertificate(p)
             \/ AdmitPeer(p) \/ ConfirmPeer(p)
  BY <1>4 DEF Enrollment, ReuseCertificate, SignCertificate,
     InstallCertificate, ReplyCertificate, ApplyPeer
<1>5. ASSUME NEW p \in Procs, Revocation(p)
      PROVE  db' = db \/ FlagRecords(p) \/ SettleRecords(p)
  BY <1>5 DEF Revocation, RemovePeer, PeersRemoved, RevokeRow, RowsRevoked,
     PublishCrl, GiveUpCrl, LoadCreds, TerminateSession, SessionsGone
<1>6. ASSUME NEW p \in Procs, Sync(p) \/ Fail(p) PROVE db' = db
  BY <1>6 DEF Sync, SyncRemove, SyncApply, SyncDone, Fail
<1>7. QED BY <1>1, <1>2, <1>3, <1>4, <1>5, <1>6 DEF Next

\* p goes on to label with the operation it is in; nobody else is in one.
Moved(p, label) ==
  /\ \A q \in Procs \ {p} : job'[q].pc = "idle"
  /\ job'[p].pc = label
  /\ job'[p].slots = job[p].slots /\ job'[p].acct = job[p].acct
  /\ job'[p].id = job[p].id /\ job'[p].key = job[p].key
\* p starts operation j; nobody else is in one and nothing else changes.
Began(p, j) ==
  /\ \A q \in Procs \ {p} : job'[q].pc = "idle"
  /\ job'[p] = j
  /\ UNCHANGED <<db, wire, ca, held, crl, swan>>
AllIdle == \A q \in Procs : job[q].pc = "idle"

LEMMA GotoMoves ==
  ASSUME BaseInv, NEW p \in Procs, job[p].pc # "idle", NEW label, Goto(p, label)
  PROVE  Moved(p, label)
<1>1. job[p] \in Job /\ \A q \in Procs \ {p} : job[q].pc = "idle"
  BY HolderIsAlone DEF BaseInv, TypeOK
<1>2. \A q \in Procs \ {p} : job'[q] = job[q]
  BY DEF Goto, BaseInv, TypeOK
<1>3. job'[p] = [job[p] EXCEPT !.pc = label]
  BY DEF Goto, BaseInv, TypeOK
<1>4. QED BY <1>1, <1>2, <1>3 DEF Moved, Job

LEMMA BeginBegan ==
  ASSUME BaseInv, NEW p \in Procs, NEW j, Begin(p, j),
         UNCHANGED <<db, wire, ca, held, crl, swan>>
  PROVE  Began(p, j)
<1>1. \A q \in Procs : job[q].pc = "idle"
  BY FreeMeansIdle DEF Begin, BaseInv
<1>2. job'[p] = j /\ \A q \in Procs \ {p} : job'[q] = job[q]
  BY DEF Begin, BaseInv, TypeOK
<1>3. QED BY <1>1, <1>2 DEF Began

LEMMA ReleaseIdles ==
  ASSUME BaseInv, NEW p \in Procs, job[p].pc # "idle", Release(p)
  PROVE  AllIdle'
<1>1. \A q \in Procs \ {p} : job'[q] = job[q] /\ job[q].pc = "idle"
  BY HolderIsAlone DEF Release, BaseInv, TypeOK
<1>2. job'[p].pc = "idle"
  BY DEF Release, BaseInv, TypeOK, NoJob
<1>3. QED BY <1>1, <1>2 DEF AllIdle

\* Where each step of an operation leads.
Advance(p) ==
  \/ ReuseCertificate(p) /\ Moved(p, "record")
  \/ SignCertificate(p) /\ Moved(p, "install")
  \/ InstallCertificate(p) /\ Moved(p, "record")
  \/ RecordCertificate(p) /\ Moved(p, "reply")
  \/ AdmitPeer(p) /\ Moved(p, "apply")
  \/ ApplyPeer(p) /\ Moved(p, "confirm")
  \/ FlagRecords(p) /\ Moved(p, "peers")
  \/ RemovePeer(p) /\ Moved(p, "peers")
  \/ PeersRemoved(p) /\ Moved(p, IF Targets(p) = {} THEN "settle" ELSE "certs")
  \/ RowsRevoked(p) /\ Moved(p, "crl")
  \/ PublishCrl(p) /\ Moved(p, "load")
  \/ LoadCreds(p) /\ Moved(p, "sessions")
  \/ SessionsGone(p) /\ Moved(p, "settle")
  \/ SyncApply(p) /\ Moved(p, "sync")

Resting(p) == RevokeRow(p) \/ TerminateSession(p) \/ SyncRemove(p)

LEMMA StepKinds ==
  ASSUME BaseInv, [Next]_vars
  PROVE  \/ Request \/ AllIdle' \/ \E p \in Procs : Advance(p)
         \/ job' = job /\ ((Environment /\ ~Reboot) \/ UNCHANGED vars
                            \/ \E p \in Procs : Resting(p))
<1>1. CASE UNCHANGED vars
  BY <1>1 DEF vars
<1>2. CASE Environment
  <2>1. CASE Reboot
    BY <2>1 DEF Reboot, AllIdle, NoJob
  <2>2. CASE ~Reboot
    BY <1>2, <2>2 DEF Environment, SwanRestart, Tick, Connect, Disconnect,
       NearExpiry
  <2>3. QED BY <2>1, <2>2
<1>3. ASSUME NEW p \in Procs, Enrollment(p) PROVE AllIdle' \/ Advance(p)
  <2>1. CASE CreateAccount(p) \/ NameDevice(p) \/ ReplyCertificate(p)
             \/ ConfirmPeer(p)
    BY <2>1, ReleaseIdles DEF CreateAccount, NameDevice, ReplyCertificate,
       ConfirmPeer, At
  <2>2. CASE \/ ReuseCertificate(p) \/ InstallCertificate(p)
             \/ RecordCertificate(p) \/ AdmitPeer(p) \/ ApplyPeer(p)
    BY <2>2, GotoMoves DEF ReuseCertificate, InstallCertificate,
       RecordCertificate, AdmitPeer, ApplyPeer, At, Advance
  <2>3. CASE SignCertificate(p)
    <3>1. PICK c \in Serials : job' = [job EXCEPT ![p].pc = "install",
                                                  ![p].serial = c]
      BY <2>3 DEF SignCertificate
    <3>2. /\ job[p] \in Job
          /\ job'[p] = [job[p] EXCEPT !.pc = "install", !.serial = c]
          /\ \A q \in Procs \ {p} : job'[q] = job[q]
      BY <3>1 DEF BaseInv, TypeOK
    <3>3. \A q \in Procs \ {p} : job[q].pc = "idle"
      BY <2>3, HolderIsAlone DEF SignCertificate, At, BaseInv
    <3>4. QED BY <2>3, <3>2, <3>3 DEF Advance, Moved, Job
  <2>4. QED BY <1>3, <2>1, <2>2, <2>3 DEF Enrollment
<1>4. ASSUME NEW p \in Procs, Revocation(p)
      PROVE  AllIdle' \/ Advance(p) \/ (job' = job /\ Resting(p))
  <2>1. CASE GiveUpCrl(p) \/ SettleRecords(p)
    BY <2>1, ReleaseIdles DEF GiveUpCrl, SettleRecords, At
  <2>2. CASE \/ FlagRecords(p) \/ PeersRemoved(p) \/ RowsRevoked(p)
             \/ PublishCrl(p) \/ LoadCreds(p) \/ SessionsGone(p)
    BY <2>2, GotoMoves DEF FlagRecords, PeersRemoved, RowsRevoked, PublishCrl,
       LoadCreds, SessionsGone, At, Advance
  <2>3. CASE RemovePeer(p)
    <3>1. PICK s \in job[p].todo : job' = [job EXCEPT ![p].todo = @ \ {s}]
      BY <2>3 DEF RemovePeer
    <3>2. /\ job[p] \in Job /\ job[p].pc = "peers"
          /\ job'[p] = [job[p] EXCEPT !.todo = @ \ {s}]
          /\ \A q \in Procs \ {p} : job'[q] = job[q]
      BY <2>3, <3>1 DEF RemovePeer, At, BaseInv, TypeOK
    <3>3. \A q \in Procs \ {p} : job[q].pc = "idle"
      BY <3>2, HolderIsAlone DEF BaseInv
    <3>4. QED BY <2>3, <3>2, <3>3 DEF Advance, Moved, Job
  <2>4. CASE RevokeRow(p) \/ TerminateSession(p)
    BY <2>4 DEF RevokeRow, TerminateSession, Resting
  <2>5. QED BY <1>4, <2>1, <2>2, <2>3, <2>4 DEF Revocation
<1>5. ASSUME NEW p \in Procs, Sync(p)
      PROVE  AllIdle' \/ Advance(p) \/ (job' = job /\ Resting(p))
  <2>1. CASE SyncDone(p)
    BY <2>1, ReleaseIdles DEF SyncDone, At
  <2>2. CASE SyncApply(p)
    <3>1. PICK s \in job[p].todo : job' = [job EXCEPT ![p].todo = @ \ {s}]
      BY <2>2 DEF SyncApply
    <3>2. /\ job[p] \in Job /\ job[p].pc = "sync"
          /\ job'[p] = [job[p] EXCEPT !.todo = @ \ {s}]
          /\ \A q \in Procs \ {p} : job'[q] = job[q]
      BY <2>2, <3>1 DEF SyncApply, At, BaseInv, TypeOK
    <3>3. \A q \in Procs \ {p} : job[q].pc = "idle"
      BY <3>2, HolderIsAlone DEF BaseInv
    <3>4. QED BY <2>2, <3>2, <3>3 DEF Advance, Moved, Job
  <2>3. CASE SyncRemove(p)
    BY <2>3 DEF SyncRemove, Resting
  <2>4. QED BY <1>5, <2>1, <2>2, <2>3 DEF Sync
<1>6. ASSUME NEW p \in Procs, Fail(p) PROVE AllIdle'
  BY <1>6, ReleaseIdles DEF Fail, At
<1>7. QED BY <1>1, <1>2, <1>3, <1>4, <1>5, <1>6 DEF Next

-----------------------------------------------------------------------------
(* Layer 3: the routes of the interface and the addresses of the records.   *)

LEMMA Routers ==
  ASSUME [Next]_vars
  PROVE  \/ \A x \in Addresses : route'[x] # None => route'[x] = route[x]
         \/ db' = db /\ \E p \in Procs : ApplyPeer(p) \/ SyncApply(p)
<1>1. CASE UNCHANGED vars
  BY <1>1 DEF vars, wire
<1>2. CASE Request
  BY <1>2 DEF Request, BeginIssue, BeginDeleteAccount, BeginRevoke,
     BeginDeviceInfo, BeginRevokeDevice, BeginEnroll, BeginEnrollWireguard,
     BeginSync, wire
<1>3. CASE Environment
  BY <1>3 DEF Environment, Reboot, SwanRestart, Tick, Connect, Disconnect,
     NearExpiry, wire
<1>4. ASSUME NEW p \in Procs, Enrollment(p)
      PROVE  route' = route \/ (db' = db /\ ApplyPeer(p))
  BY <1>4 DEF Enrollment, CreateAccount, NameDevice, ReuseCertificate,
     SignCertificate, InstallCertificate, RecordCertificate, ReplyCertificate,
     AdmitPeer, ApplyPeer, ConfirmPeer, wire
<1>5. ASSUME NEW p \in Procs, Revocation(p)
      PROVE  \A x \in Addresses : route'[x] # None => route'[x] = route[x]
  BY <1>5 DEF Revocation, FlagRecords, RemovePeer, PeersRemoved, RevokeRow,
     RowsRevoked, PublishCrl, GiveUpCrl, LoadCreds, TerminateSession,
     SessionsGone, SettleRecords, DropPeer, wire
<1>6. ASSUME NEW p \in Procs, Sync(p) \/ Fail(p)
      PROVE  \/ \A x \in Addresses : route'[x] # None => route'[x] = route[x]
             \/ db' = db /\ SyncApply(p)
  BY <1>6 DEF Sync, SyncRemove, SyncApply, SyncDone, Fail, DropPeer, wire
<1>7. QED BY <1>1, <1>2, <1>3, <1>4, <1>5, <1>6 DEF Next

\* A write that keeps every peer record, or adds one with a free address.
LEMMA KeptAddresses ==
  ASSUME RouteInv, \A t \in Slots : IsWg(db, t) =>
                     /\ IsWg(db', t) /\ db'.dev[t].key = db.dev[t].key
                     /\ db'.dev[t].address = db.dev[t].address,
         \A t \in Slots : IsWg(db', t) /\ ~IsWg(db, t) =>
           /\ db'.dev[t].address \in FreeAddresses(db)
           /\ \A u \in Slots : IsWg(db', u) /\ ~IsWg(db, u) => u = t,
         \A x \in Addresses : route'[x] # None => route'[x] = route[x]
  PROVE  RouteInv'
<1>1. AddressesAreOwned'
  <2> SUFFICES ASSUME NEW s \in Slots, NEW t \in Slots, IsWg(db', s), IsWg(db', t),
                      db'.dev[s].address = db'.dev[t].address
               PROVE  s = t
    BY DEF AddressesAreOwned, WgSlots
  <2>1. CASE IsWg(db, s) /\ IsWg(db, t)
    BY <2>1 DEF RouteInv, AddressesAreOwned, WgSlots
  <2>2. CASE ~IsWg(db, s) /\ IsWg(db, t)
    BY <2>2 DEF FreeAddresses
  <2>3. CASE IsWg(db, s) /\ ~IsWg(db, t)
    BY <2>3 DEF FreeAddresses
  <2>4. QED BY <2>1, <2>2, <2>3
<1>2. RoutesAreRecorded'
  BY DEF RouteInv, RoutesAreRecorded, WgSlots
<1>3. QED BY <1>1, <1>2 DEF RouteInv

\* wg set for a record: the kernel takes the address from any other peer.
LEMMA SetPeerRoutes ==
  ASSUME RouteInv, db' = db, NEW s \in WgSlots(db),
         SetPeer(db.dev[s].key, db.dev[s].address)
  PROVE  RouteInv'
<1>1. WgSlots(db') = WgSlots(db) /\ AddressesAreOwned'
  BY DEF WgSlots, IsWg, RouteInv, AddressesAreOwned
<1>2. ASSUME NEW x \in Addresses, route'[x] # None
      PROVE  \E t \in WgSlots(db) : db.dev[t].key = route'[x] /\ db.dev[t].address = x
  <2>1. CASE x = db.dev[s].address
    BY <2>1 DEF SetPeer
  <2>2. CASE x # db.dev[s].address
    BY <1>2, <2>2 DEF SetPeer, RouteInv, RoutesAreRecorded
  <2>3. QED BY <2>1, <2>2
<1>3. QED BY <1>1, <1>2 DEF RouteInv, RoutesAreRecorded

LEMMA RouteStep == BaseInv /\ PeerInv /\ RouteInv /\ [Next]_vars => RouteInv'
<1> SUFFICES ASSUME BaseInv, PeerInv, RouteInv, [Next]_vars PROVE RouteInv'
  OBVIOUS
<1>0. PeerFacts /\ JobShape /\ JobPeers /\ TypeOK /\ Locking
  BY DEF PeerInv, BaseInv
<1>1. CASE db' = db /\ \E p \in Procs : ApplyPeer(p) \/ SyncApply(p)
  <2>1. PICK p \in Procs : ApplyPeer(p) \/ SyncApply(p)
    BY <1>1
  <2>2. mem[p] = db
    BY <1>0, <2>1, HolderIsAlone DEF ApplyPeer, SyncApply, At
  <2>3. PICK s \in WgSlots(db) : SetPeer(db.dev[s].key, db.dev[s].address)
    BY <1>0, <2>1, <2>2 DEF ApplyPeer, SyncApply, At, JobShape, Admitting
  <2>4. QED BY <1>1, <2>3, SetPeerRoutes
<1>2. CASE \A x \in Addresses : route'[x] # None => route'[x] = route[x]
  <2>1. ASSUME \A t \in Slots : SameDevice(db'.dev[t], db.dev[t]) PROVE RouteInv'
    BY <1>2, <2>1, KeptAddresses DEF SameDevice, IsWg
  <2>2. ASSUME db'.dev = db.dev PROVE RouteInv'
    BY <2>1, <2>2 DEF SameDevice
  <2>3. ASSUME NEW p \in Procs, CreateAccount(p) PROVE RouteInv'
    BY <2>2, <2>3, CreateEffect
  <2>4. ASSUME NEW p \in Procs,
               NameDevice(p) \/ ConfirmPeer(p) \/ FlagRecords(p) \/ SettleRecords(p)
        PROVE  RouteInv'
    BY <2>1, <2>4, NameEffect, ConfirmEffect, FlagEffect, SettleEffect DEF Kept
  <2>5. ASSUME NEW p \in Procs, RecordCertificate(p) PROVE RouteInv'
    <3>1. PICK s \in job[p].slots : /\ \A t \in Slots : t # s => Kept(t)
                                    /\ db'.dev[s].type = "ikev2"
      BY <2>5, RecordEffect
    <3>2. s \in Slots /\ ~IsWg(db, s) /\ ~IsWg(db', s)
      BY <1>0, <2>5, <3>1 DEF RecordCertificate, TypeOK, Job, JobPeers, At,
         Signing, IsWg
    <3>3. QED BY <1>2, <3>1, <3>2, KeptAddresses DEF Kept, SameDevice, IsWg
  <2>6. ASSUME NEW p \in Procs, AdmitPeer(p) PROVE RouteInv'
    <3>1. PICK s \in job[p].slots :
            /\ \A t \in Slots : t # s => Kept(t)
            /\ IF Known(db, s) THEN Kept(s)
               ELSE /\ db'.dev[s].type = "wireguard"
                    /\ FirstFree(db, db'.dev[s].address)
      BY <2>6, AdmitEffect
    <3>2. CASE Known(db, s)
      BY <2>1, <3>1, <3>2 DEF Kept
    <3>3. CASE ~Known(db, s)
      <4>1. ~IsWg(db, s) /\ db'.dev[s].address \in FreeAddresses(db)
        BY <3>1, <3>3 DEF Known, IsWg, FirstFree
      <4>2. QED BY <1>2, <3>1, <4>1, KeptAddresses DEF Kept, SameDevice, IsWg
    <3>4. QED BY <3>2, <3>3
  <2>7. QED BY <2>2, <2>3, <2>4, <2>5, <2>6, Writers
<1>3. QED BY <1>1, <1>2, Routers

LEMMA RouteHolds == Spec => [](BaseInv /\ PeerInv /\ RouteInv)
<1>1. Init => RouteInv
  BY DEF Init, RouteInv, AddressesAreOwned, RoutesAreRecorded, WgSlots, IsWg,
     EmptyDb, NoRecord
<1>2. BaseInv /\ PeerInv /\ RouteInv /\ [Next]_vars => RouteInv'
  BY RouteStep
<1>3. QED BY <1>1, <1>2, PeerHolds, PTL DEF Spec

(* Traffic of an address goes only to the device that owns it, tombstones   *)
(* included: no other record, retired or not, shares the address or its key *)
(* (allocate_address and wg set under the flock).                           *)
THEOREM IssuerRouteFollowsRecord == Spec => []RouteFollowsRecord
<1>1. RouteInv => RouteFollowsRecord
  BY DEF RouteInv, AddressesAreOwned, RoutesAreRecorded, RouteFollowsRecord,
     WgSlots
<1>2. QED BY <1>1, RouteHolds, PTL
-----------------------------------------------------------------------------
(* What the steps that write do to the numbers and to the accounts.         *)

SameStatus(q, r) == /\ q.exists = r.exists /\ q.enabled = r.enabled
                    /\ q.delete_pending = r.delete_pending
                    /\ q.deleted = r.deleted
StatusKept == \A a \in Accounts : SameStatus(db'.acct[a], db.acct[a])
NumberKept(t) == db'.dev[t].number = db.dev[t].number

\* A write of device s alone that leaves it with a number, the one it had.
Grown(s) ==
  /\ \A t \in Slots \ {s} : db'.dev[t] = db.dev[t]
  /\ SameFlags(db'.dev[s], db.dev[s])
  /\ db'.dev[s].number # 0
  /\ db.dev[s].number # 0 => NumberKept(s)
  /\ StatusKept /\ NumbersStartAtOne'

LEMMA ReserveGrows ==
  ASSUME NEW v \in Database, NEW s \in Slots, db' = Reserve(v, s),
         db \in Database, NumbersStartAtOne, v.acct = db.acct,
         \A t \in Slots \ {s} : v.dev[t] = db.dev[t],
         SameFlags(v.dev[s], db.dev[s]), v.dev[s].number = db.dev[s].number
  PROVE  Grown(s)
<1> DEFINE a == s[1]
           account == [db.acct[a] EXCEPT !.next = @ + 1]
           w == SetAccount(v, a, account)
           r == [v.dev[s] EXCEPT !.number = db.acct[a].next]
<1>1. /\ a \in Accounts /\ db.acct[a] \in Account /\ v.dev[s] \in Record
      /\ db.acct[a].next \in Nat \ {0}
  BY SlotType, DatabaseFields DEF NumbersStartAtOne, Account
<1>2. SameStatus(account, db.acct[a]) /\ account.next # 0
  BY <1>1 DEF Account, SameStatus
<1>3. SameFlags(r, v.dev[s]) /\ r.number = db.acct[a].next
  BY <1>1 DEF Record, SameFlags
<1>4. w \in Database
  BY <1>1, AccountTypes, SetAccountType
<1> HIDE DEF account, r
<1>5. CASE v.dev[s].number # 0
  <2>1. db' = v
    BY <1>5 DEF Reserve
  <2>2. QED BY <1>5, <2>1 DEF Grown, StatusKept, SameStatus, NumbersStartAtOne,
               NumberKept
<1>6. CASE v.dev[s].number = 0
  <2>1. db' = SetRecord(w, s, r)
    BY <1>6 DEF Reserve, account, r
  <2>2. \A b \in Accounts : w.acct[b] = IF b = a THEN account ELSE db.acct[b]
    BY SetAccountKeeps
  <2>3. w.dev = v.dev
    BY SetAccountKeeps
  <2> HIDE DEF w, a
  <2>4. /\ db'.acct = w.acct /\ db'.dev[s] = r
        /\ \A t \in Slots : t # s => db'.dev[t] = v.dev[t]
    BY <1>4, <2>1, <2>3, SetRecordKeeps
  <2>5. StatusKept
    BY <1>2, <2>2, <2>4 DEF StatusKept, SameStatus
  <2>6. NumbersStartAtOne'
    BY <1>2, <2>2, <2>4 DEF NumbersStartAtOne
  <2>7. SameFlags(db'.dev[s], db.dev[s])
    BY <1>3, <2>4 DEF SameFlags
  <2>8. QED BY <1>1, <1>3, <1>6, <2>4, <2>5, <2>6, <2>7 DEF Grown
<1>7. QED BY <1>5, <1>6

LEMMA RecordNumbers ==
  ASSUME NEW r \in Record
  PROVE  /\ Pending(r).number = r.number /\ Confirmed(r).number = r.number
         /\ Flagged(r).number = r.number /\ Settled(r).number = r.number
<1>1. Pending(r).number = r.number /\ Confirmed(r).number = r.number
  BY DEF Record, Pending, Confirmed
<1>2. Flagged(r).number = r.number /\ Settled(r).number = r.number
  BY DEF Record, Flagged, Settled
<1>3. QED BY <1>1, <1>2

LEMMA SignedNumber ==
  ASSUME NEW r \in Record, NEW i, NEW k
  PROVE  Signed(r, i, k).number = r.number
  BY DEF Record, Signed

LEMMA AdmittedNumber ==
  ASSUME NEW r \in Record, NEW k, NEW x
  PROVE  Admitted(r, k, x).number = r.number
  BY DEF Record, Admitted, Pending

LEMMA NameGrows ==
  ASSUME BaseInv, NumbersStartAtOne, NEW p \in Procs, NameDevice(p)
  PROVE  \E s \in job[p].slots : Grown(s)
<1>1. mem[p] = db /\ db \in Database /\ job[p].slots \subseteq Slots
  BY HolderIsAlone DEF NameDevice, At, BaseInv, TypeOK, Job
<1>2. PICK s \in job[p].slots : db' = Reserve(db, s)
  BY <1>1 DEF NameDevice
<1>3. s \in Slots /\ SameFlags(db.dev[s], db.dev[s])
  BY <1>1 DEF SameFlags
<1>4. QED BY <1>1, <1>2, <1>3, ReserveGrows

LEMMA RecordGrows ==
  ASSUME BaseInv, NumbersStartAtOne, NEW p \in Procs, RecordCertificate(p)
  PROVE  \E s \in job[p].slots : Grown(s)
<1>1. /\ mem[p] = db /\ db \in Database /\ job[p].slots \subseteq Slots
      /\ job[p].id \in Identities \cup {None} /\ job[p].key \in Keys \cup {None}
  BY HolderIsAlone DEF RecordCertificate, At, BaseInv, TypeOK, Job
<1>2. PICK s \in job[p].slots :
        db' = Reserve(SetRecord(db, s, Signed(db.dev[s], job[p].id, job[p].key)), s)
  BY <1>1 DEF RecordCertificate, Write
<1> DEFINE r == Signed(db.dev[s], job[p].id, job[p].key)
           v == SetRecord(db, s, r)
<1>3. s \in Slots /\ db.dev[s] \in Record
  BY <1>1, <1>2, DatabaseFields
<1>4. r \in Record /\ SameFlags(r, db.dev[s]) /\ r.number = db.dev[s].number
  <2>1. r \in Record
    BY <1>1, <1>3, RecordTypes
  <2>2. r.number = db.dev[s].number
    BY <1>3, SignedNumber
  <2>3. SameFlags(r, db.dev[s])
    BY <1>3, SignedKeeps
  <2>4. QED BY <2>1, <2>2, <2>3
<1> HIDE DEF r
<1>5. /\ v \in Database /\ v.acct = db.acct /\ v.dev[s] = r
      /\ \A t \in Slots : t # s => v.dev[t] = db.dev[t]
  BY <1>1, <1>3, <1>4, SetRecordType, SetRecordKeeps
<1>6. db' = Reserve(v, s)
  BY <1>2 DEF r
<1> HIDE DEF v
<1>7. QED BY <1>1, <1>3, <1>4, <1>5, <1>6, ReserveGrows

LEMMA AdmitGrows ==
  ASSUME BaseInv, NumbersStartAtOne, NEW p \in Procs, AdmitPeer(p)
  PROVE  \E s \in job[p].slots : Grown(s)
<1>1. /\ mem[p] = db /\ db \in Database /\ job[p].slots \subseteq Slots
      /\ job[p].key \in Keys \cup {None}
  BY HolderIsAlone DEF AdmitPeer, At, BaseInv, TypeOK, Job
<1>2. PICK s \in job[p].slots : \E r \in Admissions(db, s, job[p].key) :
               db' = Reserve(SetRecord(db, s, r), s)
  BY <1>1 DEF AdmitPeer, Write
<1>3. PICK r \in Admissions(db, s, job[p].key) :
               db' = Reserve(SetRecord(db, s, r), s)
  BY <1>2
<1>4. s \in Slots /\ db.dev[s] \in Record
  BY <1>1, <1>2, DatabaseFields
<1>5. r \in Record /\ SameFlags(r, db.dev[s]) /\ r.number = db.dev[s].number
  <2>1. CASE Known(db, s)
    BY <1>3, <1>4, <2>1, RecordTypes, RecordNumbers, PendingKeeps DEF Admissions
  <2>2. CASE ~Known(db, s)
    <3>1. PICK x \in Addresses : r = Admitted(db.dev[s], job[p].key, x)
      BY <1>3, <2>2 DEF Admissions
    <3>2. r \in Record
      BY <1>1, <1>4, <3>1, RecordTypes
    <3>3. r.number = db.dev[s].number
      BY <1>4, <3>1, AdmittedNumber
    <3>4. SameFlags(r, db.dev[s])
      BY <1>4, <3>1, AdmittedKeeps
    <3>5. QED BY <3>2, <3>3, <3>4
  <2>3. QED BY <2>1, <2>2
<1> DEFINE v == SetRecord(db, s, r)
<1>6. /\ v \in Database /\ v.acct = db.acct /\ v.dev[s] = r
      /\ \A t \in Slots : t # s => v.dev[t] = db.dev[t]
  BY <1>1, <1>4, <1>5, SetRecordType, SetRecordKeeps
<1>7. db' = Reserve(v, s)
  BY <1>3
<1> HIDE DEF v
<1>8. QED BY <1>1, <1>4, <1>5, <1>6, <1>7, ReserveGrows

LEMMA CreateAccounts ==
  ASSUME BaseInv, NEW p \in Procs, CreateAccount(p)
  PROVE  \A a \in Accounts :
           /\ a = job[p].acct => /\ db'.acct[a].exists /\ db'.acct[a].next # 0
                                 /\ ~db'.acct[a].deleted /\ ~db'.acct[a].delete_pending
           /\ a # job[p].acct => db'.acct[a] = db.acct[a]
<1>1. mem[p] = db /\ db \in Database
  BY HolderIsAlone DEF CreateAccount, At, BaseInv, TypeOK
<1>2. \A a \in Accounts : db'.acct[a] = IF a = job[p].acct THEN Opened(NoAccount)
                                        ELSE db.acct[a]
  BY <1>1, SetAccountKeeps DEF CreateAccount
<1>3. /\ Opened(NoAccount).exists /\ Opened(NoAccount).next # 0
      /\ ~Opened(NoAccount).deleted /\ ~Opened(NoAccount).delete_pending
  BY DEF Opened, NoAccount
<1>4. QED BY <1>2, <1>3

LEMMA ConfirmNumbers ==
  ASSUME BaseInv, NEW p \in Procs, ConfirmPeer(p)
  PROVE  db'.acct = db.acct /\ \A t \in Slots : NumberKept(t)
<1>1. mem[p] = db /\ db \in Database /\ job[p].slots \subseteq Slots
  BY HolderIsAlone DEF ConfirmPeer, At, BaseInv, TypeOK, Job
<1>2. PICK s \in Slots : db' = SetRecord(db, s, Confirmed(db.dev[s]))
  BY <1>1 DEF ConfirmPeer
<1>3. db.dev[s] \in Record
  BY <1>1, DatabaseFields
<1>4. NumberKept(s)
  BY <1>1, <1>2, <1>3, SetRecordKeeps, RecordNumbers DEF NumberKept
<1>5. QED BY <1>1, <1>2, <1>4, SetRecordKeeps DEF NumberKept

LEMMA AccountFlags ==
  ASSUME NEW r \in Account
  PROVE  /\ ~Closing(r).enabled /\ Closing(r).delete_pending
         /\ Closing(r).exists = r.exists /\ Closing(r).deleted = r.deleted
         /\ Closing(r).next = r.next
         /\ Deleted(r).enabled = r.enabled /\ ~Deleted(r).delete_pending
         /\ Deleted(r).exists = r.exists /\ Deleted(r).deleted
         /\ Deleted(r).next = r.next
<1>1. /\ ~Closing(r).enabled /\ Closing(r).delete_pending
      /\ Closing(r).exists = r.exists /\ Closing(r).deleted = r.deleted
      /\ Closing(r).next = r.next
  BY DEF Account, Closing
<1>2. /\ Deleted(r).enabled = r.enabled /\ ~Deleted(r).delete_pending
      /\ Deleted(r).exists = r.exists /\ Deleted(r).deleted
      /\ Deleted(r).next = r.next
  BY DEF Account, Deleted
<1>3. QED BY <1>1, <1>2

LEMMA FlagAccounts ==
  ASSUME BaseInv, NEW p \in Procs, FlagRecords(p)
  PROVE  /\ \A t \in Slots : NumberKept(t)
         /\ \A a \in Accounts :
              db'.acct[a] = IF a = job[p].acct THEN Closing(db.acct[a]) ELSE db.acct[a]
<1>1. mem[p] = db /\ db \in Database /\ job[p] \in Job
  BY HolderIsAlone DEF FlagRecords, At, BaseInv, TypeOK
<1>2. \A t \in Slots : db'.dev[t] = IF t \in job[p].slots THEN Flagged(db.dev[t])
                                   ELSE db.dev[t]
  BY <1>1, UpdateKeeps DEF FlagRecords, Write
<1>3. \A t \in Slots : db.dev[t] \in Record
  BY <1>1, DatabaseFields
<1>4. \A t \in Slots : NumberKept(t)
  BY <1>2, <1>3, RecordNumbers DEF NumberKept
<1>5. QED BY <1>1, <1>4 DEF FlagRecords, Write, FlagAll

LEMMA SettledFlags ==
  ASSUME NEW r \in Record
  PROVE  Settled(r).revoked /\ ~Settled(r).revoke_pending
  BY DEF Record, Settled

LEMMA SettleAccounts ==
  ASSUME BaseInv, NEW p \in Procs, SettleRecords(p)
  PROVE  /\ \A t \in Slots : NumberKept(t)
         /\ \A t \in job[p].slots : db.dev[t].disabled => Retired(db', t)
         /\ \A a \in Accounts :
              db'.acct[a] = IF a = job[p].acct THEN Deleted(db.acct[a]) ELSE db.acct[a]
<1>1. mem[p] = db /\ db \in Database /\ job[p] \in Job
  BY HolderIsAlone DEF SettleRecords, At, BaseInv, TypeOK
<1>2. \A t \in Slots : db'.dev[t] = IF t \in job[p].slots THEN Settled(db.dev[t])
                                   ELSE db.dev[t]
  BY <1>1, UpdateKeeps DEF SettleRecords
<1>3. \A t \in Slots : db.dev[t] \in Record
  BY <1>1, DatabaseFields
<1>4. \A t \in Slots : NumberKept(t)
  BY <1>2, <1>3, RecordNumbers DEF NumberKept
<1>5. ASSUME NEW t \in job[p].slots, db.dev[t].disabled PROVE Retired(db', t)
  <2>1. t \in Slots
    BY <1>1 DEF Job
  <2>2. db'.dev[t] = Settled(db.dev[t]) /\ db.dev[t] \in Record
    BY <1>2, <1>3, <2>1
  <2>3. db'.dev[t].disabled
    BY <1>5, <2>1, SettleEffect
  <2>4. QED BY <2>2, <2>3, SettledFlags DEF Retired
<1>6. QED BY <1>1, <1>4, <1>5 DEF SettleRecords, SettleAll
-----------------------------------------------------------------------------
(* Layer 4: accounts, numbers and the device limit.                         *)

Active(v, t) == (Known(v, t) \/ v.dev[t].number # 0) /\ ~Retired(v, t)

LEMMA ActiveIsFinite ==
  ASSUME NEW v, NEW a
  PROVE  /\ ActiveDevices(v, a) = {d \in Devices : Active(v, <<a, d>>)}
         /\ IsFiniteSet(ActiveDevices(v, a))
         /\ Cardinality(ActiveDevices(v, a)) \in Nat
<1>1. ActiveDevices(v, a) = {d \in Devices : Active(v, <<a, d>>)}
  BY DEF ActiveDevices, Active
<1>2. ActiveDevices(v, a) \in SUBSET Devices
  BY <1>1
<1>3. QED BY <1>1, <1>2, ConstantsAssumption, FS_Subset, FS_CardinalityType

LEMMA FewerActive ==
  ASSUME NEW a \in Accounts, Cardinality(ActiveDevices(db, a)) <= DeviceLimit,
         \A d \in Devices : Active(db', <<a, d>>) => Active(db, <<a, d>>)
  PROVE  Cardinality(ActiveDevices(db', a)) <= DeviceLimit
<1> DEFINE S == ActiveDevices(db, a)
           T == ActiveDevices(db', a)
<1>1. /\ T \in SUBSET S /\ IsFiniteSet(S)
      /\ Cardinality(S) \in Nat /\ Cardinality(T) \in Nat
  BY ActiveIsFinite
<1>2. Cardinality(S) <= DeviceLimit
  OBVIOUS
<1> HIDE DEF S, T
<1>3. Cardinality(T) <= Cardinality(S)
  BY <1>1, FS_Subset
<1>4. Cardinality(T) <= DeviceLimit
  BY <1>1, <1>2, <1>3, ConstantsAssumption
<1>5. QED BY <1>4 DEF T

LEMMA OneMoreActive ==
  ASSUME NEW a \in Accounts, Cardinality(ActiveDevices(db, a)) < DeviceLimit,
         NEW e,
         \A d \in Devices : Active(db', <<a, d>>) => Active(db, <<a, d>>) \/ d = e
  PROVE  Cardinality(ActiveDevices(db', a)) <= DeviceLimit
<1> DEFINE S == ActiveDevices(db, a)
           T == ActiveDevices(db', a)
<1>1. /\ T \in SUBSET (S \cup {e}) /\ IsFiniteSet(S)
      /\ Cardinality(S) \in Nat /\ Cardinality(T) \in Nat
  BY ActiveIsFinite
<1>2. Cardinality(S) < DeviceLimit
  OBVIOUS
<1> HIDE DEF S, T
<1>3. /\ IsFiniteSet(S \cup {e})
      /\ Cardinality(S \cup {e}) = Cardinality(S) \/ Cardinality(S \cup {e}) = Cardinality(S) + 1
  BY <1>1, FS_AddElement
<1>4. Cardinality(T) <= Cardinality(S \cup {e})
  BY <1>1, <1>3, FS_Subset
<1>5. Cardinality(T) <= DeviceLimit
  BY <1>1, <1>2, <1>3, <1>4, ConstantsAssumption
<1>6. QED BY <1>5 DEF T

LEMMA SlotPair == /\ \A s \in Slots : s = <<s[1], s[2]>> /\ s[2] \in Devices
                  /\ \A a \in Accounts, d \in Devices : <<a, d>> \in Slots
  BY DEF Slots

\* A device that gets its number while its account is live and has room.
LEMMA GrownFacts ==
  ASSUME AccountFacts, NEW s \in Slots, Grown(s), Live(db, s[1]), HasRoom(db, s),
         ~db.dev[s].disabled
  PROVE  AccountFacts'
<1>0. /\ EnrolledAreNumbered /\ NumbersHaveAccounts /\ DeletionCoversAccount
      /\ DeviceLimitHolds
  BY DEF AccountFacts
<1>1. \A t \in Slots : t # s => db'.dev[t] = db.dev[t]
  BY DEF Grown
<1>2. \A a \in Accounts : SameStatus(db'.acct[a], db.acct[a])
  BY DEF Grown, StatusKept
<1>3. s[1] \in Accounts /\ db'.dev[s].number # 0 /\ SameFlags(db'.dev[s], db.dev[s])
  BY SlotType DEF Grown
<1>4. EnrolledAreNumbered'
  BY <1>0, <1>1, <1>3 DEF EnrolledAreNumbered, Known
<1>5. NumbersStartAtOne'
  BY DEF Grown
<1>6. NumbersHaveAccounts'
  BY <1>0, <1>1, <1>2, <1>3, SlotType DEF NumbersHaveAccounts, SameStatus, Live
<1>7. DeletionCoversAccount'
  <2> SUFFICES ASSUME NEW a \in Accounts
               PROVE  /\ db'.acct[a].delete_pending \/ db'.acct[a].deleted =>
                           ~db'.acct[a].enabled
                      /\ \A d \in Devices : Known(db', <<a, d>>) =>
                           /\ db'.acct[a].delete_pending => db'.dev[<<a, d>>].disabled
                           /\ db'.acct[a].deleted => Retired(db', <<a, d>>)
    BY DEF DeletionCoversAccount
  <2>1. SameStatus(db'.acct[a], db.acct[a])
    BY <1>2
  <2>2. CASE a = s[1]
    BY <2>1, <2>2 DEF SameStatus, Live
  <2>3. CASE a # s[1]
    <3>1. \A d \in Devices : db'.dev[<<a, d>>] = db.dev[<<a, d>>]
      BY <1>1, <2>3, SlotPair
    <3>2. QED BY <1>0, <2>1, <3>1 DEF DeletionCoversAccount, SameStatus, Known, Retired
  <2>4. QED BY <2>2, <2>3
<1>8. ASSUME NEW a \in Accounts, Live(db', a)
      PROVE  Cardinality(ActiveDevices(db', a)) <= DeviceLimit
  <2>1. Cardinality(ActiveDevices(db, a)) <= DeviceLimit
    BY <1>0, <1>2, <1>8 DEF DeviceLimitHolds, Live, SameStatus
  <2>2. \A t \in Slots : t # s => (Active(db', t) <=> Active(db, t))
    BY <1>1 DEF Active, Known, Retired
  <2>3. CASE a # s[1] \/ db.dev[s].number # 0
    <3>1. Active(db', s) /\ db.dev[s].number # 0 => Active(db, s)
      BY <1>3 DEF Active, Retired, SameFlags
    <3>2. \A d \in Devices : Active(db', <<a, d>>) => Active(db, <<a, d>>)
      BY <2>2, <2>3, <3>1, SlotPair
    <3>3. QED BY <2>1, <3>2, FewerActive
  <2>4. CASE a = s[1] /\ db.dev[s].number = 0
    <3>1. Cardinality(ActiveDevices(db, a)) < DeviceLimit
      BY <2>4 DEF HasRoom
    <3>2. \A d \in Devices : Active(db', <<a, d>>) => Active(db, <<a, d>>) \/ d = s[2]
      BY <2>2, SlotPair
    <3>3. QED BY <3>1, <3>2, OneMoreActive
  <2>5. QED BY <2>3, <2>4
<1>9. DeviceLimitHolds'
  BY <1>8 DEF DeviceLimitHolds
<1>10. QED BY <1>4, <1>5, <1>6, <1>7, <1>9 DEF AccountFacts

\* A write that leaves the numbers, and the accounts, as they are.
LEMMA KeptFacts ==
  ASSUME AccountFacts, db'.acct = db.acct, \A t \in Slots : Kept(t) /\ NumberKept(t)
  PROVE  AccountFacts'
<1>0. /\ EnrolledAreNumbered /\ NumbersHaveAccounts /\ DeletionCoversAccount
      /\ DeviceLimitHolds /\ NumbersStartAtOne
  BY DEF AccountFacts
<1>1. \A t \in Slots : /\ Known(db', t) <=> Known(db, t)
                       /\ Retired(db', t) <=> Retired(db, t)
                       /\ Active(db', t) <=> Active(db, t)
                       /\ db'.dev[t].disabled = db.dev[t].disabled
                       /\ db'.dev[t].number = db.dev[t].number
  BY DEF Kept, NumberKept, SameDevice, SameFlags, Known, Retired, Active
<1>2. EnrolledAreNumbered' /\ NumbersHaveAccounts' /\ NumbersStartAtOne'
  BY <1>0, <1>1 DEF EnrolledAreNumbered, NumbersHaveAccounts, NumbersStartAtOne
<1>3. DeletionCoversAccount'
  BY <1>0, <1>1, SlotPair DEF DeletionCoversAccount
<1>4. ASSUME NEW a \in Accounts, Live(db', a)
      PROVE  Cardinality(ActiveDevices(db', a)) <= DeviceLimit
  BY <1>0, <1>1, <1>4, SlotPair, FewerActive DEF DeviceLimitHolds, Live
<1>5. DeviceLimitHolds'
  BY <1>4 DEF DeviceLimitHolds
<1>6. QED BY <1>2, <1>3, <1>5 DEF AccountFacts

\* A new account has no device yet.
LEMMA CreateFacts ==
  ASSUME BaseInv, AccountInv, NEW p \in Procs, CreateAccount(p)
  PROVE  AccountFacts'
<1>0. /\ EnrolledAreNumbered /\ NumbersHaveAccounts /\ DeletionCoversAccount
      /\ DeviceLimitHolds /\ NumbersStartAtOne
      /\ job[p].acct \in Accounts /\ ~db.acct[job[p].acct].exists
  BY DEF AccountInv, AccountFacts, JobAccounts, CreateAccount, At
<1>1. db'.dev = db.dev
  BY CreateEffect
<1>2. \A a \in Accounts :
           /\ a = job[p].acct => /\ db'.acct[a].exists /\ db'.acct[a].next # 0
                                 /\ ~db'.acct[a].deleted /\ ~db'.acct[a].delete_pending
           /\ a # job[p].acct => db'.acct[a] = db.acct[a]
  BY CreateAccounts
<1>3. EnrolledAreNumbered' /\ NumbersHaveAccounts' /\ NumbersStartAtOne'
  BY <1>0, <1>1, <1>2, SlotType DEF EnrolledAreNumbered, NumbersHaveAccounts,
     NumbersStartAtOne, Known
<1>4. DeletionCoversAccount'
  BY <1>0, <1>1, <1>2 DEF DeletionCoversAccount, Known, Retired
<1>5. ASSUME NEW a \in Accounts, Live(db', a)
      PROVE  Cardinality(ActiveDevices(db', a)) <= DeviceLimit
  <2>1. \A d \in Devices : Active(db', <<a, d>>) <=> Active(db, <<a, d>>)
    BY <1>1 DEF Active, Known, Retired
  <2>2. CASE a = job[p].acct
    <3>1. \A d \in Devices : ~Active(db, <<a, d>>)
      BY <1>0, <2>2, SlotPair DEF NumbersHaveAccounts, EnrolledAreNumbered, Active
    <3>2. ActiveDevices(db, a) = {}
      BY <3>1, ActiveIsFinite
    <3>3. Cardinality(ActiveDevices(db, a)) <= DeviceLimit
      BY <3>2, FS_EmptySet, ConstantsAssumption
    <3>4. QED BY <2>1, <3>3, FewerActive
  <2>3. CASE a # job[p].acct
    <3>1. Cardinality(ActiveDevices(db, a)) <= DeviceLimit
      BY <1>0, <1>2, <1>5, <2>3 DEF DeviceLimitHolds, Live
    <3>2. QED BY <2>1, <3>1, FewerActive
  <2>4. QED BY <2>2, <2>3
<1>6. DeviceLimitHolds'
  BY <1>5 DEF DeviceLimitHolds
<1>7. QED BY <1>3, <1>4, <1>6 DEF AccountFacts

\* The devices and accounts of a revocation, before and after its two writes.
LEMMA RevokeFacts ==
  ASSUME BaseInv, AccountInv, NEW p \in Procs, job[p].pc \in Revoking \cup {"flag"}
  PROVE  /\ job[p].slots \subseteq Slots
         /\ \A a \in Accounts, d \in Devices : <<a, d>> \in job[p].slots =>
              job[p].acct = None \/ job[p].acct = a
         /\ job[p].acct \in Accounts => ~db.acct[job[p].acct].deleted
         /\ \A d \in Devices : job[p].acct \in Accounts /\ Known(db, <<job[p].acct, d>>) =>
              <<job[p].acct, d>> \in job[p].slots
<1>1. job[p].slots \subseteq Slots /\ job[p].acct \in Accounts \cup {None}
  BY DEF BaseInv, TypeOK, Job
<1>2. ASSUME job[p].acct # None
      PROVE  ~db.acct[job[p].acct].deleted /\ job[p].slots = KnownSlotsOf(job[p].acct)
  BY <1>2 DEF AccountInv, JobAccounts
<1>3. QED BY <1>1, <1>2, SlotPair, ConstantsAssumption DEF KnownSlotsOf

LEMMA FlagFacts ==
  ASSUME BaseInv, PeerInv, AccountInv, NEW p \in Procs, FlagRecords(p)
  PROVE  AccountFacts'
<1>0. /\ EnrolledAreNumbered /\ NumbersHaveAccounts /\ DeletionCoversAccount
      /\ DeviceLimitHolds /\ NumbersStartAtOne /\ db \in Database
  BY DEF AccountInv, AccountFacts, BaseInv, TypeOK
<1> DEFINE S == job[p].slots
           c == job[p].acct
<1>1. /\ S \subseteq Slots /\ \A s \in S : Known(db, s)
      /\ c = None => \A s \in S : ~Retired(db, s) /\ ~db.acct[s[1]].deleted
      /\ \A a \in Accounts, d \in Devices : <<a, d>> \in S => c = None \/ c = a
      /\ c \in Accounts => ~db.acct[c].deleted
      /\ \A d \in Devices : c \in Accounts /\ Known(db, <<c, d>>) => <<c, d>> \in S
  BY RevokeFacts DEF PeerInv, JobPeers, FlagRecords, At, AccountInv, JobAccounts
<1>2. \A t \in Slots :
        /\ SameDevice(db'.dev[t], db.dev[t])
        /\ t \in S => db'.dev[t].disabled /\ db'.dev[t].revoke_pending
        /\ t \notin S => Kept(t)
  BY FlagEffect
<1>3. /\ \A t \in Slots : db'.dev[t].number = db.dev[t].number
      /\ \A a \in Accounts :
           db'.acct[a] = IF a = c THEN Closing(db.acct[a]) ELSE db.acct[a]
  BY FlagAccounts DEF NumberKept
<1>4. \A a \in Accounts :
        /\ db'.acct[a].exists = db.acct[a].exists /\ db'.acct[a].next = db.acct[a].next
        /\ db'.acct[a].deleted = db.acct[a].deleted
        /\ a = c => ~db'.acct[a].enabled
        /\ a # c => db'.acct[a] = db.acct[a]
  BY <1>0, <1>3, DatabaseFields, AccountFlags
<1>5. \A t \in Slots : /\ Known(db', t) <=> Known(db, t)
                       /\ t \notin S => /\ Retired(db', t) <=> Retired(db, t)
                                        /\ db'.dev[t].disabled = db.dev[t].disabled
  BY <1>2 DEF SameDevice, Known, Kept, SameFlags, Retired
<1> HIDE DEF S, c
<1>6. EnrolledAreNumbered' /\ NumbersHaveAccounts' /\ NumbersStartAtOne'
  BY <1>0, <1>3, <1>4, <1>5, SlotType DEF EnrolledAreNumbered,
     NumbersHaveAccounts, NumbersStartAtOne
<1>7. DeletionCoversAccount'
  <2> SUFFICES ASSUME NEW a \in Accounts
               PROVE  /\ db'.acct[a].delete_pending \/ db'.acct[a].deleted =>
                           ~db'.acct[a].enabled
                      /\ \A d \in Devices : Known(db', <<a, d>>) =>
                           /\ db'.acct[a].delete_pending => db'.dev[<<a, d>>].disabled
                           /\ db'.acct[a].deleted => Retired(db', <<a, d>>)
    BY DEF DeletionCoversAccount
  <2>1. CASE a = c
    BY <1>1, <1>2, <1>4, <1>5, <2>1, SlotPair
  <2>2. CASE a # c
    <3>1. db'.acct[a] = db.acct[a]
      BY <1>4, <2>2
    <3>2. ASSUME NEW d \in Devices, Known(db', <<a, d>>)
          PROVE  /\ db'.acct[a].delete_pending => db'.dev[<<a, d>>].disabled
                 /\ db'.acct[a].deleted => Retired(db', <<a, d>>)
      <4>1. CASE <<a, d>> \in S
        <5>1. ~db.acct[a].deleted
          BY <1>1, <2>2, <4>1
        <5>2. QED BY <1>2, <3>1, <4>1, <5>1, SlotPair
      <4>2. CASE <<a, d>> \notin S
        BY <1>0, <1>5, <3>1, <3>2, <4>2, SlotPair DEF DeletionCoversAccount
      <4>3. QED BY <4>1, <4>2
    <3>3. QED BY <1>0, <3>1, <3>2 DEF DeletionCoversAccount
  <2>3. QED BY <2>1, <2>2
<1>8. ASSUME NEW a \in Accounts, Live(db', a)
      PROVE  Cardinality(ActiveDevices(db', a)) <= DeviceLimit
  <2>1. a # c /\ db'.acct[a] = db.acct[a]
    BY <1>4, <1>8 DEF Live
  <2>2. Cardinality(ActiveDevices(db, a)) <= DeviceLimit
    BY <1>0, <1>8, <2>1 DEF DeviceLimitHolds, Live
  <2>3. ASSUME NEW d \in Devices, Active(db', <<a, d>>) PROVE Active(db, <<a, d>>)
    <3>1. CASE <<a, d>> \in S
      BY <1>1, <2>1, <3>1 DEF Active
    <3>2. CASE <<a, d>> \notin S
      BY <1>3, <1>5, <2>3, <3>2, SlotPair DEF Active
    <3>3. QED BY <3>1, <3>2
  <2>4. QED BY <2>2, <2>3, FewerActive
<1>9. DeviceLimitHolds'
  BY <1>8 DEF DeviceLimitHolds
<1>10. QED BY <1>6, <1>7, <1>9 DEF AccountFacts

LEMMA SettleFacts ==
  ASSUME BaseInv, PeerInv, AccountInv, NEW p \in Procs, SettleRecords(p)
  PROVE  AccountFacts'
<1>0. /\ EnrolledAreNumbered /\ NumbersHaveAccounts /\ DeletionCoversAccount
      /\ DeviceLimitHolds /\ NumbersStartAtOne /\ db \in Database
  BY DEF AccountInv, AccountFacts, BaseInv, TypeOK
<1> DEFINE S == job[p].slots
           c == job[p].acct
<1>1. /\ S \subseteq Slots /\ \A s \in S : db.dev[s].disabled
      /\ c \in Accounts => ~db.acct[c].enabled
      /\ \A d \in Devices : c \in Accounts /\ Known(db, <<c, d>>) => <<c, d>> \in S
  BY RevokeFacts, ConstantsAssumption DEF PeerInv, JobPeers, SettleRecords, At,
     Revoking, AccountInv, JobAccounts
<1>2. \A t \in Slots :
        /\ SameDevice(db'.dev[t], db.dev[t])
        /\ db'.dev[t].disabled = db.dev[t].disabled
        /\ t \notin S => Kept(t)
  BY SettleEffect
<1>3. /\ \A t \in Slots : db'.dev[t].number = db.dev[t].number
      /\ \A t \in S : db.dev[t].disabled => Retired(db', t)
      /\ \A a \in Accounts :
           db'.acct[a] = IF a = c THEN Deleted(db.acct[a]) ELSE db.acct[a]
  BY SettleAccounts DEF NumberKept
<1>4. \A a \in Accounts :
        /\ db'.acct[a].exists = db.acct[a].exists /\ db'.acct[a].next = db.acct[a].next
        /\ db'.acct[a].enabled = db.acct[a].enabled
        /\ a = c => db'.acct[a].deleted /\ ~db'.acct[a].delete_pending
        /\ a # c => db'.acct[a] = db.acct[a]
  BY <1>0, <1>3, DatabaseFields, AccountFlags
<1>5. \A t \in Slots : /\ Known(db', t) <=> Known(db, t)
                       /\ t \notin S => (Retired(db', t) <=> Retired(db, t))
                       /\ t \in S => Retired(db', t)
  BY <1>1, <1>2, <1>3 DEF SameDevice, Known, Kept, SameFlags, Retired
<1> HIDE DEF S, c
<1>6. EnrolledAreNumbered' /\ NumbersHaveAccounts' /\ NumbersStartAtOne'
  BY <1>0, <1>3, <1>4, <1>5, SlotType DEF EnrolledAreNumbered,
     NumbersHaveAccounts, NumbersStartAtOne
<1>7. DeletionCoversAccount'
  <2> SUFFICES ASSUME NEW a \in Accounts
               PROVE  /\ db'.acct[a].delete_pending \/ db'.acct[a].deleted =>
                           ~db'.acct[a].enabled
                      /\ \A d \in Devices : Known(db', <<a, d>>) =>
                           /\ db'.acct[a].delete_pending => db'.dev[<<a, d>>].disabled
                           /\ db'.acct[a].deleted => Retired(db', <<a, d>>)
    BY DEF DeletionCoversAccount
  <2>1. CASE a = c
    BY <1>1, <1>4, <1>5, <2>1, SlotPair
  <2>2. CASE a # c
    BY <1>0, <1>2, <1>4, <1>5, <2>2, SlotPair DEF DeletionCoversAccount
  <2>3. QED BY <2>1, <2>2
<1>8. ASSUME NEW a \in Accounts, Live(db', a)
      PROVE  Cardinality(ActiveDevices(db', a)) <= DeviceLimit
  <2>1. a # c /\ db'.acct[a] = db.acct[a]
    BY <1>4, <1>8 DEF Live
  <2>2. Cardinality(ActiveDevices(db, a)) <= DeviceLimit
    BY <1>0, <1>8, <2>1 DEF DeviceLimitHolds, Live
  <2>3. \A d \in Devices : Active(db', <<a, d>>) => Active(db, <<a, d>>)
    BY <1>3, <1>5, SlotPair DEF Active
  <2>4. QED BY <2>2, <2>3, FewerActive
<1>9. DeviceLimitHolds'
  BY <1>8 DEF DeviceLimitHolds
<1>10. QED BY <1>6, <1>7, <1>9 DEF AccountFacts

LEMMA AccountFactsStep == BaseInv /\ PeerInv /\ AccountInv /\ [Next]_vars => AccountFacts'
<1> SUFFICES ASSUME BaseInv, PeerInv, AccountInv, [Next]_vars PROVE AccountFacts'
  OBVIOUS
<1>0. AccountFacts /\ NumbersStartAtOne /\ JobAccounts /\ JobShape /\ TypeOK
  BY DEF AccountInv, AccountFacts, BaseInv
<1>1. CASE db' = db
  <2>1. \A t \in Slots : Kept(t) /\ NumberKept(t)
    BY <1>1, SameFileKept DEF NumberKept
  <2>2. QED BY <1>0, <1>1, <2>1, KeptFacts
<1>2. ASSUME NEW p \in Procs, CreateAccount(p) PROVE AccountFacts'
  BY <1>2, CreateFacts
<1>3. ASSUME NEW p \in Procs, job[p].pc \in Signing \cup {"name", "admit"},
             NEW s \in job[p].slots, Grown(s)
      PROVE  AccountFacts'
  <2>1. s \in Slots
    BY <1>0, <1>3 DEF TypeOK, Job
  <2>2. Live(db, s[1]) /\ HasRoom(db, s) /\ ~db.dev[s].disabled
    BY <1>0, <1>3 DEF JobAccounts
  <2>3. QED BY <1>0, <1>3, <2>1, <2>2, GrownFacts
<1>4. ASSUME NEW p \in Procs, NameDevice(p) \/ RecordCertificate(p) \/ AdmitPeer(p)
      PROVE  AccountFacts'
  <2>1. job[p].pc \in Signing \cup {"name", "admit"}
    BY <1>4 DEF NameDevice, RecordCertificate, AdmitPeer, At, Signing
  <2>2. \E s \in job[p].slots : Grown(s)
    BY <1>0, <1>4, NameGrows, RecordGrows, AdmitGrows
  <2>3. QED BY <1>3, <2>1, <2>2
<1>5. ASSUME NEW p \in Procs, ConfirmPeer(p) PROVE AccountFacts'
  BY <1>0, <1>5, ConfirmEffect, ConfirmNumbers, KeptFacts
<1>6. ASSUME NEW p \in Procs, FlagRecords(p) \/ SettleRecords(p) PROVE AccountFacts'
  BY <1>6, FlagFacts, SettleFacts
<1>7. QED BY <1>1, <1>2, <1>4, <1>5, <1>6, Writers

\* JobAccounts of one process.
JobAccountsOf(p) ==
  LET j == job[p] IN
    /\ j.pc = "create" => j.acct \in Accounts /\ ~db.acct[j.acct].exists
    /\ j.pc \in Signing \cup {"name", "admit"} => \A s \in j.slots :
         Live(db, s[1]) /\ HasRoom(db, s) /\ ~db.dev[s].disabled
    /\ j.pc \in Signing => \A s \in j.slots : Known(db, s) => db.dev[s].key = j.key
    /\ j.pc = "flag" /\ j.acct = None => \A s \in j.slots :
         ~Retired(db, s) /\ ~db.acct[s[1]].deleted
    /\ j.pc \in Revoking \cup {"flag"} /\ j.acct # None =>
         /\ ~db.acct[j.acct].deleted /\ j.slots = KnownSlotsOf(j.acct)
         /\ j.pc # "flag" => db.acct[j.acct].delete_pending
                             /\ ~db.acct[j.acct].enabled

LEMMA IdleAccounts == \A p \in Procs : job'[p].pc = "idle" => JobAccountsOf(p)'
  BY DEF JobAccountsOf, Signing, Revoking, CertSteps

LEMMA SplitAccounts == /\ JobAccounts <=> \A p \in Procs : JobAccountsOf(p)
                       /\ JobAccounts' <=> \A p \in Procs : JobAccountsOf(p)'
<1>1. JobAccounts <=> \A p \in Procs : JobAccountsOf(p)
  BY DEF JobAccounts, JobAccountsOf
<1>2. JobAccounts' <=> \A p \in Procs : JobAccountsOf(p)'
  BY DEF JobAccounts, JobAccountsOf
<1>3. QED BY <1>1, <1>2

LEMMA OneAccounts ==
  ASSUME NEW p \in Procs, \A q \in Procs \ {p} : job'[q].pc = "idle",
         JobAccountsOf(p)'
  PROVE  JobAccounts'
  BY IdleAccounts, SplitAccounts

\* The jobs requests begin with.
LEMMA RequestAccounts == BaseInv /\ PeerInv /\ AccountInv /\ Request => JobAccounts'
<1> SUFFICES ASSUME BaseInv, PeerInv, AccountInv, Request PROVE JobAccounts'
  OBVIOUS
<1>0. FreshIsEnabled /\ \A a \in Accounts : a # None
  BY ConstantsAssumption DEF PeerInv, PeerFacts
<1> USE DEF Procs, JobAccountsOf, Signing, Revoking, CertSteps
<1>1. ASSUME NEW a \in Accounts, BeginIssue(a) PROVE JobAccounts'
  <2> DEFINE j == [NoJob EXCEPT !.pc = "create", !.acct = a]
  <2>1. Began("command", j) /\ ~db.acct[a].exists
    BY <1>1, BeginBegan DEF BeginIssue
  <2>2. j.pc = "create" /\ j.acct = a
    BY DEF NoJob
  <2> HIDE DEF j
  <2>3. QED BY <2>1, <2>2, OneAccounts DEF Began
<1>2. ASSUME NEW s \in Slots, BeginDeviceInfo(s) PROVE JobAccounts'
  <2> DEFINE j == [NoJob EXCEPT !.pc = "name", !.slots = {s}]
  <2>1. /\ Began("issuer", j)
        /\ Live(db, s[1]) /\ HasRoom(db, s) /\ ~db.dev[s].disabled
    BY <1>2, BeginBegan DEF BeginDeviceInfo
  <2>2. j.pc = "name" /\ j.slots = {s}
    BY DEF NoJob
  <2> HIDE DEF j
  <2>3. Live(db', s[1]) /\ HasRoom(db', s) /\ ~db'.dev[s].disabled
    BY <2>1 DEF Began
  <2>4. QED BY <2>1, <2>2, <2>3, OneAccounts DEF Began
<1>3. ASSUME NEW s \in Slots, NEW k \in Keys, NEW i \in Identities,
             BeginEnroll(s, k, i)
      PROVE  JobAccounts'
  <2> DEFINE j == [NoJob EXCEPT !.pc = "sign", !.slots = {s}, !.id = i, !.key = k]
  <2>1. /\ Began("issuer", j) /\ Live(db, s[1]) /\ ~db.dev[s].disabled
        /\ Known(db, s) => db.dev[s].key = k
        /\ ~Known(db, s) => HasRoom(db, s)
    BY <1>3, BeginBegan DEF BeginEnroll
  <2>2. j.pc = "sign" /\ j.slots = {s} /\ j.key = k
    BY DEF NoJob
  <2>3. HasRoom(db, s)
    BY <2>1 DEF HasRoom, AccountInv, AccountFacts, EnrolledAreNumbered
  <2> HIDE DEF j
  <2>4. /\ Live(db', s[1]) /\ HasRoom(db', s) /\ ~db'.dev[s].disabled
        /\ Known(db', s) => db'.dev[s].key = k
    BY <2>1, <2>3 DEF Began
  <2>5. QED BY <2>1, <2>2, <2>4, OneAccounts DEF Began
<1>4. ASSUME NEW s \in Slots, NEW k \in Keys, BeginEnrollWireguard(s, k)
      PROVE  JobAccounts'
  <2> DEFINE j == [NoJob EXCEPT !.pc = "admit", !.slots = {s}, !.key = k]
  <2>1. Began("portal", j) /\ MayEnrollWireguard(db, s, k)
    BY <1>4, BeginBegan DEF BeginEnrollWireguard
  <2>2. j.pc = "admit" /\ j.slots = {s}
    BY DEF NoJob
  <2>3. Live(db, s[1]) /\ HasRoom(db, s) /\ ~db.dev[s].disabled
    BY <1>0, <2>1 DEF MayEnrollWireguard, FreshIsEnabled, HasRoom, AccountInv,
       AccountFacts, EnrolledAreNumbered
  <2> HIDE DEF j
  <2>4. Live(db', s[1]) /\ HasRoom(db', s) /\ ~db'.dev[s].disabled
    BY <2>1, <2>3 DEF Began
  <2>5. QED BY <2>1, <2>2, <2>4, OneAccounts DEF Began
<1>5. ASSUME NEW S \in SUBSET Slots, NEW a, BeginRevoke(S, a),
             a = None => \A s \in S : ~Retired(db, s) /\ ~db.acct[s[1]].deleted,
             a # None => ~db.acct[a].deleted /\ S = KnownSlotsOf(a)
      PROVE  JobAccounts'
  <2> DEFINE j == [NoJob EXCEPT !.pc = "flag", !.acct = a, !.slots = S,
                                !.todo = {s \in S : IsWg(db, s)}]
  <2>1. Began("issuer", j)
    BY <1>5, BeginBegan DEF BeginRevoke
  <2>2. j.pc = "flag" /\ j.acct = a /\ j.slots = S
    BY DEF NoJob
  <2> HIDE DEF j
  <2>3. /\ a = None => \A s \in S : ~Retired(db', s) /\ ~db'.acct[s[1]].deleted
        /\ a # None => ~db'.acct[a].deleted /\ S = KnownSlotsOf(a)'
    BY <1>5, <2>1 DEF Began, KnownSlotsOf, Known, Retired
  <2>4. QED BY <2>1, <2>2, <2>3, OneAccounts DEF Began
<1>6. ASSUME NEW s \in Slots, BeginRevokeDevice(s) PROVE JobAccounts'
  <2>1. BeginRevoke({s}, None) /\ ~Retired(db, s) /\ ~db.acct[s[1]].deleted
    BY <1>6 DEF BeginRevokeDevice, Retired
  <2>2. QED BY <1>5, <2>1
<1>7. ASSUME NEW a \in Accounts, BeginDeleteAccount(a) PROVE JobAccounts'
  <2> DEFINE S == {s \in {a} \X Devices : Known(db, s)}
  <2>1. S = KnownSlotsOf(a) /\ S \in SUBSET Slots
    BY DEF KnownSlotsOf, Slots
  <2>2. BeginRevoke(S, a) /\ ~db.acct[a].deleted
    BY <1>7 DEF BeginDeleteAccount
  <2> HIDE DEF S
  <2>3. QED BY <1>0, <1>5, <2>1, <2>2
<1>8. CASE BeginSync
  <2> DEFINE j == [NoJob EXCEPT !.pc = "sync", !.todo = WantedSlots(db)]
  <2>1. Began("timer", j)
    BY <1>8, BeginBegan DEF BeginSync
  <2>2. j.pc = "sync"
    BY DEF NoJob
  <2> HIDE DEF j
  <2>3. QED BY <2>1, <2>2, OneAccounts DEF Began
<1>9. QED BY <1>1, <1>2, <1>3, <1>4, <1>6, <1>7, <1>8 DEF Request

LEMMA AdvanceAccounts ==
  ASSUME BaseInv, PeerInv, AccountInv, NEW p \in Procs, Advance(p)
  PROVE  JobAccounts'
<1>0. /\ JobShape /\ JobPeers /\ JobAccountsOf(p) /\ JobShapeOf(p) /\ job[p] \in Job
      /\ NumbersStartAtOne /\ db \in Database
  BY SplitAccounts, SplitShape DEF BaseInv, PeerInv, AccountInv, AccountFacts, TypeOK
<1>1. ASSUME NEW label, Moved(p, label), JobAccountsOf(p)' PROVE JobAccounts'
  BY <1>1, OneAccounts DEF Moved
<1>2. CASE \/ ReuseCertificate(p) /\ Moved(p, "record")
           \/ SignCertificate(p) /\ Moved(p, "install")
           \/ InstallCertificate(p) /\ Moved(p, "record")
  <2>1. PICK label \in Signing : Moved(p, label)
    BY <1>2 DEF Signing
  <2>2. job[p].pc \in Signing /\ db' = db
    BY <1>2 DEF ReuseCertificate, SignCertificate, InstallCertificate, At, Signing
  <2>3. JobAccountsOf(p)'
    <3>1. \A s \in job[p].slots :
            /\ Live(db', s[1]) /\ HasRoom(db', s) /\ ~db'.dev[s].disabled
            /\ Known(db', s) => db'.dev[s].key = job[p].key
      BY <1>0, <2>2 DEF JobAccountsOf
    <3>2. QED BY <2>1, <3>1 DEF Moved, JobAccountsOf, Signing, Revoking, CertSteps
  <2>4. QED BY <1>1, <2>1, <2>3
<1>3. CASE RecordCertificate(p) /\ Moved(p, "reply")
  <2>1. PICK s \in job[p].slots :
          /\ db'.dev[s].key = job[p].key /\ SameFlags(db'.dev[s], db.dev[s])
    BY <1>3, RecordEffect
  <2>2. job[p].slots = {s} /\ s \in Slots
    BY <1>0, <1>3, <2>1 DEF RecordCertificate, At, JobShapeOf, Signing
  <2>3. Grown(s)
    BY <1>0, <1>3, <2>2, RecordGrows
  <2>4. Live(db, s[1]) /\ ~db.dev[s].disabled
    BY <1>0, <1>3, <2>2 DEF RecordCertificate, At, JobAccountsOf, Signing
  <2>5. /\ Live(db', s[1]) /\ HasRoom(db', s) /\ ~db'.dev[s].disabled
        /\ db'.dev[s].key = job[p].key
    BY <2>1, <2>2, <2>3, <2>4, SlotType
       DEF Grown, StatusKept, SameStatus, SameFlags, Live, HasRoom
  <2>6. JobAccountsOf(p)'
    BY <1>3, <2>2, <2>5 DEF Moved, JobAccountsOf, Signing, Revoking, CertSteps
  <2>7. QED BY <1>1, <1>3, <2>6
<1>4. CASE \/ AdmitPeer(p) /\ Moved(p, "apply")
           \/ ApplyPeer(p) /\ Moved(p, "confirm")
           \/ SyncApply(p) /\ Moved(p, "sync")
  <2>1. PICK label \in {"apply", "confirm", "sync"} : Moved(p, label)
    BY <1>4
  <2>2. JobAccountsOf(p)'
    BY <2>1 DEF Moved, JobAccountsOf, Signing, Revoking, CertSteps
  <2>3. QED BY <1>1, <2>1, <2>2
<1>5. CASE FlagRecords(p) /\ Moved(p, "peers")
  <2> DEFINE c == job[p].acct
  <2>1. \A t \in Slots : SameDevice(db'.dev[t], db.dev[t])
    BY <1>5, FlagEffect
  <2>2. \A a \in Accounts :
          db'.acct[a] = IF a = c THEN Closing(db.acct[a]) ELSE db.acct[a]
    BY <1>5, FlagAccounts
  <2>3. ASSUME c # None
        PROVE  /\ ~db'.acct[c].deleted
               /\ job[p].slots = {t \in Slots : t[1] = c /\ Known(db', t)}
               /\ db'.acct[c].delete_pending /\ ~db'.acct[c].enabled
    <3>1. /\ c \in Accounts /\ ~db.acct[c].deleted
          /\ job[p].slots = KnownSlotsOf(c) /\ db.acct[c] \in Account
      BY <1>0, <1>5, <2>3, DatabaseFields
         DEF FlagRecords, At, JobAccountsOf, Revoking, Job
    <3>2. \A t \in Slots : Known(db', t) <=> Known(db, t)
      BY <2>1 DEF SameDevice, Known
    <3>3. db'.acct[c] = Closing(db.acct[c])
      BY <2>2, <3>1
    <3>4. QED BY <3>1, <3>2, <3>3, AccountFlags DEF KnownSlotsOf
  <2>4. job'[p].acct = c /\ job'[p].slots = job[p].slots /\ job'[p].pc = "peers"
    BY <1>5 DEF Moved
  <2> HIDE DEF c
  <2>5. JobAccountsOf(p)'
    BY <2>3, <2>4 DEF JobAccountsOf, Signing, Revoking, CertSteps, KnownSlotsOf
  <2>6. QED BY <1>1, <1>5, <2>5
<1>6. CASE \/ RemovePeer(p) /\ Moved(p, "peers")
           \/ PeersRemoved(p) /\ Moved(p, IF Targets(p) = {} THEN "settle" ELSE "certs")
           \/ RowsRevoked(p) /\ Moved(p, "crl")
           \/ PublishCrl(p) /\ Moved(p, "load")
           \/ LoadCreds(p) /\ Moved(p, "sessions")
           \/ SessionsGone(p) /\ Moved(p, "settle")
  <2>1. PICK label \in Revoking : Moved(p, label)
    BY <1>6 DEF Revoking, CertSteps
  <2>2. job[p].pc \in Revoking /\ job[p].pc # "flag" /\ db' = db
    BY <1>6 DEF RemovePeer, PeersRemoved, RowsRevoked, PublishCrl, LoadCreds,
       SessionsGone, At, Revoking, CertSteps
  <2>3. job[p].acct # None =>
          /\ ~db'.acct[job[p].acct].deleted
          /\ job[p].slots = KnownSlotsOf(job[p].acct)
          /\ db'.acct[job[p].acct].delete_pending
          /\ ~db'.acct[job[p].acct].enabled
    BY <1>0, <2>2 DEF JobAccountsOf
  <2>4. job'[p].acct = job[p].acct /\ job'[p].slots = job[p].slots /\ job'[p].pc = label
    BY <2>1 DEF Moved
  <2>5. KnownSlotsOf(job[p].acct) = KnownSlotsOf(job[p].acct)'
    BY <2>2, <2>4 DEF KnownSlotsOf, Known
  <2>6. JobAccountsOf(p)'
    BY <2>1, <2>3, <2>4, <2>5 DEF JobAccountsOf, Signing, Revoking, CertSteps
  <2>7. QED BY <1>1, <2>1, <2>6
<1>7. QED BY <1>2, <1>3, <1>4, <1>5, <1>6 DEF Advance

LEMMA JobAccountsStep == BaseInv /\ PeerInv /\ AccountInv /\ [Next]_vars => JobAccounts'
<1> SUFFICES ASSUME BaseInv, PeerInv, AccountInv, [Next]_vars PROVE JobAccounts'
  OBVIOUS
<1>1. CASE AllIdle'
  BY <1>1, IdleAccounts, SplitAccounts DEF AllIdle
<1>2. CASE job' = job /\ ((Environment /\ ~Reboot) \/ UNCHANGED vars
                            \/ \E p \in Procs : Resting(p))
  <2>1. db' = db
    BY <1>2 DEF Environment, SwanRestart, Tick, Connect, Disconnect, NearExpiry,
       vars, Resting, RevokeRow, TerminateSession, SyncRemove
  <2>2. \A p \in Procs : JobAccountsOf(p) => JobAccountsOf(p)'
    BY <1>2, <2>1 DEF JobAccountsOf, Live, HasRoom, ActiveDevices, Known, Retired,
       KnownSlotsOf
  <2>3. QED BY <2>2, SplitAccounts DEF AccountInv
<1>3. QED BY <1>1, <1>2, RequestAccounts, AdvanceAccounts, StepKinds

LEMMA AccountInit == Init => AccountInv
<1> SUFFICES ASSUME Init PROVE AccountInv
  OBVIOUS
<1>1. /\ \A s \in Slots : db.dev[s] = NoRecord
      /\ \A a \in Accounts : db.acct[a] = NoAccount
  BY DEF Init, EmptyDb
<1>2. EnrolledAreNumbered /\ NumbersStartAtOne /\ NumbersHaveAccounts
  BY <1>1 DEF EnrolledAreNumbered, NumbersStartAtOne, NumbersHaveAccounts, Known,
     NoRecord, NoAccount
<1>3. DeletionCoversAccount
  BY <1>1 DEF DeletionCoversAccount, NoAccount
<1>4. DeviceLimitHolds
  BY <1>1 DEF DeviceLimitHolds, Live, NoAccount
<1>5. JobAccounts
  BY DEF Init, JobAccounts, NoJob, Signing, Revoking, CertSteps
<1>6. QED BY <1>2, <1>3, <1>4, <1>5 DEF AccountInv, AccountFacts

LEMMA AccountHolds == Spec => [](BaseInv /\ PeerInv /\ AccountInv)
<1>1. BaseInv /\ PeerInv /\ AccountInv /\ [Next]_vars => AccountInv'
  BY AccountFactsStep, JobAccountsStep DEF AccountInv
<1>2. QED BY AccountInit, PeerHolds, <1>1, PTL DEF Spec

(* An account that still opens never has more active devices and reserved   *)
(* names than the limit, although the check and the write of an enrollment  *)
(* are separate steps and four entry points make it (active_device_count).  *)
THEOREM IssuerDeviceLimitHolds == Spec => []DeviceLimitHolds
<1>1. AccountInv => DeviceLimitHolds
  BY DEF AccountInv, AccountFacts
<1>2. QED BY <1>1, AccountHolds, PTL

(* A deletion covers its account: under deletion every record is disabled,  *)
(* once deleted every record is retired, and neither opens with its token,  *)
(* wherever delete_account stopped and however often it was repeated.       *)
THEOREM IssuerDeletionCoversAccount == Spec => []DeletionCoversAccount
<1>1. AccountInv => DeletionCoversAccount
  BY DEF AccountInv, AccountFacts
<1>2. QED BY <1>1, AccountHolds, PTL

-----------------------------------------------------------------------------
SameEnrollment(s) == /\ db'.dev[s].type = db.dev[s].type
                     /\ db'.dev[s].key = db.dev[s].key
                     /\ db'.dev[s].address = db.dev[s].address
                     /\ db'.dev[s].number = db.dev[s].number

LEMMA EnrollmentStep ==
  ASSUME BaseInv, PeerInv, AccountInv, [Next]_vars, NEW t \in Slots, Known(db, t)
  PROVE  SameEnrollment(t)
<1>0. /\ JobPeers /\ JobShape /\ JobAccounts /\ TypeOK /\ NumbersStartAtOne
      /\ db.dev[t].number # 0
  BY DEF PeerInv, BaseInv, AccountInv, AccountFacts, EnrolledAreNumbered
<1>1. CASE db'.dev = db.dev
  BY <1>1 DEF SameEnrollment
<1>2. ASSUME SameDevice(db'.dev[t], db.dev[t]), NumberKept(t) PROVE SameEnrollment(t)
  BY <1>2 DEF SameEnrollment, SameDevice, NumberKept
<1>3. ASSUME NEW s, Grown(s) PROVE NumberKept(t)
  BY <1>0, <1>3 DEF Grown, NumberKept
<1>4. ASSUME NEW p \in Procs, CreateAccount(p) PROVE SameEnrollment(t)
  BY <1>1, <1>4, CreateEffect
<1>5. ASSUME NEW p \in Procs, NameDevice(p) PROVE SameEnrollment(t)
  BY <1>0, <1>2, <1>3, <1>5, NameEffect, NameGrows DEF Kept
<1>6. ASSUME NEW p \in Procs, RecordCertificate(p) PROVE SameEnrollment(t)
  <2>1. PICK s \in job[p].slots :
          /\ \A u \in Slots : u # s => Kept(u)
          /\ db'.dev[s].type = "ikev2" /\ db'.dev[s].key = job[p].key
          /\ db'.dev[s].address = db.dev[s].address
    BY <1>6, RecordEffect
  <2>2. NumberKept(t)
    BY <1>0, <1>3, <1>6, RecordGrows
  <2>3. CASE t # s
    BY <1>2, <2>1, <2>2, <2>3 DEF Kept
  <2>4. CASE t = s
    <3>1. db.dev[s].key = job[p].key /\ ~IsWg(db, s)
      BY <1>0, <1>6, <2>1, <2>4 DEF RecordCertificate, At, Signing, JobAccounts, JobPeers
    <3>2. db.dev[s].type = "ikev2"
      BY <1>0, <2>4, <3>1, DatabaseFields DEF IsWg, Known, TypeOK, Record
    <3>3. QED BY <2>1, <2>2, <2>4, <3>1, <3>2 DEF SameEnrollment, NumberKept
  <2>5. QED BY <2>3, <2>4
<1>7. ASSUME NEW p \in Procs, AdmitPeer(p) PROVE SameEnrollment(t)
  <2>1. PICK s \in job[p].slots : /\ \A u \in Slots : u # s => Kept(u)
                                  /\ Known(db, s) => Kept(s)
    BY <1>7, AdmitEffect
  <2>2. NumberKept(t)
    BY <1>0, <1>3, <1>7, AdmitGrows
  <2>3. QED BY <1>2, <2>1, <2>2 DEF Kept
<1>8. ASSUME NEW p \in Procs, ConfirmPeer(p) PROVE SameEnrollment(t)
  BY <1>2, <1>8, ConfirmEffect, ConfirmNumbers DEF Kept
<1>9. ASSUME NEW p \in Procs, FlagRecords(p) \/ SettleRecords(p)
      PROVE  SameEnrollment(t)
  BY <1>2, <1>9, FlagEffect, FlagAccounts, SettleEffect, SettleAccounts
<1>10. QED BY <1>1, <1>4, <1>5, <1>6, <1>7, <1>8, <1>9, Writers

(* A device keeps its type, key, address and number from its first record   *)
(* on: a retry of an enrollment completes what it finds (enroll_wireguard   *)
(* and enroll with an existing record), and nothing later reallocates it.   *)
THEOREM IssuerEnrollmentIsIdempotent == Spec => EnrollmentIsIdempotent
<1> DEFINE Idempotent == \A s \in Slots : Known(db, s) =>
                           /\ db'.dev[s].type = db.dev[s].type
                           /\ db'.dev[s].key = db.dev[s].key
                           /\ db'.dev[s].address = db.dev[s].address
                           /\ db'.dev[s].number = db.dev[s].number
<1>1. BaseInv /\ PeerInv /\ AccountInv /\ [Next]_vars => [Idempotent]_vars
  BY EnrollmentStep DEF SameEnrollment
<1>2. Spec => [][Idempotent]_vars
  BY <1>1, AccountHolds, PTL DEF Spec
<1>3. QED BY <1>2 DEF EnrollmentIsIdempotent
-----------------------------------------------------------------------------
(* Layer 5: certificates, the CRL and the sessions.                         *)

\* Which steps touch the rows, the folder and the certificates handed out.
LEMMA CaSteps ==
  ASSUME [Next]_vars
  PROVE  /\ row' = row \/ \E p \in Procs : SignCertificate(p)
         /\ folder' = folder \/ \E p \in Procs : InstallCertificate(p)
         /\ held' = held \/ \E p \in Procs : ReplyCertificate(p)
<1>1. CASE UNCHANGED vars
  BY <1>1 DEF vars, ca
<1>2. CASE Request
  BY <1>2 DEF Request, BeginIssue, BeginDeleteAccount, BeginRevoke,
     BeginDeviceInfo, BeginRevokeDevice, BeginEnroll, BeginEnrollWireguard,
     BeginSync, ca
<1>3. CASE Environment
  BY <1>3 DEF Environment, Reboot, SwanRestart, Tick, Connect, Disconnect,
     NearExpiry, ca
<1>4. ASSUME NEW p \in Procs, Enrollment(p)
      PROVE  /\ row' = row \/ SignCertificate(p)
             /\ folder' = folder \/ InstallCertificate(p)
             /\ held' = held \/ ReplyCertificate(p)
  BY <1>4 DEF Enrollment, CreateAccount, NameDevice, ReuseCertificate,
     SignCertificate, InstallCertificate, RecordCertificate, ReplyCertificate,
     AdmitPeer, ApplyPeer, ConfirmPeer, ca
<1>5. ASSUME NEW p \in Procs, Revocation(p)
      PROVE  row' = row /\ folder' = folder /\ held' = held
  BY <1>5 DEF Revocation, FlagRecords, RemovePeer, PeersRemoved, RevokeRow,
     RowsRevoked, PublishCrl, GiveUpCrl, LoadCreds, TerminateSession,
     SessionsGone, SettleRecords, ca
<1>6. ASSUME NEW p \in Procs, Sync(p) \/ Fail(p)
      PROVE  row' = row /\ folder' = folder /\ held' = held
  BY <1>6 DEF Sync, SyncRemove, SyncApply, SyncDone, Fail, ca
<1>7. QED BY <1>1, <1>2, <1>3, <1>4, <1>5, <1>6 DEF Next

\* What is barred stays barred: CRLs only grow, and a session starts only
\* with a certificate that the loaded one does not name.
Barring == /\ revoked \subseteq revoked' /\ crl.serials \subseteq crl'.serials
           /\ loaded.serials \subseteq loaded'.serials
           /\ \A c \in sas' : c \in sas \/ c \notin loaded.serials

LEMMA SwanSteps ==
  ASSUME [Next]_vars
  PROVE  \/ UNCHANGED <<revoked, crl, loaded>> /\ sas' \subseteq sas
         \/ UNCHANGED <<revoked, crl, loaded>>
              /\ \E c \in Serials \ loaded.serials : sas' = sas \cup {c}
         \/ UNCHANGED <<revoked, crl>> /\ sas' = {} /\ loaded' = crl
         \/ \E p \in Procs : RevokeRow(p) \/ PublishCrl(p) \/ LoadCreds(p)
<1>1. CASE UNCHANGED vars
  BY <1>1 DEF vars, ca, swan
<1>2. CASE Request
  BY <1>2 DEF Request, BeginIssue, BeginDeleteAccount, BeginRevoke,
     BeginDeviceInfo, BeginRevokeDevice, BeginEnroll, BeginEnrollWireguard,
     BeginSync, ca, swan
<1>3. CASE Environment
  BY <1>3 DEF Environment, Reboot, SwanRestart, Tick, Connect, Disconnect,
     NearExpiry, ca, swan
<1>4. ASSUME NEW p \in Procs, Enrollment(p) PROVE UNCHANGED <<revoked, crl, loaded, sas>>
  BY <1>4 DEF Enrollment, CreateAccount, NameDevice, ReuseCertificate,
     SignCertificate, InstallCertificate, RecordCertificate, ReplyCertificate,
     AdmitPeer, ApplyPeer, ConfirmPeer, ca, swan
<1>5. ASSUME NEW p \in Procs, Revocation(p)
      PROVE  \/ UNCHANGED <<revoked, crl, loaded>> /\ sas' \subseteq sas
             \/ RevokeRow(p) \/ PublishCrl(p) \/ LoadCreds(p)
  BY <1>5 DEF Revocation, FlagRecords, RemovePeer, PeersRemoved, RowsRevoked,
     GiveUpCrl, TerminateSession, SessionsGone, SettleRecords, ca, swan
<1>6. ASSUME NEW p \in Procs, Sync(p) \/ Fail(p)
      PROVE  UNCHANGED <<revoked, crl, loaded, sas>>
  BY <1>6 DEF Sync, SyncRemove, SyncApply, SyncDone, Fail, ca, swan
<1>7. QED BY <1>1, <1>2, <1>3, <1>4, <1>5, <1>6 DEF Next

LEMMA CrlStep ==
  ASSUME TypeOK, CrlGrows, [Next]_vars
  PROVE  CrlGrows' /\ Barring
<1>0. crl \in CrlType /\ loaded \in CrlType /\ clock \in Nat
  BY DEF TypeOK
<1>1. CASE UNCHANGED <<revoked, crl, loaded>>
           /\ \/ sas' \subseteq sas
              \/ \E c \in Serials \ loaded.serials : sas' = sas \cup {c}
  BY <1>1 DEF CrlGrows, Barring
<1>2. CASE UNCHANGED <<revoked, crl>> /\ sas' = {} /\ loaded' = crl
  BY <1>0, <1>2 DEF CrlGrows, Barring, CrlType
<1>3. ASSUME NEW p \in Procs, RevokeRow(p) PROVE CrlGrows' /\ Barring
  BY <1>3 DEF RevokeRow, swan, CrlGrows, Barring
<1>4. ASSUME NEW p \in Procs, PublishCrl(p) PROVE CrlGrows' /\ Barring
  <2>1. /\ clock > crl.time /\ crl' = [time |-> clock, serials |-> revoked]
        /\ UNCHANGED <<revoked, loaded, sas>>
    BY <1>4 DEF PublishCrl, swan, ca
  <2>2. crl'.time = clock /\ crl'.serials = revoked
    BY <2>1
  <2>3. crl.time \in Nat /\ loaded.time \in Nat
    BY <1>0 DEF CrlType
  <2>4. loaded'.time < crl'.time
    BY <1>0, <2>1, <2>2, <2>3 DEF CrlGrows
  <2>5. QED BY <1>0, <2>1, <2>2, <2>3, <2>4 DEF CrlGrows, Barring
<1>5. ASSUME NEW p \in Procs, LoadCreds(p) PROVE CrlGrows' /\ Barring
  BY <1>0, <1>5 DEF LoadCreds, ca, CrlGrows, Barring, CrlType
<1>6. QED BY <1>1, <1>2, <1>3, <1>4, <1>5, SwanSteps

LEMMA FolderStep == BaseInv /\ FolderHoldsOwn /\ [Next]_vars => FolderHoldsOwn'
<1> SUFFICES ASSUME BaseInv, FolderHoldsOwn, [Next]_vars PROVE FolderHoldsOwn'
  OBVIOUS
<1>0. TypeOK /\ JobShape /\ None \notin Identities
  BY ConstantsAssumption DEF BaseInv
<1>1. ASSUME NEW p \in Procs, SignCertificate(p) PROVE FolderHoldsOwn'
  <2>1. PICK c \in Serials : row[c] = None /\ row' = [row EXCEPT ![c] = job[p].id]
    BY <1>1 DEF SignCertificate
  <2>2. folder' = folder
    BY <1>1 DEF SignCertificate
  <2>3. QED BY <1>0, <2>1, <2>2 DEF FolderHoldsOwn, TypeOK
<1>2. ASSUME NEW p \in Procs, InstallCertificate(p) PROVE FolderHoldsOwn'
  <2>1. /\ folder' = [folder EXCEPT ![job[p].id] = job[p].serial] /\ row' = row
        /\ row[job[p].serial] = job[p].id
    BY <1>0, <1>2 DEF InstallCertificate, At, JobShape
  <2>2. QED BY <1>0, <2>1 DEF FolderHoldsOwn, TypeOK
<1>3. CASE row' = row /\ folder' = folder
  BY <1>3 DEF FolderHoldsOwn
<1>4. QED BY <1>1, <1>2, <1>3, CaSteps

\* p works on the certificate of c: it is one its job revokes.
IsTarget(p, c) == \E s \in job[p].slots : ~IsWg(db, s) /\ row[c] = db.dev[s].id

LEMMA TargetRows ==
  ASSUME Locking, NEW p \in Procs, job[p].pc # "idle", NEW c
  PROVE  row[c] \in Targets(p) <=> IsTarget(p, c)
  BY HolderIsAlone DEF Targets, IsTarget

LEMMA TargetRowsNext ==
  ASSUME Locking', NEW p \in Procs, job'[p].pc # "idle", NEW c
  PROVE  row'[c] \in Targets(p)' <=> IsTarget(p, c)'
<1>1. mem'[p] = db'
  BY DEF Locking
<1>2. QED BY <1>1 DEF Targets, IsTarget

\* JobCertificates of one process, its targets read from the file.
JobCertificatesOf(p) ==
  LET j == job[p] IN
    /\ j.pc \in Signing => \A s \in j.slots, t \in CertSlots(db) :
         db.dev[t].id = j.id <=> t = s /\ Known(db, s)
    /\ j.pc = "reply" => \E s \in CertSlots(db) : db.dev[s].id = j.id
    /\ j.pc \in {"crl", "load", "sessions"} => \A c \in Serials :
         IsTarget(p, c) =>
           /\ c \in revoked
           /\ j.pc \in {"load", "sessions"} => c \in crl.serials
           /\ j.pc = "sessions" => c \in loaded.serials
    /\ j.pc = "settle" => \A c \in Serials :
         IsTarget(p, c) => c \in loaded.serials /\ c \notin sas

LEMMA IdleCertificates ==
  \A p \in Procs : job'[p].pc = "idle" => JobCertificatesOf(p)'
  BY DEF JobCertificatesOf, Signing

LEMMA SplitCertificates ==
  ASSUME Locking
  PROVE  JobCertificates => \A p \in Procs : JobCertificatesOf(p)
<1> SUFFICES ASSUME JobCertificates, NEW p \in Procs PROVE JobCertificatesOf(p)
  OBVIOUS
<1>1. job[p].pc # "idle" => \A c : row[c] \in Targets(p) <=> IsTarget(p, c)
  BY TargetRows
<1>2. QED BY <1>1 DEF JobCertificates, JobCertificatesOf

LEMMA JoinCertificates ==
  ASSUME Locking', \A p \in Procs : JobCertificatesOf(p)'
  PROVE  JobCertificates'
<1>1. \A p \in Procs : job'[p].pc # "idle" =>
        \A c : row'[c] \in Targets(p)' <=> IsTarget(p, c)'
  BY TargetRowsNext
<1>2. QED BY <1>1 DEF JobCertificates, JobCertificatesOf

CertificateFacts == /\ IdentitiesAreOwned /\ HeldAreRecorded
                    /\ RetiredCertificateIsBarred

\* The records with a certificate that can be retired, as a step leaves them.
\* This is all the certificate facts need of a write of accounts.json.
OldCerts == \A t \in CertSlots(db) : t \in CertSlots(db') /\ db'.dev[t].id = db.dev[t].id
NewCerts == \A t \in CertSlots(db') : t \in CertSlots(db)
SameRetired == \A t \in CertSlots(db) : Retired(db', t) => Retired(db, t)

LEMMA KeptCertificates ==
  ASSUME CertificateFacts, Barring, OldCerts, NewCerts, SameRetired,
         row' = row, held' = held
  PROVE  CertificateFacts'
<1>1. IdentitiesAreOwned'
  BY DEF CertificateFacts, IdentitiesAreOwned, OldCerts, NewCerts
<1>2. HeldAreRecorded'
  BY DEF CertificateFacts, HeldAreRecorded, OldCerts
<1>3. RetiredCertificateIsBarred'
  BY DEF CertificateFacts, RetiredCertificateIsBarred, OldCerts, NewCerts,
     SameRetired, Barring, CertSlots
<1>4. QED BY <1>1, <1>2, <1>3 DEF CertificateFacts

LEMMA SameCerts ==
  ASSUME \A t \in Slots : SameDevice(db'.dev[t], db.dev[t])
  PROVE  OldCerts /\ NewCerts /\ CertSlots(db') = CertSlots(db)
  BY DEF SameDevice, OldCerts, NewCerts, CertSlots

LEMMA CertificateFactsStep ==
  BaseInv /\ PeerInv /\ CertificateInv /\ [Next]_vars => CertificateFacts'
<1> SUFFICES ASSUME BaseInv, PeerInv, CertificateInv, [Next]_vars
             PROVE  CertificateFacts'
  OBVIOUS
<1>0. /\ TypeOK /\ JobShape /\ JobPeers /\ Locking /\ RecordShape
      /\ CertificateFacts /\ FolderHoldsOwn /\ Barring
      /\ \A p \in Procs : JobCertificatesOf(p) /\ job[p] \in Job
      /\ None \notin Identities /\ None \notin Serials
  BY SplitCertificates, CrlStep, ConstantsAssumption
     DEF BaseInv, PeerInv, CertificateInv, CertificateFacts, TypeOK
<1>1. ASSUME \A t \in Slots : Kept(t), row' = row, held' = held
      PROVE  CertificateFacts'
  <2>1. OldCerts /\ NewCerts
    BY <1>1, SameCerts DEF Kept
  <2>2. SameRetired
    BY <1>1 DEF Kept, SameFlags, SameRetired, Retired, CertSlots
  <2>3. QED BY <1>0, <1>1, <2>1, <2>2, KeptCertificates
<1>2. ASSUME db' = db, row' = row, held' = held PROVE CertificateFacts'
  BY <1>1, <1>2, SameFileKept
<1>3. ASSUME NEW p \in Procs, SignCertificate(p) PROVE CertificateFacts'
  <2>1. PICK c \in Serials : row[c] = None /\ row' = [row EXCEPT ![c] = job[p].id]
    BY <1>3 DEF SignCertificate
  <2>2. db' = db /\ held' = held
    BY <1>3 DEF SignCertificate
  <2>3. /\ job[p].pc \in Signing /\ job[p].id \in Identities
        /\ \A s \in job[p].slots : ~db.dev[s].disabled
        /\ \A t \in CertSlots(db) : db.dev[t].id = job[p].id => t \in job[p].slots
    <3>1. job[p].pc \in Signing
      BY <1>3 DEF SignCertificate, At, Signing
    <3>2. PICK s \in Slots : job[p].slots = {s}
      BY <1>0, <3>1 DEF JobShape
    <3>3. QED BY <1>0, <3>1, <3>2 DEF JobShape, JobPeers, JobCertificatesOf
  <2>4. IdentitiesAreOwned'
    BY <1>0, <2>2 DEF CertificateFacts, IdentitiesAreOwned, CertSlots
  <2>5. HeldAreRecorded'
    <3>1. ASSUME NEW d \in held PROVE \E s \in CertSlots(db) : db.dev[s].id = row'[d]
      <4>1. PICK s \in CertSlots(db) : db.dev[s].id = row[d]
        BY <1>0 DEF CertificateFacts, HeldAreRecorded
      <4>2. row[d] \in Identities
        BY <1>0, <4>1 DEF RecordShape, CertSlots
      <4>3. QED BY <1>0, <2>1, <4>1, <4>2 DEF TypeOK
    <3>2. QED BY <2>2, <3>1 DEF HeldAreRecorded
  <2>6. RetiredCertificateIsBarred'
    <3> SUFFICES ASSUME NEW s \in Slots, NEW d \in Serials, db.dev[s].type = "ikev2",
                        Retired(db, s), row'[d] = db.dev[s].id
                 PROVE  d \in loaded'.serials /\ d \notin sas'
      BY <2>2 DEF RetiredCertificateIsBarred, Retired
    <3>1. row[d] = db.dev[s].id
      BY <1>0, <2>1, <2>3 DEF TypeOK, CertSlots, Retired
    <3>2. QED BY <1>0, <3>1 DEF CertificateFacts, RetiredCertificateIsBarred, Barring
  <2>7. QED BY <2>4, <2>5, <2>6 DEF CertificateFacts
<1>4. ASSUME NEW p \in Procs, ReplyCertificate(p) PROVE CertificateFacts'
  <2>1. db' = db /\ row' = row /\ held' \subseteq held \cup {folder[job[p].id]}
    BY <1>4 DEF ReplyCertificate, ca
  <2>2. /\ job[p].pc = "reply" /\ job[p].id \in Identities
        /\ folder[job[p].id] \in Serials
    BY <1>0, <1>4 DEF ReplyCertificate, At, JobShape, Signing
  <2>3. PICK s \in CertSlots(db) : db.dev[s].id = job[p].id
    BY <1>0, <2>2 DEF JobCertificatesOf
  <2>4. row[folder[job[p].id]] = job[p].id
    BY <1>0, <2>2 DEF FolderHoldsOwn
  <2>5. \A c \in held' : \E t \in CertSlots(db) : db.dev[t].id = row[c]
    BY <1>0, <2>1, <2>3, <2>4 DEF CertificateFacts, HeldAreRecorded
  <2>6. IdentitiesAreOwned' /\ HeldAreRecorded'
    BY <1>0, <2>1, <2>5 DEF CertificateFacts, IdentitiesAreOwned, HeldAreRecorded
  <2>7. RetiredCertificateIsBarred'
    BY <1>0, <2>1 DEF CertificateFacts, RetiredCertificateIsBarred, Barring, Retired
  <2>8. QED BY <2>6, <2>7 DEF CertificateFacts
<1>5. ASSUME NEW p \in Procs, CreateAccount(p) PROVE CertificateFacts'
  BY <1>1, <1>5, CreateEffect, SameFileKept DEF CreateAccount, ca
<1>6. ASSUME NEW p \in Procs, NameDevice(p) \/ ConfirmPeer(p) PROVE CertificateFacts'
  BY <1>1, <1>6, NameEffect, ConfirmEffect DEF NameDevice, ConfirmPeer, ca
<1>7. ASSUME NEW p \in Procs, RecordCertificate(p) PROVE CertificateFacts'
  <2>1. PICK s \in job[p].slots :
          /\ \A t \in Slots : t # s => Kept(t)
          /\ db'.dev[s].type = "ikev2" /\ db'.dev[s].id = job[p].id
          /\ SameFlags(db'.dev[s], db.dev[s])
    BY <1>7, RecordEffect
  <2>2. /\ s \in Slots /\ job[p].slots = {s} /\ ~db.dev[s].disabled /\ ~IsWg(db, s)
        /\ row' = row /\ held' = held
        /\ \A t \in CertSlots(db) : db.dev[t].id = job[p].id <=> t = s /\ Known(db, s)
    BY <1>0, <1>7, <2>1 DEF RecordCertificate, ca, At, Signing, Job, JobShape,
       JobPeers, JobCertificatesOf
  <2>3. \A t \in CertSlots(db) : t \in CertSlots(db') /\ db'.dev[t].id = db.dev[t].id
    BY <2>1, <2>2 DEF CertSlots, Kept, SameDevice, Known
  <2>4. \A t \in CertSlots(db') : t = s \/ (t \in CertSlots(db)
                                            /\ db'.dev[t].id = db.dev[t].id)
    BY <2>1 DEF CertSlots, Kept, SameDevice
  <2>5. IdentitiesAreOwned'
    <3> SUFFICES ASSUME NEW t \in CertSlots(db'), NEW u \in CertSlots(db'),
                        db'.dev[t].id = db'.dev[u].id
                 PROVE  t = u
      BY DEF IdentitiesAreOwned
    <3>1. CASE t # s /\ u # s
      BY <1>0, <2>4, <3>1 DEF CertificateFacts, IdentitiesAreOwned
    <3>2. CASE t = s \/ u = s
      BY <2>1, <2>2, <2>4, <3>2
    <3>3. QED BY <3>1, <3>2
  <2>6. HeldAreRecorded'
    BY <1>0, <2>2, <2>3 DEF CertificateFacts, HeldAreRecorded
  <2>7. RetiredCertificateIsBarred'
    <3> SUFFICES ASSUME NEW t \in Slots, NEW d \in Serials, db'.dev[t].type = "ikev2",
                        Retired(db', t), row'[d] = db'.dev[t].id
                 PROVE  d \in loaded'.serials /\ d \notin sas'
      BY DEF RetiredCertificateIsBarred
    <3>1. t # s
      BY <2>1, <2>2 DEF Retired, SameFlags
    <3>2. Retired(db, t) /\ row[d] = db.dev[t].id /\ db.dev[t].type = "ikev2"
      BY <2>1, <2>2, <3>1 DEF Kept, SameFlags, SameDevice, Retired
    <3>3. QED BY <1>0, <3>2 DEF CertificateFacts, RetiredCertificateIsBarred, Barring
  <2>8. QED BY <2>5, <2>6, <2>7 DEF CertificateFacts
<1>8. ASSUME NEW p \in Procs, AdmitPeer(p) PROVE CertificateFacts'
  <2>1. PICK s \in job[p].slots :
          /\ \A t \in Slots : t # s => Kept(t)
          /\ IF Known(db, s) THEN Kept(s) ELSE db'.dev[s].type = "wireguard"
    BY <1>8, AdmitEffect
  <2>2. row' = row /\ held' = held
    BY <1>8 DEF AdmitPeer, ca
  <2>3. CASE Known(db, s)
    BY <1>1, <2>1, <2>2, <2>3
  <2>4. CASE ~Known(db, s)
    <3>1. s \notin CertSlots(db) /\ s \notin CertSlots(db')
      BY <2>1, <2>4 DEF CertSlots, Known
    <3>2. OldCerts /\ NewCerts /\ SameRetired
      BY <2>1, <3>1 DEF OldCerts, NewCerts, SameRetired, CertSlots, Kept,
         SameDevice, SameFlags, Retired
    <3>3. QED BY <1>0, <2>2, <3>2, KeptCertificates
  <2>5. QED BY <2>3, <2>4
<1>9. ASSUME NEW p \in Procs, FlagRecords(p) PROVE CertificateFacts'
  <2>1. \A t \in Slots :
           /\ SameDevice(db'.dev[t], db.dev[t])
           /\ t \in job[p].slots => db'.dev[t].disabled /\ db'.dev[t].revoke_pending
           /\ t \notin job[p].slots => Kept(t)
    BY <1>9, FlagEffect
  <2>2. row' = row /\ held' = held
    BY <1>9 DEF FlagRecords, ca
  <2>3. SameRetired
    BY <2>1 DEF SameRetired, CertSlots, Retired, Kept, SameFlags
  <2>4. QED BY <1>0, <2>1, <2>2, <2>3, SameCerts, KeptCertificates
<1>10. ASSUME NEW p \in Procs, SettleRecords(p) PROVE CertificateFacts'
  <2>1. \A t \in Slots : /\ SameDevice(db'.dev[t], db.dev[t])
                         /\ t \notin job[p].slots => Kept(t)
    BY <1>10, SettleEffect
  <2>2. /\ row' = row /\ held' = held /\ loaded' = loaded /\ sas' = sas
        /\ job[p].pc = "settle"
    BY <1>10 DEF SettleRecords, ca, swan, At
  <2>3. OldCerts /\ NewCerts /\ CertSlots(db') = CertSlots(db)
    BY <2>1, SameCerts
  <2>4. IdentitiesAreOwned' /\ HeldAreRecorded'
    BY <1>0, <2>2, <2>3 DEF CertificateFacts, IdentitiesAreOwned, HeldAreRecorded,
       OldCerts
  <2>5. RetiredCertificateIsBarred'
    <3> SUFFICES ASSUME NEW t \in Slots, NEW d \in Serials, db'.dev[t].type = "ikev2",
                        Retired(db', t), row'[d] = db'.dev[t].id
                 PROVE  d \in loaded'.serials /\ d \notin sas'
      BY DEF RetiredCertificateIsBarred
    <3>1. db.dev[t].type = "ikev2" /\ row[d] = db.dev[t].id
      BY <2>1, <2>2 DEF SameDevice
    <3>2. CASE t \in job[p].slots
      <4>1. IsTarget(p, d)
        BY <3>1, <3>2 DEF IsTarget, IsWg
      <4>2. QED BY <1>0, <2>2, <4>1 DEF JobCertificatesOf
    <3>3. CASE t \notin job[p].slots
      <4>1. Retired(db, t)
        BY <2>1, <3>3 DEF Kept, SameFlags, Retired
      <4>2. QED BY <1>0, <2>2, <3>1, <4>1
                DEF CertificateFacts, RetiredCertificateIsBarred
    <3>4. QED BY <3>2, <3>3
  <2>6. QED BY <2>4, <2>5 DEF CertificateFacts
<1>11. CASE db' = db
  BY <1>2, <1>3, <1>4, <1>11, CaSteps
<1>12. QED BY <1>5, <1>6, <1>7, <1>8, <1>9, <1>10, <1>11, Writers

LEMMA RequestCertificates ==
  ASSUME BaseInv, PeerInv, CertificateInv, Request, NEW q \in Procs
  PROVE  JobCertificatesOf(q)'
<1> USE DEF Procs
<1>1. ASSUME NEW p \in Procs, NEW j, Began(p, j),
             j.pc \notin Signing \cup {"crl", "load", "sessions", "settle"}
      PROVE  JobCertificatesOf(q)'
  <2>1. CASE q = p
    BY <1>1, <2>1 DEF Began, JobCertificatesOf, Signing
  <2>2. CASE q # p
    BY <1>1, <2>2, IdleCertificates DEF Began
  <2>3. QED BY <2>1, <2>2
<1>2. ASSUME NEW a \in Accounts, BeginIssue(a) PROVE JobCertificatesOf(q)'
  <2> DEFINE j == [NoJob EXCEPT !.pc = "create", !.acct = a]
  <2>1. Began("command", j) /\ j.pc = "create"
    BY <1>2, BeginBegan DEF BeginIssue, NoJob
  <2> HIDE DEF j
  <2>2. QED BY <1>1, <2>1 DEF Signing
<1>3. ASSUME NEW s \in Slots, BeginDeviceInfo(s) PROVE JobCertificatesOf(q)'
  <2> DEFINE j == [NoJob EXCEPT !.pc = "name", !.slots = {s}]
  <2>1. Began("issuer", j) /\ j.pc = "name"
    BY <1>3, BeginBegan DEF BeginDeviceInfo, NoJob
  <2> HIDE DEF j
  <2>2. QED BY <1>1, <2>1 DEF Signing
<1>4. ASSUME NEW s \in Slots, NEW k \in Keys, NEW i \in Identities,
             BeginEnroll(s, k, i)
      PROVE  JobCertificatesOf(q)'
  <2> DEFINE j == [NoJob EXCEPT !.pc = "sign", !.slots = {s}, !.id = i, !.key = k]
  <2>1. /\ Began("issuer", j)
        /\ Known(db, s) => db.dev[s].type = "ikev2" /\ db.dev[s].id = i
        /\ ~Known(db, s) => \A t \in Slots : db.dev[t].id # i
    BY <1>4, BeginBegan DEF BeginEnroll, FreshIdentity
  <2>2. j.pc = "sign" /\ j.slots = {s} /\ j.id = i
    BY DEF NoJob
  <2> HIDE DEF j
  <2>3. \A t \in CertSlots(db) : db.dev[t].id = i <=> t = s /\ Known(db, s)
    BY <2>1 DEF CertificateInv, IdentitiesAreOwned, CertSlots
  <2>4. JobCertificatesOf("issuer")'
    BY <2>1, <2>2, <2>3 DEF Began, JobCertificatesOf, Signing, CertSlots, Known
  <2>5. QED BY <2>1, <2>4, IdleCertificates DEF Began
<1>5. ASSUME NEW s \in Slots, NEW k \in Keys, BeginEnrollWireguard(s, k)
      PROVE  JobCertificatesOf(q)'
  <2> DEFINE j == [NoJob EXCEPT !.pc = "admit", !.slots = {s}, !.key = k]
  <2>1. Began("portal", j) /\ j.pc = "admit"
    BY <1>5, BeginBegan DEF BeginEnrollWireguard, NoJob
  <2> HIDE DEF j
  <2>2. QED BY <1>1, <2>1 DEF Signing
<1>6. ASSUME NEW S, NEW a, BeginRevoke(S, a) PROVE JobCertificatesOf(q)'
  <2> DEFINE j == [NoJob EXCEPT !.pc = "flag", !.acct = a, !.slots = S,
                                !.todo = {s \in S : IsWg(db, s)}]
  <2>1. Began("issuer", j) /\ j.pc = "flag"
    BY <1>6, BeginBegan DEF BeginRevoke, NoJob
  <2> HIDE DEF j
  <2>2. QED BY <1>1, <2>1 DEF Signing
<1>7. CASE BeginSync
  <2> DEFINE j == [NoJob EXCEPT !.pc = "sync", !.todo = WantedSlots(db)]
  <2>1. Began("timer", j) /\ j.pc = "sync"
    BY <1>7, BeginBegan DEF BeginSync, NoJob
  <2> HIDE DEF j
  <2>2. QED BY <1>1, <2>1 DEF Signing
<1>8. QED BY <1>2, <1>3, <1>4, <1>5, <1>6, <1>7
          DEF Request, BeginRevokeDevice, BeginDeleteAccount

LEMMA AdvanceCertificates ==
  ASSUME BaseInv, PeerInv, CertificateInv, Barring, NEW p \in Procs, Advance(p)
  PROVE  JobCertificatesOf(p)'
<1>0. /\ TypeOK /\ Locking /\ JobShape /\ JobPeers /\ CrlGrows
      /\ JobCertificatesOf(p) /\ job[p] \in Job
      /\ job[p].pc # "idle" =>
           \A c : row[c] \in Targets(p) <=> IsTarget(p, c)
  BY SplitCertificates, TargetRows DEF BaseInv, PeerInv, CertificateInv, TypeOK
<1>1. CASE \/ ReuseCertificate(p) /\ Moved(p, "record")
           \/ SignCertificate(p) /\ Moved(p, "install")
           \/ InstallCertificate(p) /\ Moved(p, "record")
  <2>1. PICK label \in {"install", "record"} : Moved(p, label)
    BY <1>1
  <2>2. job[p].pc \in Signing /\ db' = db
    BY <1>1 DEF ReuseCertificate, SignCertificate, InstallCertificate, At, Signing
  <2>3. QED BY <1>0, <2>1, <2>2 DEF Moved, JobCertificatesOf, Signing, CertSlots, Known
<1>2. CASE RecordCertificate(p) /\ Moved(p, "reply")
  <2>1. PICK s \in job[p].slots :
          /\ \A t \in Slots : t # s => Kept(t)
          /\ db'.dev[s].type = "ikev2" /\ db'.dev[s].id = job[p].id
    BY <1>2, RecordEffect
  <2>2. /\ s \in Slots /\ job[p].slots = {s}
        /\ \A t \in CertSlots(db) : db.dev[t].id = job[p].id => t = s
    BY <1>0, <1>2, <2>1 DEF RecordCertificate, At, Signing, Job, JobShape,
       JobCertificatesOf
  <2>3. /\ s \in CertSlots(db') /\ Known(db', s)
        /\ \A t \in CertSlots(db') : db'.dev[t].id = job[p].id <=> t = s
    BY <2>1, <2>2 DEF CertSlots, Known, Kept, SameDevice
  <2>4. QED BY <1>2, <2>1, <2>2, <2>3 DEF Moved, JobCertificatesOf, Signing
<1>3. CASE \/ AdmitPeer(p) /\ Moved(p, "apply")
           \/ ApplyPeer(p) /\ Moved(p, "confirm")
           \/ FlagRecords(p) /\ Moved(p, "peers")
           \/ RemovePeer(p) /\ Moved(p, "peers")
           \/ SyncApply(p) /\ Moved(p, "sync")
  BY <1>3 DEF Moved, JobCertificatesOf, Signing
\* From here on the step keeps the file, the rows and the targets.
<1>4. ASSUME NEW label, Moved(p, label), db' = db, row' = row, NEW c
      PROVE  IsTarget(p, c)' <=> IsTarget(p, c)
  BY <1>4 DEF Moved, IsTarget, IsWg
<1>5. CASE PeersRemoved(p) /\ Moved(p, IF Targets(p) = {} THEN "settle" ELSE "certs")
  <2>1. db' = db /\ row' = row /\ job[p].pc = "peers"
    BY <1>5 DEF PeersRemoved, At, ca
  <2>2. CASE Targets(p) = {}
    <3>1. Moved(p, "settle") /\ \A c : ~IsTarget(p, c)
      BY <1>0, <1>5, <2>1, <2>2
    <3>2. \A c : ~IsTarget(p, c)'
      BY <1>4, <2>1, <3>1
    <3>3. QED BY <3>1, <3>2 DEF Moved, JobCertificatesOf, Signing
  <2>3. CASE Targets(p) # {}
    BY <1>5, <2>3 DEF Moved, JobCertificatesOf, Signing
  <2>4. QED BY <2>2, <2>3
<1>6. CASE RowsRevoked(p) /\ Moved(p, "crl")
  <2>1. /\ db' = db /\ row' = row /\ revoked' = revoked
        /\ \A c \in Serials : IsTarget(p, c) => c \in revoked
    BY <1>0, <1>6 DEF RowsRevoked, At, ca
  <2>2. \A c \in Serials : IsTarget(p, c)' => c \in revoked'
    BY <1>4, <1>6, <2>1
  <2>3. QED BY <1>6, <2>2 DEF Moved, JobCertificatesOf, Signing
<1>7. CASE PublishCrl(p) /\ Moved(p, "load")
  <2>1. /\ db' = db /\ row' = row /\ revoked' = revoked /\ crl'.serials = revoked
        /\ \A c \in Serials : IsTarget(p, c) => c \in revoked
    BY <1>0, <1>7 DEF PublishCrl, At, ca, JobCertificatesOf
  <2>2. \A c \in Serials : IsTarget(p, c)' => c \in revoked' /\ c \in crl'.serials
    BY <1>4, <1>7, <2>1
  <2>3. QED BY <1>7, <2>2 DEF Moved, JobCertificatesOf, Signing
<1>8. CASE LoadCreds(p) /\ Moved(p, "sessions")
  <2>1. /\ db' = db /\ row' = row /\ crl' = crl /\ revoked' = revoked
        /\ loaded' = IF crl.time > loaded.time THEN crl ELSE loaded
        /\ \A c \in Serials : IsTarget(p, c) => c \in revoked /\ c \in crl.serials
    BY <1>0, <1>8 DEF LoadCreds, At, ca, JobCertificatesOf
  <2>2. loaded' = crl
    BY <1>0, <2>1 DEF CrlGrows, TypeOK, CrlType
  <2>3. \A c \in Serials : IsTarget(p, c)' =>
          c \in revoked' /\ c \in crl'.serials /\ c \in loaded'.serials
    BY <1>4, <1>8, <2>1, <2>2
  <2>4. QED BY <1>8, <2>3 DEF Moved, JobCertificatesOf, Signing
<1>9. CASE SessionsGone(p) /\ Moved(p, "settle")
  <2>1. /\ db' = db /\ row' = row /\ loaded' = loaded /\ sas' = sas
        /\ sas \subseteq Serials
        /\ \A c \in Serials : IsTarget(p, c) => c \in loaded.serials /\ c \notin sas
    BY <1>0, <1>9 DEF SessionsGone, At, ca, swan, JobCertificatesOf, TypeOK
  <2>2. \A c \in Serials : IsTarget(p, c)' => c \in loaded'.serials /\ c \notin sas'
    BY <1>4, <1>9, <2>1
  <2>3. QED BY <1>9, <2>2 DEF Moved, JobCertificatesOf, Signing
<1>10. QED BY <1>1, <1>2, <1>3, <1>5, <1>6, <1>7, <1>8, <1>9 DEF Advance

LEMMA JobCertificatesStep ==
  BaseInv /\ PeerInv /\ CertificateInv /\ [Next]_vars => JobCertificates'
<1> SUFFICES ASSUME BaseInv, PeerInv, CertificateInv, [Next]_vars
             PROVE  \A q \in Procs : JobCertificatesOf(q)'
  BY BaseStep, JoinCertificates DEF BaseInv
<1>0. Barring /\ \A q \in Procs : JobCertificatesOf(q)
  BY CrlStep, SplitCertificates DEF BaseInv, CertificateInv
<1>1. CASE Request
  BY <1>1, RequestCertificates
<1>2. CASE AllIdle'
  BY <1>2, IdleCertificates DEF AllIdle
<1>3. ASSUME NEW p \in Procs, Advance(p) PROVE \A q \in Procs : JobCertificatesOf(q)'
  <2>1. JobCertificatesOf(p)'
    BY <1>0, <1>3, AdvanceCertificates
  <2>2. \A q \in Procs \ {p} : job'[q].pc = "idle"
    BY <1>3 DEF Advance, Moved
  <2>3. QED BY <2>1, <2>2, IdleCertificates
<1>4. CASE job' = job /\ ((Environment /\ ~Reboot) \/ UNCHANGED vars
                            \/ \E p \in Procs : Resting(p))
  <2>1. db' = db /\ row' = row
    BY <1>4 DEF Environment, SwanRestart, Tick, Connect, Disconnect, NearExpiry,
       vars, ca, Resting, RevokeRow, TerminateSession, SyncRemove
  <2>2. ASSUME NEW q \in Procs PROVE JobCertificatesOf(q)'
    <3>1. \A c : IsTarget(q, c)' <=> IsTarget(q, c)
      BY <1>4, <2>1 DEF IsTarget, IsWg
    <3>2. job'[q] = job[q] /\ CertSlots(db') = CertSlots(db) /\ JobCertificatesOf(q)
      BY <1>0, <1>4, <2>1 DEF CertSlots
    <3>3. QED BY <1>0, <2>1, <3>1, <3>2 DEF JobCertificatesOf, Barring, Known
  <2>3. QED BY <2>2
<1>5. QED BY <1>1, <1>2, <1>3, <1>4, StepKinds

LEMMA CertificateInit == Init => CertificateInv
<1> SUFFICES ASSUME Init PROVE CertificateInv
  OBVIOUS
<1>1. CertSlots(db) = {} /\ \A s \in Slots : db.dev[s].type # "ikev2"
  BY DEF Init, EmptyDb, NoRecord, CertSlots
<1>2. IdentitiesAreOwned /\ HeldAreRecorded /\ RetiredCertificateIsBarred
  BY <1>1 DEF Init, IdentitiesAreOwned, HeldAreRecorded, RetiredCertificateIsBarred
<1>3. CrlGrows /\ FolderHoldsOwn
  BY DEF Init, CrlGrows, FolderHoldsOwn
<1>4. JobCertificates
  BY DEF Init, JobCertificates, NoJob, Signing
<1>5. QED BY <1>2, <1>3, <1>4 DEF CertificateInv

LEMMA CertificateHolds == Spec => [](BaseInv /\ PeerInv /\ CertificateInv)
<1>1. BaseInv /\ PeerInv /\ CertificateInv /\ [Next]_vars => CertificateInv'
  <2>1. BaseInv /\ CertificateInv /\ [Next]_vars => CrlGrows'
    BY CrlStep DEF BaseInv, CertificateInv
  <2>2. QED BY <2>1, FolderStep, CertificateFactsStep, JobCertificatesStep
            DEF CertificateInv, CertificateFacts
<1>2. QED BY CertificateInit, PeerHolds, <1>1, PTL DEF Spec

(* A retired certificate device cannot come back: every generation of its   *)
(* certificate is in the CRL strongSwan enforces and has no session, over   *)
(* renewals, repeated revocations, restarts of the daemon and reboots.      *)
THEOREM IssuerRetiredCertificateIsBarred == Spec => []RetiredCertificateIsBarred
<1>1. CertificateInv => RetiredCertificateIsBarred
  BY DEF CertificateInv
<1>2. QED BY <1>1, CertificateHolds, PTL

(* Nothing works in the network that accounts.json does not know: neither a *)
(* peer of the interface nor a certificate that reached a client, wherever  *)
(* an enrollment stopped ("Save before kernel mutation").                   *)
THEOREM IssuerAccessIsRecorded == Spec => []AccessIsRecorded
<1>1. PeerInv /\ CertificateInv => AccessIsRecorded
  BY DEF PeerInv, PeerFacts, PeersAreRecorded, CertificateInv, HeldAreRecorded,
     AccessIsRecorded, WgSlots, CertSlots
<1>2. QED BY <1>1, CertificateHolds, PTL
=============================================================================
