------------------------------- MODULE Issuer -------------------------------
(***************************************************************************)
(* The token issuer of the entry server: server/token_issuer.py and        *)
(* server/wireguard_backend.py.  One accounts.json holds every person and  *)
(* device.  Four processes change it, each under the flock accounts.lock:  *)
(* the root-only issuer socket, the public WireGuard socket, the           *)
(* sync-wireguard timer and the issue command.  Their operations have      *)
(* effects outside the file (WireGuard peers in the kernel, rows of the    *)
(* certificate index, the CRL, IKE sessions) and may stop at any step.     *)
(*                                                                         *)
(* A slot <<a, d>> is device d of account a.  Dates, names, addresses of   *)
(* the server and the text of replies are left out.                        *)
(***************************************************************************)
EXTENDS Integers, FiniteSets

CONSTANTS Accounts,     \* account identifiers the system may hand out
          Devices,      \* device identifiers clients present
          Keys,         \* public keys clients present (WireGuard or RSA)
          Identities,   \* names openssl signs: 'device-' + random hex
          Serials,      \* serial numbers of the certificate authority
          Addresses,    \* host numbers of 10.78.0.0/24 (2..254 in the code)
          DeviceLimit,  \* active devices of one account (12 in the code)
          MaxClock,     \* bound of the wall clock, in seconds
          MaxFaults,    \* bound of the failures, crashes and reboots
          None          \* no key, identity, serial, process or account

Procs == {"issuer", "portal", "timer", "command"}

ASSUME ConstantsAssumption ==
  /\ IsFiniteSet(Devices)
  /\ Addresses \subseteq Nat \ {0}
  /\ DeviceLimit \in Nat /\ MaxClock \in Nat /\ MaxFaults \in Nat
  /\ None \notin Keys /\ None \notin Identities /\ None \notin Serials
  /\ None \notin Accounts /\ None \notin Procs

VARIABLES
  db,       \* accounts.json
  lock,     \* the process that holds accounts.lock
  mem,      \* the copy of accounts.json a process works on
  job,      \* the operation each process is in
  peers,    \* peers of the interface evg-clients
  route,    \* allowed-ips of the interface: address -> peer
  row,      \* index.txt of the authority: serial -> its subject, if issued
  revoked,  \* the serials whose row has status R
  folder,   \* PKI/<identity>/cert.pem: the serial it holds
  expiring, \* serials with less than seven days left
  held,     \* serials whose certificate a client received
  crl,      \* the CRL on disk: time of issue and serials
  loaded,   \* the CRL strongSwan enforces
  sas,      \* serials with an established IKE session
  clock, faults

disk == <<db, row, revoked, folder, crl>>
wire == <<peers, route>>
ca   == <<row, revoked, folder, expiring>>
swan == <<loaded, sas>>
vars == <<db, lock, mem, job, wire, ca, held, crl, swan, clock, faults>>
-----------------------------------------------------------------------------
(* accounts.json.                                                          *)

Slots == Accounts \X Devices

Account == [exists: BOOLEAN, enabled: BOOLEAN, delete_pending: BOOLEAN,
            deleted: BOOLEAN, next: Nat]
Record  == [type: {"none", "ikev2", "wireguard"},
            id: Identities \cup {None}, key: Keys \cup {None},
            address: Addresses \cup {0}, number: Nat,
            disabled: BOOLEAN, revoke_pending: BOOLEAN, revoked: BOOLEAN,
            enroll_pending: BOOLEAN]
Database == [acct: [Accounts -> Account], dev: [Slots -> Record]]

SetRecord(v, s, r)  == [acct |-> v.acct, dev |-> [v.dev EXCEPT ![s] = r]]
SetAccount(v, a, r) == [acct |-> [v.acct EXCEPT ![a] = r], dev |-> v.dev]

NoAccount == [exists |-> FALSE, enabled |-> FALSE, delete_pending |-> FALSE,
              deleted |-> FALSE, next |-> 1]
NoRecord  == [type |-> "none", id |-> None, key |-> None, address |-> 0,
              number |-> 0, disabled |-> FALSE, revoke_pending |-> FALSE,
              revoked |-> FALSE, enroll_pending |-> FALSE]
EmptyDb   == [acct |-> [a \in Accounts |-> NoAccount],
              dev |-> [s \in Slots |-> NoRecord]]

\* authenticate: the token of a exists and still opens the account.
Live(v, a) == /\ v.acct[a].exists /\ v.acct[a].enabled
              /\ ~v.acct[a].deleted /\ ~v.acct[a].delete_pending

Known(v, s)   == v.dev[s].type # "none"
IsWg(v, s)    == v.dev[s].type = "wireguard"
Retired(v, s) == /\ v.dev[s].disabled /\ v.dev[s].revoked
                 /\ ~v.dev[s].revoke_pending

\* active_device_count: records and reserved names that are not retired.
ActiveDevices(v, a) ==
  {d \in Devices : /\ Known(v, <<a, d>>) \/ v.dev[<<a, d>>].number # 0
                   /\ ~Retired(v, <<a, d>>)}

MutantHasRoom(v, s) == \/ v.dev[s].number # 0  \* mutant: <= for <
                       \/ Cardinality(ActiveDevices(v, s[1])) <= DeviceLimit
\* The check of the device limit, made for devices without a name.
HasRoom(v, s) == \/ v.dev[s].number # 0
                 \/ Cardinality(ActiveDevices(v, s[1])) < DeviceLimit

\* reserve_device_name: the next number goes to a device without one.
Reserve(v, s) ==
  IF v.dev[s].number # 0 THEN v
  ELSE SetRecord(SetAccount(v, s[1], [v.acct[s[1]] EXCEPT !.next = @ + 1]),
                 s, [v.dev[s] EXCEPT !.number = v.acct[s[1]].next])

\* The states of one record: signed for, admitted as a peer, confirmed,
\* marked for revocation before the network is touched, and settled after.
Signed(r, i, k)   == [r EXCEPT !.type = "ikev2", !.id = i, !.key = k]
Pending(r)        == [r EXCEPT !.enroll_pending = TRUE]
Admitted(r, k, x) == Pending([r EXCEPT !.type = "wireguard", !.key = k,
                                       !.address = x])
Confirmed(r)      == [r EXCEPT !.enroll_pending = FALSE]
MutantFlagged(r)  == [r EXCEPT !.revoke_pending = TRUE]  \* mutant: not disabled
Flagged(r)        == [r EXCEPT !.disabled = TRUE, !.revoke_pending = TRUE]
Settled(r)        == [r EXCEPT !.revoke_pending = FALSE, !.revoked = TRUE]

Opened(r)  == [r EXCEPT !.exists = TRUE, !.enabled = TRUE]
Closing(r) == [r EXCEPT !.enabled = FALSE, !.delete_pending = TRUE]
Deleted(r) == [r EXCEPT !.deleted = TRUE, !.delete_pending = FALSE]

MutantFreeAddresses(v) == {x \in Addresses :  \* mutant: tombstones are ignored
  \A s \in Slots : IsWg(v, s) /\ ~Retired(v, s) => v.dev[s].address # x}
\* Tombstones keep their address; allocate_address takes the first free one.
FreeAddresses(v) == {x \in Addresses : \A s \in Slots :
                                         IsWg(v, s) => v.dev[s].address # x}
FirstFree(v, x) == /\ x \in FreeAddresses(v)
                   /\ \A y \in FreeAddresses(v) : x <= y

MutantWantedSlots(v) == {s \in Slots :  \* mutant: disabled is not looked at
  IsWg(v, s) /\ Live(v, s[1])}
\* sync: the peers the database wants.
WantedSlots(v) == {s \in Slots : /\ IsWg(v, s) /\ ~v.dev[s].disabled
                                 /\ Live(v, s[1])}
WantedKeys(v)  == {v.dev[s].key : s \in WantedSlots(v)}
-----------------------------------------------------------------------------
(* Operations in progress.  pc names the step the process does next.       *)

Labels == {"idle", "create", "name", "sign", "install", "record", "reply",
           "admit", "apply", "confirm", "flag", "peers", "certs", "crl", "load",
           "sessions", "settle", "sync"}
Job == [pc: Labels,
        acct: Accounts \cup {None},  \* the account to create or to delete
        slots: SUBSET Slots,         \* the devices the operation is about
        todo: SUBSET Slots,          \* those whose peer it still has to set
        id: Identities \cup {None}, serial: Serials \cup {None},
        key: Keys \cup {None}]

NoJob == [pc |-> "idle", acct |-> None, slots |-> {}, todo |-> {},
          id |-> None, serial |-> None, key |-> None]

At(p, label)   == job[p].pc = label
Goto(p, label) == job' = [job EXCEPT ![p].pc = label]

\* The identities whose certificates the job of p revokes.
Targets(p) == {mem[p].dev[s].id : s \in {t \in job[p].slots : ~IsWg(mem[p], t)}}

MutantBegin(p, j) == /\ lock' = p  \* mutant: the flock is not waited for
                     /\ mem' = [mem EXCEPT ![p] = db]
                     /\ job' = [job EXCEPT ![p] = j]
\* locked() and accounts(): wait for the flock, then read the file.
Begin(p, j) == /\ lock = None
               /\ lock' = p
               /\ mem' = [mem EXCEPT ![p] = db]
               /\ job' = [job EXCEPT ![p] = j]

\* write_json: the working copy replaces the file (fsync, rename, fsync).
Write(p, v) == /\ db' = v
               /\ mem' = [mem EXCEPT ![p] = v]

\* Leaving the with block, or the death of the process, frees the flock.
Release(p) == /\ lock' = None
              /\ mem' = [mem EXCEPT ![p] = EmptyDb]
              /\ job' = [job EXCEPT ![p] = NoJob]
-----------------------------------------------------------------------------
Init ==
  /\ db = EmptyDb
  /\ lock = None
  /\ mem = [p \in Procs |-> EmptyDb]
  /\ job = [p \in Procs |-> NoJob]
  /\ peers = {}
  /\ route = [x \in Addresses |-> None]
  /\ row = [c \in Serials |-> None]
  /\ revoked = {} /\ expiring = {} /\ held = {} /\ sas = {}
  /\ folder = [i \in Identities |-> None]
  /\ crl = [time |-> 0, serials |-> {}]
  /\ loaded = crl
  /\ clock = 1 /\ faults = 0

(* issue: a new account.                                                   *)
BeginIssue(a) ==
  /\ ~db.acct[a].exists
  /\ Begin("command", [NoJob EXCEPT !.pc = "create", !.acct = a])
  /\ UNCHANGED <<db, wire, ca, held, crl, swan, clock, faults>>

CreateAccount(p) ==
  /\ At(p, "create")
  /\ db' = SetAccount(mem[p], job[p].acct, Opened(NoAccount))
  /\ Release(p)
  /\ UNCHANGED <<wire, ca, held, crl, swan, clock, faults>>

(* device_info: reserve a number for a device, enrolled or not.            *)
BeginDeviceInfo(s) ==
  /\ Live(db, s[1]) /\ ~db.dev[s].disabled /\ HasRoom(db, s)
  /\ Begin("issuer", [NoJob EXCEPT !.pc = "name", !.slots = {s}])
  /\ UNCHANGED <<db, wire, ca, held, crl, swan, clock, faults>>

NameDevice(p) ==
  /\ At(p, "name")
  /\ \E s \in job[p].slots : db' = Reserve(mem[p], s)
  /\ Release(p)
  /\ UNCHANGED <<wire, ca, held, crl, swan, clock, faults>>

(* enroll: sign or reuse a certificate, record the device, answer.         *)
FreshIdentity(i) == /\ \A c \in Serials : row[c] # i
                    /\ \A s \in Slots : db.dev[s].id # i

BeginEnroll(s, k, i) ==
  /\ Live(db, s[1]) /\ ~db.dev[s].disabled
  /\ IF Known(db, s)
     THEN db.dev[s].type = "ikev2" /\ db.dev[s].key = k /\ db.dev[s].id = i
     ELSE HasRoom(db, s) /\ FreshIdentity(i)
  /\ Begin("issuer", [NoJob EXCEPT !.pc = "sign", !.slots = {s},
                                   !.id = i, !.key = k])
  /\ UNCHANGED <<db, wire, ca, held, crl, swan, clock, faults>>

Reusable(i) == folder[i] # None /\ folder[i] \notin expiring

ReuseCertificate(p) ==
  /\ At(p, "sign") /\ Reusable(job[p].id)
  /\ Goto(p, "record")
  /\ UNCHANGED <<db, lock, mem, wire, ca, held, crl, swan, clock, faults>>

SignCertificate(p) ==
  /\ At(p, "sign") /\ ~Reusable(job[p].id)
  /\ \E c \in Serials : /\ row[c] = None
                        /\ row' = [row EXCEPT ![c] = job[p].id]
                        /\ job' = [job EXCEPT ![p].pc = "install",
                                              ![p].serial = c]
  /\ UNCHANGED <<db, lock, mem, wire, revoked, folder, expiring, held, crl,
                 swan, clock, faults>>

\* The signed certificate replaces cert.pem.
InstallCertificate(p) ==
  /\ At(p, "install")
  /\ folder' = [folder EXCEPT ![job[p].id] = job[p].serial]
  /\ Goto(p, "record")
  /\ UNCHANGED <<db, lock, mem, wire, row, revoked, expiring, held, crl, swan,
                 clock, faults>>

MutantRecordCertificate(p) ==  \* mutant: the record is not saved
  /\ At(p, "record") /\ Goto(p, "reply")
  /\ UNCHANGED <<db, lock, mem, wire, ca, held, crl, swan, clock, faults>>
RecordCertificate(p) ==
  /\ At(p, "record")
  /\ \E s \in job[p].slots :
       Write(p, Reserve(SetRecord(mem[p], s, Signed(mem[p].dev[s], job[p].id,
                                                    job[p].key)), s))
  /\ Goto(p, "reply")
  /\ UNCHANGED <<lock, wire, ca, held, crl, swan, clock, faults>>

\* The profile reaches the client, or is lost on the way.
ReplyCertificate(p) ==
  /\ At(p, "reply")
  /\ held' \in {held, held \cup {folder[job[p].id]}}
  /\ Release(p)
  /\ UNCHANGED <<db, wire, ca, crl, swan, clock, faults>>

(* enroll_wireguard: record the peer as pending, apply it, confirm it.     *)
KeyUsedElsewhere(v, s, k) == \E t \in Slots : /\ IsWg(v, t) /\ v.dev[t].key = k
                                              /\ t # s

MayEnrollWireguard(v, s, k) ==
  /\ Live(v, s[1])
  /\ IF Known(v, s)
     THEN ~v.dev[s].disabled /\ IsWg(v, s) /\ v.dev[s].key = k
     ELSE HasRoom(v, s) /\ FreeAddresses(v) # {}
  /\ ~KeyUsedElsewhere(v, s, k)

BeginEnrollWireguard(s, k) ==
  /\ MayEnrollWireguard(db, s, k)
  /\ Begin("portal", [NoJob EXCEPT !.pc = "admit", !.slots = {s}, !.key = k])
  /\ UNCHANGED <<db, wire, ca, held, crl, swan, clock, faults>>

\* A retry keeps its record, a new device takes the first free address.
MutantAdmissions(v, s, k) ==  \* mutant: a retry takes another address
  {Admitted(v.dev[s], k, x) : x \in FreeAddresses(v)}
Admissions(v, s, k) ==
  IF Known(v, s) THEN {Pending(v.dev[s])}
  ELSE {Admitted(v.dev[s], k, x) : x \in {y \in Addresses : FirstFree(v, y)}}

MutantAdmitPeer(p) ==  \* mutant: the first write_json is missing
  /\ At(p, "admit")
  /\ \E s \in job[p].slots : \E r \in Admissions(mem[p], s, job[p].key) :
       mem' = [mem EXCEPT ![p] = Reserve(SetRecord(mem[p], s, r), s)]
  /\ Goto(p, "apply")
  /\ UNCHANGED <<db, lock, wire, ca, held, crl, swan, clock, faults>>
AdmitPeer(p) ==
  /\ At(p, "admit")
  /\ \E s \in job[p].slots : \E r \in Admissions(mem[p], s, job[p].key) :
       Write(p, Reserve(SetRecord(mem[p], s, r), s))
  /\ Goto(p, "apply")
  /\ UNCHANGED <<lock, wire, ca, held, crl, swan, clock, faults>>

MutantSetPeer(k, x) == peers' = peers \cup {k} /\ UNCHANGED route  \* mutant: no allowed-ips
\* wg set peer k allowed-ips x: the kernel moves x to k and k to x.
SetPeer(k, x) ==
  /\ peers' = peers \cup {k}
  /\ route' = [y \in Addresses |-> IF y = x THEN k
                                   ELSE IF route[y] = k THEN None ELSE route[y]]
DropPeer(k) ==
  /\ peers' = peers \ {k}
  /\ route' = [y \in Addresses |-> IF route[y] = k THEN None ELSE route[y]]

ApplyPeer(p) ==
  /\ At(p, "apply")
  /\ \E s \in job[p].slots : SetPeer(mem[p].dev[s].key, mem[p].dev[s].address)
  /\ Goto(p, "confirm")
  /\ UNCHANGED <<db, lock, mem, ca, held, crl, swan, clock, faults>>

ConfirmPeer(p) ==
  /\ At(p, "confirm")
  /\ \E s \in job[p].slots :
       db' = SetRecord(mem[p], s, Confirmed(mem[p].dev[s]))
  /\ Release(p)
  /\ UNCHANGED <<wire, ca, held, crl, swan, clock, faults>>

\* The records of job j, and the account if it deletes one, all at once.
FlagAll(v, j) ==
  [acct |-> [a \in Accounts |-> IF a = j.acct THEN Closing(v.acct[a]) ELSE v.acct[a]],
   dev |-> [s \in Slots |-> IF s \in j.slots THEN Flagged(v.dev[s]) ELSE v.dev[s]]]
SettleAll(v, j) ==
  [acct |-> [a \in Accounts |-> IF a = j.acct THEN Deleted(v.acct[a]) ELSE v.acct[a]],
   dev |-> [s \in Slots |-> IF s \in j.slots THEN Settled(v.dev[s]) ELSE v.dev[s]]]

(* revoke_device and delete_account: mark the records, remove the peers,   *)
(* revoke every certificate, publish and load the CRL, end the sessions,   *)
(* and only then settle the records.                                       *)
BeginRevoke(S, a) ==
  /\ Begin("issuer", [NoJob EXCEPT !.pc = "flag", !.acct = a, !.slots = S,
                                   !.todo = {s \in S : IsWg(db, s)}])
  /\ UNCHANGED <<db, wire, ca, held, crl, swan, clock, faults>>

BeginRevokeDevice(s) ==
  /\ LET account == db.acct[s[1]] IN
       account.exists /\ ~account.deleted /\ ~account.delete_pending
  /\ Known(db, s)
  /\ db.dev[s].revoked => db.dev[s].revoke_pending
  /\ BeginRevoke({s}, None)

BeginDeleteAccount(a) ==
  /\ db.acct[a].exists /\ ~db.acct[a].deleted
  /\ BeginRevoke({s \in {a} \X Devices : Known(db, s)}, a)

FlagRecords(p) ==
  /\ At(p, "flag")
  /\ Write(p, FlagAll(mem[p], job[p]))
  /\ Goto(p, "peers")
  /\ UNCHANGED <<lock, wire, ca, held, crl, swan, clock, faults>>

RemovePeer(p) ==
  /\ At(p, "peers")
  /\ \E s \in job[p].todo :
       /\ DropPeer(mem[p].dev[s].key)
       /\ job' = [job EXCEPT ![p].todo = @ \ {s}]
  /\ UNCHANGED <<db, lock, mem, ca, held, crl, swan, clock, faults>>

MutantPeersRemoved(p) ==  \* mutant: a peer may be left behind
  /\ At(p, "peers")
  /\ Goto(p, IF Targets(p) = {} THEN "settle" ELSE "certs")
  /\ UNCHANGED <<db, lock, mem, wire, ca, held, crl, swan, clock, faults>>
PeersRemoved(p) ==
  /\ At(p, "peers") /\ job[p].todo = {}
  /\ Goto(p, IF Targets(p) = {} THEN "settle" ELSE "certs")
  /\ UNCHANGED <<db, lock, mem, wire, ca, held, crl, swan, clock, faults>>

RevokeRow(p) ==
  /\ At(p, "certs")
  /\ \E c \in Serials \ revoked : /\ row[c] \in Targets(p)
                                  /\ revoked' = revoked \cup {c}
  /\ UNCHANGED <<db, lock, mem, job, wire, row, folder, expiring, held, crl,
                 swan, clock, faults>>

\* A target without any row is the error missing_certificate_history.
RowsRevoked(p) ==
  /\ At(p, "certs")
  /\ \A c \in Serials : row[c] \in Targets(p) => c \in revoked
  /\ \A i \in Targets(p) : \E c \in Serials : row[c] = i
  /\ Goto(p, "crl")
  /\ UNCHANGED <<db, lock, mem, wire, ca, held, crl, swan, clock, faults>>

MutantPublishCrl(p) ==  \* mutant: any CRL will do, even one of this second
  /\ At(p, "crl")
  /\ crl' = [time |-> clock, serials |-> revoked]
  /\ Goto(p, "load")
  /\ UNCHANGED <<db, lock, mem, wire, ca, held, swan, clock, faults>>
\* gencrl is repeated until its second is newer than the published CRL's ...
PublishCrl(p) ==
  /\ At(p, "crl") /\ clock > crl.time
  /\ crl' = [time |-> clock, serials |-> revoked]
  /\ Goto(p, "load")
  /\ UNCHANGED <<db, lock, mem, wire, ca, held, swan, clock, faults>>

\* ... and after three tries the operation ends with crl_clock_not_advanced.
GiveUpCrl(p) ==
  /\ At(p, "crl") /\ clock <= crl.time
  /\ Release(p)
  /\ UNCHANGED <<db, wire, ca, held, crl, swan, clock, faults>>

\* swanctl --load-creds: strongSwan keeps the CRL it has unless it is newer.
LoadCreds(p) ==
  /\ At(p, "load")
  /\ loaded' = IF crl.time > loaded.time THEN crl ELSE loaded
  /\ Goto(p, "sessions")
  /\ UNCHANGED <<db, lock, mem, wire, ca, held, crl, sas, clock, faults>>

TerminateSession(p) ==
  /\ At(p, "sessions")
  /\ \E c \in sas : row[c] \in Targets(p) /\ sas' = sas \ {c}
  /\ UNCHANGED <<db, lock, mem, job, wire, ca, held, crl, loaded, clock, faults>>

SessionsGone(p) ==
  /\ At(p, "sessions")
  /\ \A c \in sas : row[c] \notin Targets(p)
  /\ Goto(p, "settle")
  /\ UNCHANGED <<db, lock, mem, wire, ca, held, crl, swan, clock, faults>>

SettleRecords(p) ==
  /\ At(p, "settle")
  /\ db' = SettleAll(mem[p], job[p])
  /\ Release(p)
  /\ UNCHANGED <<wire, ca, held, crl, swan, clock, faults>>

(* sync-wireguard: remove the peers that are not wanted, apply the others. *)
\* A key or an address wanted twice raises before any peer is touched.
BeginSync ==
  /\ \A s, t \in WantedSlots(db) : s # t =>
       /\ db.dev[s].key # db.dev[t].key
       /\ db.dev[s].address # db.dev[t].address
  /\ Begin("timer", [NoJob EXCEPT !.pc = "sync", !.todo = WantedSlots(db)])
  /\ UNCHANGED <<db, wire, ca, held, crl, swan, clock, faults>>

SyncRemove(p) ==
  /\ At(p, "sync")
  /\ \E k \in peers \ WantedKeys(mem[p]) : DropPeer(k)
  /\ UNCHANGED <<db, lock, mem, job, ca, held, crl, swan, clock, faults>>

SyncApply(p) ==
  /\ At(p, "sync") /\ peers \subseteq WantedKeys(mem[p])
  /\ \E s \in job[p].todo :
       /\ SetPeer(mem[p].dev[s].key, mem[p].dev[s].address)
       /\ job' = [job EXCEPT ![p].todo = @ \ {s}]
  /\ UNCHANGED <<db, lock, mem, ca, held, crl, swan, clock, faults>>

SyncDone(p) ==
  /\ At(p, "sync") /\ peers \subseteq WantedKeys(mem[p]) /\ job[p].todo = {}
  /\ Release(p)
  /\ UNCHANGED <<db, wire, ca, held, crl, swan, clock, faults>>

(* A command fails or times out, or the process dies: the working copy is  *)
(* lost, what was written stays, the flock is free.                        *)
Fail(p) ==
  /\ ~At(p, "idle") /\ faults < MaxFaults
  /\ faults' = faults + 1
  /\ Release(p)
  /\ UNCHANGED <<db, wire, ca, held, crl, swan, clock>>

(* The surroundings: the host, strongSwan, the clients and the clock.      *)
Reboot ==
  /\ faults < MaxFaults
  /\ faults' = faults + 1
  /\ lock' = None /\ job' = [p \in Procs |-> NoJob]
  /\ mem' = [p \in Procs |-> EmptyDb]
  /\ peers' = {} /\ route' = [x \in Addresses |-> None]
  /\ sas' = {} /\ loaded' = crl
  /\ UNCHANGED <<db, ca, held, crl, clock>>

\* IKE authentication succeeds with a certificate the loaded CRL allows.
Connect(c) ==
  /\ c \in held \ loaded.serials
  /\ sas' = sas \cup {c}
  /\ UNCHANGED <<db, lock, mem, job, wire, ca, held, crl, loaded, clock, faults>>

SwanRestart ==
  /\ faults < MaxFaults
  /\ faults' = faults + 1
  /\ sas' = {} /\ loaded' = crl
  /\ UNCHANGED <<db, lock, mem, job, wire, ca, held, crl, clock>>

Disconnect(c) ==
  /\ c \in sas
  /\ sas' = sas \ {c}
  /\ UNCHANGED <<db, lock, mem, job, wire, ca, held, crl, loaded, clock, faults>>

NearExpiry(c) ==
  /\ row[c] # None
  /\ expiring' = expiring \cup {c}
  /\ UNCHANGED <<db, lock, mem, job, wire, row, revoked, folder, held, crl, swan,
                 clock, faults>>

Tick ==
  /\ clock < MaxClock
  /\ clock' = clock + 1
  /\ UNCHANGED <<db, lock, mem, job, wire, ca, held, crl, swan, faults>>
-----------------------------------------------------------------------------
Request ==
  \/ \E a \in Accounts : BeginIssue(a) \/ BeginDeleteAccount(a)
  \/ \E s \in Slots : BeginDeviceInfo(s) \/ BeginRevokeDevice(s)
  \/ \E s \in Slots, k \in Keys, i \in Identities : BeginEnroll(s, k, i)
  \/ \E s \in Slots, k \in Keys : BeginEnrollWireguard(s, k)
  \/ BeginSync

Enrollment(p) ==
  \/ CreateAccount(p) \/ NameDevice(p)
  \/ ReuseCertificate(p) \/ SignCertificate(p) \/ InstallCertificate(p)
  \/ RecordCertificate(p) \/ ReplyCertificate(p)
  \/ AdmitPeer(p) \/ ApplyPeer(p) \/ ConfirmPeer(p)

Revocation(p) ==
  \/ FlagRecords(p) \/ RemovePeer(p) \/ PeersRemoved(p)
  \/ RevokeRow(p) \/ RowsRevoked(p) \/ PublishCrl(p) \/ GiveUpCrl(p)
  \/ LoadCreds(p) \/ TerminateSession(p) \/ SessionsGone(p) \/ SettleRecords(p)

Sync(p) == SyncRemove(p) \/ SyncApply(p) \/ SyncDone(p)

Environment ==
  \/ Reboot \/ SwanRestart \/ Tick
  \/ \E c \in Serials : Connect(c) \/ Disconnect(c) \/ NearExpiry(c)

Next ==
  \/ Request \/ Environment
  \/ \E p \in Procs : Enrollment(p) \/ Revocation(p) \/ Sync(p) \/ Fail(p)

Spec == Init /\ [][Next]_vars

\* The processes keep running, and the timer's wait for the flock ends: the
\* kernel serves waiting lockers in order.  Clients and operators owe nothing.
Fairness ==
  /\ \A p \in Procs : WF_vars(Enrollment(p) \/ Revocation(p) \/ Sync(p))
  /\ SF_vars(BeginSync)

FairSpec == Spec /\ Fairness
-----------------------------------------------------------------------------
(* Properties.                                                             *)

CrlType == [time: Nat, serials: SUBSET Serials]

TypeOK ==
  /\ db \in Database
  /\ lock \in Procs \cup {None}
  /\ mem \in [Procs -> Database]
  /\ job \in [Procs -> Job]
  /\ peers \subseteq Keys /\ route \in [Addresses -> Keys \cup {None}]
  /\ row \in [Serials -> Identities \cup {None}]
  /\ folder \in [Identities -> Serials \cup {None}]
  /\ revoked \subseteq Serials /\ expiring \subseteq Serials
  /\ held \subseteq Serials /\ sas \subseteq Serials
  /\ crl \in CrlType /\ loaded \in CrlType
  /\ clock \in Nat /\ faults \in Nat

(* A revocation that was reported complete is complete in the network: the *)
(* key of a retired WireGuard device is not a peer of the interface,       *)
(* whatever failed, restarted or was retried on the way (revoke_records    *)
(* before the second write_json of delete_account and revoke_device).      *)
RetiredPeerIsGone ==
  \A s \in Slots : IsWg(db, s) /\ Retired(db, s) => db.dev[s].key \notin peers

(* ... and every certificate generation of a retired IKEv2 device is in the *)
(* CRL strongSwan enforces, and none has a session: it cannot come back.   *)
RetiredCertificateIsBarred ==
  \A s \in Slots, c \in Serials :
    db.dev[s].type = "ikev2" /\ Retired(db, s) /\ row[c] = db.dev[s].id =>
      c \in loaded.serials /\ c \notin sas

(* Nothing works in the network that an administrator could not revoke: a  *)
(* peer of the interface has its record in accounts.json ("Save before     *)
(* kernel mutation"), and so has every certificate a client received.      *)
AccessIsRecorded ==
  /\ \A k \in peers : \E s \in Slots : IsWg(db, s) /\ db.dev[s].key = k
  /\ \A c \in held : \E s \in Slots : db.dev[s].type = "ikev2"
                                       /\ db.dev[s].id = row[c]

(* Traffic of an address goes only to the device that owns it, tombstones  *)
(* included: a retired device's address never reaches another one.         *)
RouteFollowsRecord ==
  \A x \in Addresses : route[x] # None =>
    \E s \in Slots : /\ IsWg(db, s) /\ db.dev[s].key = route[x]
                     /\ \A t \in Slots : IsWg(db, t) =>
                          (db.dev[t].address = x <=> t = s)

(* An account that still authenticates has at most DeviceLimit active      *)
(* devices and reservations, over both sockets, device_info and retries.   *)
DeviceLimitHolds ==
  \A a \in Accounts : Live(db, a) =>
    Cardinality(ActiveDevices(db, a)) <= DeviceLimit

(* A deleted account is entirely retired, one under deletion entirely      *)
(* disabled, and neither opens with its token.                             *)
DeletionCoversAccount ==
  \A a \in Accounts : LET account == db.acct[a] IN
    /\ account.delete_pending \/ account.deleted => ~account.enabled
    /\ \A d \in Devices : Known(db, <<a, d>>) =>
         /\ account.delete_pending => db.dev[<<a, d>>].disabled
         /\ account.deleted => Retired(db, <<a, d>>)

(* Disabling is final: no write of any process turns a disabled record     *)
(* back on, loses it, or gives its key, address or identity away.          *)
DisabledIsFinal ==
  [][\A s \in Slots : db.dev[s].disabled =>
       /\ db'.dev[s].disabled
       /\ db'.dev[s].key = db.dev[s].key
       /\ db'.dev[s].id = db.dev[s].id
       /\ db'.dev[s].address = db.dev[s].address]_vars

(* A device keeps its key and address from its first enrollment on: a      *)
(* retry completes the enrollment it finds and allocates nothing.          *)
EnrollmentIsIdempotent ==
  [][\A s \in Slots : Known(db, s) =>
       /\ db'.dev[s].type = db.dev[s].type
       /\ db'.dev[s].key = db.dev[s].key
       /\ db'.dev[s].address = db.dev[s].address
       /\ db'.dev[s].number = db.dev[s].number]_vars

(* Once failures stop, the timer removes the peer of a disabled record     *)
(* even if nobody retries the revocation that failed.                      *)
DisabledPeerGoes ==
  \A s \in Slots :
    IsWg(db, s) /\ db.dev[s].disabled ~> db.dev[s].key \notin peers

(* ... and after a reboot every wanted peer comes back at its own address. *)
WantedPeerReturns ==
  \A s \in Slots :
    s \in WantedSlots(db) ~>
      \/ s \notin WantedSlots(db)
      \/ db.dev[s].key \in peers /\ route[db.dev[s].address] = db.dev[s].key
=============================================================================
