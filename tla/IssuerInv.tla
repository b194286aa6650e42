------------------------------ MODULE IssuerInv ------------------------------
(***************************************************************************)
(* The inductive invariant of Issuer, in five layers.  TLC checks it on   *)
(* the small instances; IssuerProofs proves it for every instance.         *)
(***************************************************************************)
EXTENDS Issuer

WgSlots(v)   == {s \in Slots : IsWg(v, s)}
CertSlots(v) == {s \in Slots : v.dev[s].type = "ikev2"}

Signing   == {"sign", "install", "record", "reply"}
Admitting == {"apply", "confirm"}
CertSteps == {"certs", "crl", "load", "sessions"}
Revoking  == {"peers", "settle"} \cup CertSteps

(* One process at a time is inside locked(), and its working copy is the   *)
(* file: no write can be lost to a stale copy.                             *)
Locking == \A p \in Procs : job[p].pc # "idle" => lock = p /\ mem[p] = db

(* Layer 1: the data each step relies on is there when it gets to it.      *)
RecordShape ==
  \A s \in Slots :
    /\ IsWg(db, s) => db.dev[s].key \in Keys /\ db.dev[s].address \in Addresses
    /\ db.dev[s].type = "ikev2" => db.dev[s].id \in Identities
JobShape ==
  \A p \in Procs : LET j == job[p] IN
    /\ j.pc \in Signing \cup Admitting \cup {"admit"} =>
         \E s \in Slots : j.slots = {s}
    /\ j.pc \in Signing => j.id \in Identities
    /\ j.pc = "install" => j.serial \in Serials /\ row[j.serial] = j.id
    /\ j.pc \in {"record", "reply"} => folder[j.id] \in Serials
    /\ j.pc = "admit" => /\ j.key \in Keys
                         /\ \A s \in j.slots : Known(db, s) => IsWg(db, s)
    /\ j.pc \in Admitting => j.slots \subseteq WgSlots(db)
    /\ j.pc \in {"flag", "peers", "sync"} => j.todo \subseteq WgSlots(db)
BaseInv == TypeOK /\ Locking /\ RecordShape /\ JobShape

(* Layer 2: the peers of the interface.  A record is disabled only once it  *)
(* exists, and the process that works on it knows where its peer stands.    *)
KeysAreOwned == \A s, t \in WgSlots(db) :
                  db.dev[s].key = db.dev[t].key => s = t
PeersAreRecorded == \A k \in peers : \E s \in WgSlots(db) : db.dev[s].key = k
FreshIsEnabled == \A s \in Slots : db.dev[s].disabled => Known(db, s)
PeerFacts == /\ KeysAreOwned /\ PeersAreRecorded
             /\ FreshIsEnabled /\ RetiredPeerIsGone
JobPeers ==
  \A p \in Procs : LET j == job[p] IN
    /\ j.pc = "admit" => \A s \in j.slots : MayEnrollWireguard(db, s, j.key)
    /\ j.pc \in Admitting \cup Signing => \A s \in j.slots : ~db.dev[s].disabled
    /\ j.pc \in Signing => \A s \in j.slots : ~IsWg(db, s)
    /\ j.pc = "sync" => j.todo \subseteq WantedSlots(db)
    /\ j.pc = "flag" => /\ \A s \in j.slots : Known(db, s)
                        /\ j.todo = j.slots \cap WgSlots(db)
    /\ j.pc \in Revoking => \A s \in j.slots :
         /\ db.dev[s].disabled /\ db.dev[s].revoke_pending
         /\ IsWg(db, s) => \/ db.dev[s].key \notin peers
                           \/ j.pc = "peers" /\ s \in j.todo
PeerInv == PeerFacts /\ JobPeers

(* Layer 3: the addresses.  A route leads to the one record that owns it.   *)
AddressesAreOwned == \A s, t \in WgSlots(db) :
                       db.dev[s].address = db.dev[t].address => s = t
RoutesAreRecorded == \A x \in Addresses : route[x] # None =>
  \E s \in WgSlots(db) : db.dev[s].key = route[x] /\ db.dev[s].address = x
RouteInv == AddressesAreOwned /\ RoutesAreRecorded

(* Layer 4: the accounts.  What authenticate and the device limit allowed  *)
(* when an operation began is still so when it writes.                     *)
EnrolledAreNumbered == \A s \in Slots : Known(db, s) => db.dev[s].number # 0
NumbersStartAtOne   == \A a \in Accounts : db.acct[a].next # 0
NumbersHaveAccounts == \A s \in Slots :
                         db.dev[s].number # 0 => db.acct[s[1]].exists
AccountFacts == /\ EnrolledAreNumbered /\ NumbersStartAtOne
                /\ NumbersHaveAccounts /\ DeletionCoversAccount
                /\ DeviceLimitHolds

KnownSlotsOf(a) == {s \in Slots : s[1] = a /\ Known(db, s)}
JobAccounts ==
  \A p \in Procs : LET j == job[p] IN
    /\ j.pc = "create" => j.acct \in Accounts /\ ~db.acct[j.acct].exists
    /\ j.pc \in Signing \cup {"name", "admit"} => \A s \in j.slots :
         Live(db, s[1]) /\ HasRoom(db, s) /\ ~db.dev[s].disabled
    /\ j.pc \in Signing => \A s \in j.slots : Known(db, s) => db.dev[s].key = j.key
    /\ j.pc = "flag" /\ j.acct = None => \A s \in j.slots :
         ~Retired(db, s) /\ ~db.acct[s[1]].deleted
    /\ j.pc \in Revoking \cup {"flag"} /\ j.acct # None =>
         /\ ~db.acct[j.acct].deleted /\ j.slots = KnownSlotsOf(j.acct)
         /\ j.pc # "flag" => db.acct[j.acct].delete_pending
                             /\ ~db.acct[j.acct].enabled
AccountInv == AccountFacts /\ JobAccounts

(* Layer 5: certificates, the CRL and the sessions.                        *)
IdentitiesAreOwned ==
  \A s, t \in CertSlots(db) : db.dev[s].id = db.dev[t].id => s = t
HeldAreRecorded ==
  \A c \in held : \E s \in CertSlots(db) : db.dev[s].id = row[c]
CrlGrows ==
  /\ loaded.serials \subseteq crl.serials /\ crl.serials \subseteq revoked
  /\ loaded.time <= crl.time /\ (loaded = crl \/ loaded.time < crl.time)
FolderHoldsOwn ==
  \A i \in Identities : folder[i] # None => row[folder[i]] = i
JobCertificates ==
  \A p \in Procs : LET j == job[p] IN
    /\ j.pc \in Signing => \A s \in j.slots, t \in CertSlots(db) :
         db.dev[t].id = j.id <=> t = s /\ Known(db, s)
    /\ j.pc = "reply" => \E s \in CertSlots(db) : db.dev[s].id = j.id
    /\ j.pc \in {"crl", "load", "sessions"} => \A c \in Serials :
         row[c] \in Targets(p) =>
           /\ c \in revoked
           /\ j.pc \in {"load", "sessions"} => c \in crl.serials
           /\ j.pc = "sessions" => c \in loaded.serials
    /\ j.pc = "settle" => \A c \in Serials :
         row[c] \in Targets(p) => c \in loaded.serials /\ c \notin sas
CertificateInv ==
  /\ IdentitiesAreOwned /\ HeldAreRecorded /\ CrlGrows
  /\ FolderHoldsOwn /\ RetiredCertificateIsBarred /\ JobCertificates
=============================================================================
