----------------------------- MODULE Revocation -----------------------------
(***************************************************************************)
(* Delivery of revocations to the direct ingress in Estonia                *)
(* (scripts/direct-ingress): revocation-sync.py on the issuer's host takes *)
(* snapshots, revocation-import.py, one process per SSH connection, files  *)
(* them, and revocation-watch.py applies them to strongSwan and to the     *)
(* nft gate.  Nobody holds a lock: the three meet in three files.          *)
(*                                                                         *)
(* A time stamp is kept as its age.  A tick of the clock stands for the    *)
(* ten seconds that sync sleeps between two snapshots, AcceptAge for the   *)
(* 60 seconds in which one is accepted, FreshAge for the 24 hours in which *)
(* the stored one is used; beyond it ages are not told apart.              *)
(***************************************************************************)
EXTENDS Naturals, FiniteSets

CONSTANTS Devices,    \* IKEv2 identities
          Importers,  \* import processes that can exist at a time
          AcceptAge,  \* an older snapshot is not accepted
          FreshAge,   \* the stored snapshot is stale at this age
          MaxFaults,  \* bound of failed commands and of processes that die
          Nothing     \* no file, no snapshot, no process

ASSUME RevocationAssumption ==
  /\ AcceptAge \in Nat /\ FreshAge \in Nat /\ AcceptAge < FreshAge
  /\ MaxFaults \in Nat /\ Nothing \notin Importers
  /\ \A D, C \in SUBSET Devices : Nothing # D /\ \A a \in 0..FreshAge :
       Nothing # [age |-> a, disabled |-> D, crl |-> C]

VARIABLES
  disabled,  \* accounts.json: the identities that are disabled
  listed,    \* the issuer's CRL
  sync,      \* revocation-sync: its step, its snapshot, the importer it waits for
  imp,       \* the importers: step and snapshot
  tmp,       \* devices.new, shared by the importers
  pem,       \* devices.pem
  stored,    \* revocations.json, and (history) the CRL that was sent with it
  watch,     \* revocation-watch: its step and what it read
  last, opened,  \* its variables that outlive a pass
  loaded,    \* the CRL strongSwan works with
  sessions,  \* the devices with an IKE SA
  permit,    \* the gate of the nft table is open
  torn,      \* history: two imports have overlapped, or one died half way
  faults

source == <<disabled, listed>>
files  == <<tmp, pem, stored>>
swan   == <<loaded, sessions>>
vars == <<source, sync, imp, files, watch, last, opened, swan, permit,
          torn, faults>>

Ages == 0..FreshAge
Snapshots == [age: Ages, disabled: SUBSET Devices, crl: SUBSET Devices]
Lists(s) == [disabled |-> s.disabled, crl |-> s.crl]
Older(s) == IF s = Nothing THEN Nothing
            ELSE [s EXCEPT !.age = IF @ < FreshAge THEN @ + 1 ELSE @]

SyncAt(step, body, via) == [step |-> step, body |-> body, via |-> via]
Idle == SyncAt("idle", Nothing, Nothing)
Sleep == SyncAt("idle", [age |-> sync.body.age, disabled |-> {}, crl |-> {}], Nothing)
Free == [step |-> "free", body |-> Nothing]
WatchAt(step, state, fresh, digest) ==
  [step |-> step, state |-> state, fresh |-> fresh, digest |-> digest]
Asleep == WatchAt("sleep", Nothing, FALSE, Nothing)

Init ==
  /\ disabled = {} /\ listed = {} /\ sync = Idle
  /\ imp = [i \in Importers |-> Free]
  /\ tmp = Nothing /\ pem = {} /\ stored = Nothing
  /\ watch = Asleep /\ last = Nothing /\ opened = FALSE
  /\ loaded = {} /\ sessions = {} /\ permit = FALSE
  /\ torn = FALSE /\ faults = 0

Fault == faults < MaxFaults /\ faults' = faults + 1
-----------------------------------------------------------------------------
(* The issuer: disabled on disk first, in the CRL later.                   *)
Disable(d) ==
  /\ disabled' = disabled \cup {d}
  /\ UNCHANGED <<listed, sync, imp, files, watch, last, opened, swan, permit,
                 torn, faults>>

List(d) ==
  /\ d \in disabled
  /\ listed' = listed \cup {d}
  /\ UNCHANGED <<disabled, sync, imp, files, watch, last, opened, swan, permit,
                 torn, faults>>

(* sync and send_snapshot: the accounts, the time, then the CRL.           *)
ReadAccounts ==
  /\ sync.step = "idle" /\ (sync.body # Nothing => sync.body.age > 0)
  /\ sync' = SyncAt("crl", [age |-> 0, disabled |-> disabled, crl |-> {}], Nothing)
  /\ UNCHANGED <<source, imp, files, watch, last, opened, swan, permit,
                 torn, faults>>

ReadCrl ==
  /\ sync.step = "crl"
  /\ sync' = SyncAt("public", [age |-> sync.body.age, crl |-> listed,
                                disabled |-> sync.body.disabled], Nothing)
  /\ UNCHANGED <<source, imp, files, watch, last, opened, swan, permit,
                 torn, faults>>

\* ssh starts the forced command.
Send(i) ==
  /\ sync.step \in {"public", "inner"} /\ sync.via = Nothing
  /\ imp[i].step = "free"
  /\ imp' = [imp EXCEPT ![i] = [step |-> "sent", body |-> sync.body]]
  /\ sync' = [sync EXCEPT !.via = i]
  /\ UNCHANGED <<source, files, watch, last, opened, swan, permit, torn,
                 faults>>

Accepted ==
  /\ sync.via # Nothing /\ imp[sync.via].step = "accepted"
  /\ imp' = [imp EXCEPT ![sync.via] = Free]
  /\ sync' = Sleep
  /\ UNCHANGED <<source, files, watch, last, opened, swan, permit, torn,
                 faults>>

\* No connection, a rejection or 18 seconds without an answer: the other
\* route, then the next round.  The command goes on at the other end.
NotAccepted ==
  /\ sync.step \in {"public", "inner"}
  /\ sync' = IF sync.step = "public" THEN SyncAt("inner", sync.body, Nothing) ELSE Sleep
  /\ UNCHANGED <<source, imp, files, watch, last, opened, swan, permit,
                 torn, faults>>

(* revocation-import.py                                                    *)
At(i, step) == [imp EXCEPT ![i].step = step]
InProgress == {"checked", "written", "replaced"}

Acceptable(b) == b.age <= AcceptAge /\ (stored # Nothing => b.age <= stored.age)

Check(i) ==
  /\ imp[i].step = "sent"
  /\ imp' = IF Acceptable(imp[i].body) THEN At(i, "checked")
            ELSE [imp EXCEPT ![i] = Free]
  /\ torn' = (torn \/ /\ Acceptable(imp[i].body)
                      /\ \E j \in Importers : imp[j].step \in InProgress)
  /\ UNCHANGED <<source, sync, files, watch, last, opened, swan, permit, faults>>

WriteTmp(i) ==
  /\ imp[i].step = "checked"
  /\ tmp' = imp[i].body.crl
  /\ imp' = At(i, "written")
  /\ UNCHANGED <<source, sync, pem, stored, watch, last, opened, swan, permit,
                 torn, faults>>

MutantReplace(i) ==  \* mutant: the verified CRL is not moved to devices.pem
  /\ imp[i].step = "written"
  /\ imp' = At(i, "replaced") /\ tmp' = Nothing
  /\ UNCHANGED <<source, sync, pem, stored, watch, last, opened, swan, permit,
                 torn, faults>>
\* openssl verifies the file, which another importer may have taken away.
Replace(i) ==
  /\ imp[i].step = "written"
  /\ IF tmp = Nothing
     THEN imp' = [imp EXCEPT ![i] = Free] /\ UNCHANGED <<tmp, pem>>
     ELSE imp' = At(i, "replaced") /\ pem' = tmp /\ tmp' = Nothing
  /\ UNCHANGED <<source, sync, stored, watch, last, opened, swan, permit,
                 torn, faults>>

Publish(i) ==
  /\ imp[i].step = "replaced"
  /\ stored' = imp[i].body
  /\ imp' = [imp EXCEPT ![i] = IF sync.via = i THEN [Free EXCEPT !.step = "accepted"]
                                ELSE Free]
  /\ UNCHANGED <<source, sync, tmp, pem, watch, last, opened, swan, permit,
                 torn, faults>>

ImporterDies(i) ==
  /\ imp[i].step # "free" /\ Fault
  /\ imp' = [imp EXCEPT ![i] = Free]
  /\ torn' = (torn \/ imp[i].step \in InProgress)
  /\ UNCHANGED <<source, sync, files, watch, last, opened, swan, permit>>

Import(i) == Check(i) \/ WriteTmp(i) \/ Replace(i) \/ Publish(i)

(* revocation-watch.py, one pass every two seconds.                        *)
Flush == /\ permit' = FALSE /\ opened' = FALSE
         /\ watch' = Asleep

MutantReadStored ==  \* mutant: an old snapshot is used as long as there is none newer
  /\ watch.step = "sleep" /\ stored # Nothing
  /\ watch' = WatchAt("read", Lists(stored), TRUE, Nothing)
  /\ UNCHANGED <<source, sync, imp, files, last, swan, permit, opened,
                 torn, faults>>
ReadStored ==
  /\ watch.step = "sleep"
  /\ IF stored = Nothing THEN Flush
     ELSE /\ watch' = WatchAt("read", Lists(stored), stored.age < FreshAge, Nothing)
          /\ UNCHANGED <<permit, opened>>
  /\ UNCHANGED <<source, sync, imp, files, last, swan, torn, faults>>

MutantReadPem ==  \* mutant: the CRL is loaded once
  /\ watch.step = "read"
  /\ watch' = WatchAt(IF watch.fresh /\ last = Nothing THEN "load" ELSE "close",
                       watch.state, watch.fresh, pem)
  /\ UNCHANGED <<source, sync, imp, files, last, opened, swan, permit,
                 torn, faults>>
ReadPem ==
  /\ watch.step = "read"
  /\ watch' = WatchAt(IF watch.fresh /\ pem # last THEN "load" ELSE "close",
                       watch.state, watch.fresh, pem)
  /\ UNCHANGED <<source, sync, imp, files, last, opened, swan, permit,
                 torn, faults>>

LoadCreds ==
  /\ watch.step = "load"
  /\ loaded' = pem /\ last' = watch.digest
  /\ watch' = [watch EXCEPT !.step = "close"]
  /\ UNCHANGED <<source, sync, imp, files, opened, sessions, permit, torn,
                 faults>>

CloseSessions ==
  /\ watch.step = "close"
  /\ sessions' = IF watch.fresh THEN sessions \ watch.state.disabled ELSE {}
  /\ watch' = [watch EXCEPT !.step = "gate"]
  /\ UNCHANGED <<source, sync, imp, files, last, opened, loaded, permit,
                 torn, faults>>

Gate ==
  /\ watch.step = "gate"
  /\ IF watch.fresh # opened
     THEN permit' = watch.fresh /\ opened' = watch.fresh
     ELSE UNCHANGED <<permit, opened>>
  /\ watch' = Asleep
  /\ UNCHANGED <<source, sync, imp, files, last, swan, torn, faults>>

MutantPassFails ==  \* mutant: the gate is flushed and still thought open
  /\ watch.step # "sleep" /\ Fault
  /\ permit' = FALSE /\ watch' = Asleep
  /\ UNCHANGED <<source, sync, imp, files, last, opened, swan, torn>>
\* An exception anywhere in the pass.
PassFails ==
  /\ watch.step # "sleep" /\ Fault
  /\ Flush
  /\ UNCHANGED <<source, sync, imp, files, last, swan, torn>>

\* ExecStopPost flushes the gate; the unit starts again.
WatchDies ==
  /\ Fault
  /\ Flush /\ last' = Nothing
  /\ UNCHANGED <<source, sync, imp, files, swan, torn>>

Watch == ReadStored \/ ReadPem \/ LoadCreds \/ CloseSessions \/ Gate

(* The devices and the clock.                                              *)
Connect(d) ==
  /\ permit /\ d \notin loaded
  /\ sessions' = sessions \cup {d}
  /\ UNCHANGED <<source, sync, imp, files, watch, last, opened, loaded, permit,
                 torn, faults>>

Tick ==
  /\ stored' = Older(stored)
  /\ sync' = [sync EXCEPT !.body = Older(@)]
  /\ imp' = [i \in Importers |-> [imp[i] EXCEPT !.body = Older(@)]]
  /\ UNCHANGED <<source, tmp, pem, watch, last, opened, swan, permit,
                 torn, faults>>
-----------------------------------------------------------------------------
Next ==
  \/ \E d \in Devices : Disable(d) \/ List(d) \/ Connect(d)
  \/ ReadAccounts \/ ReadCrl \/ Accepted \/ NotAccepted
  \/ \E i \in Importers : Send(i) \/ Import(i) \/ ImporterDies(i)
  \/ Watch \/ PassFails \/ WatchDies \/ Tick

Spec == Init /\ [][Next]_vars

\* The sink's processes and its clock go on; nothing is asked of the network.
FairSpec == Spec /\ WF_vars(Watch) /\ WF_vars(Tick)
                 /\ \A i \in Importers : WF_vars(Import(i))
-----------------------------------------------------------------------------
(* Properties.                                                             *)

TypeOK ==
  /\ disabled \subseteq Devices /\ listed \subseteq Devices
  /\ sync \in [step: {"idle", "crl", "public", "inner"},
               body: Snapshots \cup {Nothing}, via: Importers \cup {Nothing}]
  /\ imp \in [Importers -> [step: {"free", "sent", "accepted"} \cup InProgress,
                            body: Snapshots \cup {Nothing}]]
  /\ tmp \in (SUBSET Devices) \cup {Nothing} /\ pem \subseteq Devices
  /\ stored \in Snapshots \cup {Nothing}
  /\ watch \in [step: {"sleep", "read", "load", "close", "gate"},
                state: [disabled: SUBSET Devices, crl: SUBSET Devices]
                         \cup {Nothing}, fresh: BOOLEAN,
                digest: (SUBSET Devices) \cup {Nothing}]
  /\ last \in (SUBSET Devices) \cup {Nothing}
  /\ opened \in BOOLEAN /\ permit \in BOOLEAN /\ torn \in BOOLEAN
  /\ loaded \subseteq Devices /\ sessions \subseteq Devices /\ faults \in Nat

(* Two files, one snapshot: a list of disabled identities is never stored  *)
(* before the CRL that came with it, unless two imports overlapped or one  *)
(* died half way: then an older CRL can end up under a newer list.         *)
SnapshotIsWhole ==
  ~torn /\ stored # Nothing => stored.crl \subseteq pem

(* The gate is opened only after strongSwan works with the CRL of the      *)
(* snapshot whose freshness opens it.                                      *)
GateUsesItsList ==
  ~torn /\ watch.step = "gate" /\ watch.fresh =>
    watch.state.crl \subseteq loaded

(* A delayed snapshot never replaces a newer one, with the same exception.  *)
NeverOlder ==
  [][stored # Nothing /\ ~torn' /\ (\E i \in Importers : Publish(i)) =>
       stored'.age <= stored.age]_vars

(* Fail closed: every revocation takes effect for good, delivered or not:  *)
(* either a snapshot that has it arrives, or the stored one gets stale.    *)
(* That is so if there is one import at a time, whatever dies, or if no    *)
(* two overlap and none dies half way.  Else devices.pem can go back to an *)
(* older CRL between the digest and the load, and forth again: the digest  *)
(* then is the last one, and strongSwan keeps the older CRL for good while *)
(* the gate is open.                                                       *)
RevocationTakesEffect ==
  Cardinality(Importers) = 1 \/ []~torn =>
    \A d \in Devices : d \in listed ~> [](~(permit /\ d \in sessions))

(* And no more than that: while fresh snapshots keep arriving the gate is  *)
(* open, whatever failed before.                                           *)
ServesWhileFresh ==
  <>[](stored # Nothing /\ stored.age < FreshAge) => <>[]permit
-----------------------------------------------------------------------------
(* The inductive invariant behind the three safety properties.             *)

\* The snapshots under way: at the importers, stored, being sent.
Taken == ({imp[i].body : i \in Importers} \cup {stored} \cup
          (IF sync.step \in {"public", "inner"} THEN {sync.body} ELSE {})) \ {Nothing}
\* A step has the data it works on.
Shape ==
  /\ sync.step # "idle" => sync.body \in Snapshots
  /\ sync.via # Nothing => sync.step \in {"public", "inner"}
  /\ \A i \in Importers :
       imp[i].body = Nothing <=> imp[i].step \in {"free", "accepted"}
\* A younger snapshot has a longer CRL, and sync's own is the youngest; this
\* is what makes the order of the ages the order of the lists.
YoungerListsMore ==
  /\ \A s, t \in Taken : s.age <= t.age /\ s.age < FreshAge => t.crl \subseteq s.crl
  /\ \A t \in Taken : t.crl \subseteq listed
  /\ sync.body = Nothing => Taken = {}
  /\ sync.body # Nothing => \A t \in Taken :
       /\ sync.body.age <= t.age
       /\ sync.step = "crl" /\ t.age < FreshAge => sync.body.age < t.age
\* Unless torn, one import at a time is past its check, with the newest
\* snapshot, and devices.pem is either the stored CRL or the one of that import.
ImportsAreSerial ==
  ~torn =>
    /\ \A i, j \in Importers :
         imp[i].step \in InProgress /\ imp[j].step \in InProgress => i = j
    /\ \A i \in Importers : imp[i].step \in InProgress =>
         /\ stored # Nothing => /\ imp[i].body.age <= stored.age
                                /\ stored.crl \subseteq imp[i].body.crl
         /\ imp[i].step = "written" => tmp = imp[i].body.crl
         /\ imp[i].step = "replaced" => pem = imp[i].body.crl
    /\ (\A i \in Importers : imp[i].step # "replaced") =>
         pem = IF stored = Nothing THEN {} ELSE stored.crl
\* Unless torn, devices.pem only grows: what the watcher read of it before is
\* part of what it loads after.
WatchSeesGrowth ==
  ~torn =>
    /\ watch.step # "sleep" => watch.state.crl \subseteq pem
    /\ watch.step = "load" => watch.digest \subseteq pem
    /\ watch.step \in {"close", "gate"} /\ watch.fresh => watch.state.crl \subseteq loaded
    /\ last # Nothing => last \subseteq loaded

SafetyInv == /\ TypeOK /\ Shape /\ YoungerListsMore
             /\ ImportsAreSerial /\ WatchSeesGrowth
=============================================================================
