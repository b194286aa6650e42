------------------------------- MODULE Reports -------------------------------
(* Voluntary reports: vpn report on Linux with the two collectors, inside  *)
(* the tunnel and outside, that share a log of the day, and the web        *)
(* service's reports of Windows clients, one file each.                    *)
EXTENDS Naturals, FiniteSets, ReportFiles

CONSTANTS
  MaxIds,       \* bound: reports the Linux client prepares, 1..MaxIds their ids
  Contents,     \* account, device and content of these
  Collectors,   \* processes of diagnostic_collector.py
  Web,          \* connect, gunicorn's workers
  Threads,      \* of all of them
  PerHour,      \* reports of one device in an hour: 6
  DayCap,       \* records a day's file holds: 32 MiB
  WebLimit,     \* requests in an hour: 12
  MaxSends, MaxHours, MaxFaults,   \* bounds
  None

ConstantsOK ==
  /\ Web \notin Collectors /\ {None, "half"} \cap Contents = {} /\ None # "half"
  /\ {MaxIds, PerHour, DayCap, WebLimit, MaxSends, MaxHours, MaxFaults} \subseteq Nat

ASSUME ReportsConstants == ConstantsOK

VARIABLES
  preview,      \* support-preview.json: the last id
  thread,       \* a request: where, at what, and its report
  lock,         \* LOCK of each collector
  limits,       \* SUPPORT_LIMITS of each: the hour and the accepted ids
  hour,
  attempts,     \* connect: the limit's counter
  sends, faults

store  == <<today, older, kept, spoiled>>
web    == <<doc, attempts>>
vars   == <<preview, thread, lock, limits, hour, store, web, told, sends, faults>>

Idle  == [srv |-> None, at |-> "idle", id |-> None, body |-> None]
Empty == [whole |-> {}, size |-> 0, torn |-> FALSE]

Init ==
  /\ preview = 0
  /\ thread = [t \in Threads |-> Idle]
  /\ lock = [c \in Collectors |-> None]
  /\ limits = [c \in Collectors |-> [hour |-> 0, ids |-> {}]] /\ hour = 0
  /\ today = Empty /\ older = {} /\ kept = {} /\ spoiled = {}
  /\ doc = [n \in Names |-> None] /\ attempts = 0
  /\ told = {} /\ sends = 0 /\ faults = 0

Fault == faults < MaxFaults /\ faults' = faults + 1
At(t, srv, at) == thread[t].srv \in srv /\ thread[t].at = at
Goto(t, at) == thread' = [thread EXCEPT ![t].at = at]
Report(t) == <<thread[t].id, thread[t].body>>
End(t) == thread' = [thread EXCEPT ![t] = Idle]
-----------------------------------------------------------------------------
(* vpn report preview and send; Windows' request                           *)
Prepare ==
  /\ preview < MaxIds /\ preview' = preview + 1
  /\ UNCHANGED <<thread, lock, limits, hour, store, web, told, sends, faults>>

\* A Server refuses a connection when all its threads are busy.
Request(t, srv, i, b) ==
  /\ thread[t] = Idle /\ sends < MaxSends
  /\ sends' = sends + 1
  /\ thread' = [thread EXCEPT ![t] = [srv |-> srv, at |-> IF srv = Web THEN "limit" ELSE "lock",
                                      id |-> i, body |-> b]]

\* With consent, the preview of today: inside the tunnel when it stands, directly
\* when no kill switch blocks; what the network is, is open.
Send(t, c) ==
  /\ preview > 0 /\ Request(t, c, preview, None)
  /\ UNCHANGED <<preview, lock, limits, hour, store, web, told, faults>>

Post(t, n, b) ==
  /\ Request(t, Web, n, b)
  /\ UNCHANGED <<preview, lock, limits, hour, store, web, told, faults>>

\* The answer arrives, or the sender has given up by then.
Answer(t) ==
  /\ thread[t].at = "answer" /\ End(t)
  /\ told' \in {told, told \cup {Report(t)}}
  /\ UNCHANGED <<preview, lock, limits, hour, store, web, sends, faults>>
-----------------------------------------------------------------------------
(* store_report                                                            *)
Release(t) == lock' = [lock EXCEPT ![thread[t].srv] = None]

\* prune(), before every record and every hour by itself: files older than a week.
Aged ==
  \/ UNCHANGED <<older, kept>>
  \/ older # {} /\ older' = {} /\ kept' = kept \cup older

\* clean_report finds a field that is not allowed: 400.
Refuse(t) ==
  /\ At(t, Collectors, "lock") /\ End(t)
  /\ UNCHANGED <<preview, lock, limits, hour, store, web, told, sends, faults>>

\* Entries of another hour are dropped, and the bundle's limits looked at.
Current(c) == IF limits[c].hour = hour THEN limits[c] ELSE [hour |-> hour, ids |-> {}]

Take(t) ==
  /\ At(t, Collectors, "lock")
  /\ LET c == thread[t].srv  l == Current(thread[t].srv) IN
     /\ lock[c] = None /\ limits' = [limits EXCEPT ![c] = l]
     /\ \/ thread[t].id \in l.ids /\ Goto(t, "answer") /\ lock' = lock
        \/ /\ thread[t].id \notin l.ids
           /\ Cardinality(l.ids) >= PerHour \/ today.size >= DayCap
           /\ End(t) /\ lock' = lock
        \/ /\ thread[t].id \notin l.ids /\ Cardinality(l.ids) < PerHour /\ today.size < DayCap
           /\ lock' = [lock EXCEPT ![c] = t] /\ Goto(t, "write")
  /\ Aged /\ UNCHANGED <<preview, hour, today, spoiled, web, told, sends, faults>>

\* A line behind a torn one is lost with it.
Appended(r) ==
  /\ today' = [today EXCEPT !.size = @ + 1, !.torn = FALSE,
                            !.whole = IF today.torn THEN @ ELSE @ \cup {r}]
  /\ spoiled' = IF today.torn THEN spoiled \cup {r} ELSE spoiled

Write(t) ==
  /\ At(t, Collectors, "write") /\ Appended(Report(t)) /\ Goto(t, "mark")
  /\ UNCHANGED <<preview, lock, limits, hour, older, kept, web, told, sends, faults>>

Remembered(c, id) == [limits EXCEPT ![c].ids = @ \cup {id}]

Mark(t) ==
  /\ At(t, Collectors, "mark")
  /\ limits' = Remembered(thread[t].srv, thread[t].id)
  /\ Release(t) /\ Goto(t, "answer")
  /\ UNCHANGED <<preview, hour, store, web, told, sends, faults>>

MutantWriteFails(t) ==
  /\ At(t, Collectors, "write") /\ Fault
  /\ today' = [today EXCEPT !.torn = TRUE] /\ Release(t) /\ Goto(t, "answer")
  /\ UNCHANGED <<preview, limits, hour, older, kept, spoiled, web, told, sends>>

\* The disk is full: part of the line may be written; OSError ends the request.
WriteFails(t) ==
  /\ At(t, Collectors, "write") /\ Fault
  /\ today' \in {today, [today EXCEPT !.torn = TRUE]} /\ Release(t) /\ End(t)
  /\ UNCHANGED <<preview, limits, hour, older, kept, spoiled, web, told, sends>>

\* Samples, global tests, receipts of transfers: lines of the same file.
Other(c) ==
  /\ lock[c] = None /\ today.size < DayCap /\ sends < MaxSends /\ sends' = sends + 1
  /\ today' = [today EXCEPT !.size = @ + 1, !.torn = FALSE] /\ Aged
  /\ UNCHANGED <<preview, thread, lock, limits, hour, spoiled, web, told, faults>>

CollectorDies(c) ==
  /\ Fault
  /\ \E cut \in {FALSE, \E t \in Threads : At(t, {c}, "write")} :
       today' = [today EXCEPT !.torn = @ \/ cut]
  /\ thread' = [t \in Threads |-> IF thread[t].srv = c THEN Idle ELSE thread[t]]
  /\ lock' = [lock EXCEPT ![c] = None] /\ limits' = [limits EXCEPT ![c] = [hour |-> hour, ids |-> {}]]
  /\ UNCHANGED <<preview, hour, older, kept, spoiled, web, told, sends>>
-----------------------------------------------------------------------------
(* connect's report()                                                      *)
\* One transaction counts the request or refuses it; then the issuer knows the
\* device, or not, or does not answer.
Limit(t) ==
  /\ At(t, {Web}, "limit")
  /\ IF attempts < WebLimit THEN attempts' = attempts + 1 /\ (Goto(t, "open") \/ End(t))
     ELSE attempts' = attempts /\ End(t)
  /\ UNCHANGED <<preview, lock, limits, hour, store, doc, told, sends, faults>>

\* clean_windows finds a field that is not allowed: 400.
WebRefuse(t) ==
  /\ At(t, {Web}, "limit") /\ attempts < WebLimit /\ attempts' = attempts + 1 /\ End(t)
  /\ UNCHANGED <<preview, lock, limits, hour, store, doc, told, sends, faults>>

\* What is older than a week goes; a directory that is full ends the request, and
\* the report is opened with O_EXCL under its final name.
Without(old) == [n \in Names |-> IF n \in old THEN None ELSE doc[n]]

Open(t) ==
  /\ At(t, {Web}, "open")
  /\ \E old \in SUBSET {n \in Names : doc[n] # None /\ hour = MaxHours
                                      /\ \A u \in Threads : At(u, {Web}, "fill") => thread[u].id # n} :
       /\ kept' = kept \cup {<<n, doc[n]>> : n \in old}
       /\ \/ doc' = Without(old) /\ End(t)
          \/ /\ Without(old)[thread[t].id] = None
             /\ doc' = [Without(old) EXCEPT ![thread[t].id] = "half"] /\ Goto(t, "fill")
          \/ /\ Without(old)[thread[t].id] # None
             /\ doc' = Without(old) /\ Goto(t, "compare")
  /\ UNCHANGED <<preview, lock, limits, hour, today, older, spoiled, attempts, told, sends, faults>>

\* Written as a whole, or cut: the file stays as it is.
Fill(t) ==
  /\ At(t, {Web}, "fill")
  /\ \/ doc' = [doc EXCEPT ![thread[t].id] = thread[t].body] /\ Goto(t, "answer") /\ faults' = faults
     \/ doc' = doc /\ End(t) /\ Fault
  /\ UNCHANGED <<preview, lock, limits, hour, store, attempts, told, sends>>

\* 503 for what is no JSON, 409 for another report.
Compare(t) ==
  /\ At(t, {Web}, "compare")
  /\ IF doc[thread[t].id] = thread[t].body THEN Goto(t, "answer") ELSE End(t)
  /\ UNCHANGED <<preview, lock, limits, hour, store, web, told, sends, faults>>
-----------------------------------------------------------------------------
NextHour ==
  /\ hour < MaxHours /\ hour' = hour + 1 /\ attempts' = 0
  /\ UNCHANGED <<preview, thread, lock, limits, store, doc, told, sends, faults>>

\* Midnight: another file.
NextDay ==
  /\ hour < MaxHours /\ hour' = hour + 1 /\ attempts' = 0
  /\ \A t \in Threads : thread[t].at \notin {"write", "mark"}
  /\ older' = older \cup today.whole /\ today' = Empty
  /\ UNCHANGED <<preview, thread, lock, limits, kept, spoiled, doc, told, sends, faults>>

\* retention_worker
Prune(c) ==
  /\ lock[c] = None /\ Aged
  /\ UNCHANGED <<preview, thread, lock, limits, hour, today, spoiled, web, told, sends, faults>>

Next ==
  \/ Prepare
  \/ \E t \in Threads :
       \/ \E c \in Collectors : Send(t, c)
       \/ \E n \in Names, b \in Contents : Post(t, n, b)
       \/ Take(t) \/ Write(t) \/ WriteFails(t) \/ Mark(t)
       \/ Refuse(t) \/ WebRefuse(t) \/ Limit(t) \/ Open(t) \/ Fill(t) \/ Compare(t) \/ Answer(t)
  \/ \E c \in Collectors : Other(c) \/ CollectorDies(c) \/ Prune(c)
  \/ NextHour \/ NextDay

Spec == Init /\ [][Next]_vars
-----------------------------------------------------------------------------
(* The inductive invariant behind it.                                      *)

Steps == {"idle", "lock", "write", "mark", "answer", "limit", "open", "fill", "compare"}
ThreadsOK ==
  thread \in [Threads -> [srv : Collectors \cup {Web, None}, at : Steps,
                          id : 1..MaxIds \cup Names \cup {None}, body : Contents \cup {None}]]
LimitsOK == limits \in [Collectors -> [hour : Nat, ids : SUBSET (1..MaxIds)]]
LogOK ==
  today \in [whole : SUBSET ((1..MaxIds) \X {None}), size : Nat, torn : BOOLEAN]
FilesOK ==
  /\ doc \in [Names -> Contents \cup {"half", None}]
  /\ preview \in 0..MaxIds /\ hour \in Nat
TypeOK == ThreadsOK /\ LimitsOK /\ LogOK /\ FilesOK

\* Which requests a server may have, and at which of its steps.
RequestsFit == \A t \in Threads :
  \/ thread[t] = Idle
  \/ /\ thread[t].srv \in Collectors /\ thread[t].at \in {"lock", "write", "mark", "answer"}
     /\ thread[t].id \in 1..MaxIds /\ thread[t].body = None
  \/ /\ thread[t].srv = Web /\ thread[t].at \in {"limit", "open", "fill", "compare", "answer"}
     /\ thread[t].id \in Names /\ thread[t].body \in Contents

\* What the log took, removed or lost, and what is whole in connect's directory.
Logged == today.whole \cup older \cup kept \cup spoiled
Stored == {<<n, doc[n]>> : n \in {n \in Names : doc[n] \in Contents}}

\* An answer follows the writing, and so does an id that is remembered; one
\* request fills a file, and nobody removes it meanwhile.
IdsAreLogged == \A c \in Collectors : \A i \in limits[c].ids : <<i, None>> \in Logged
AnswersFollow == \A t \in Threads :
  /\ thread[t].at \in {"mark", "answer"} => Report(t) \in Logged \cup Stored
  /\ thread[t].at = "mark" => Report(t) \in Logged
OneFillsAFile == \A t \in Threads : thread[t].at = "fill" =>
  /\ doc[thread[t].id] = "half"
  /\ \A u \in Threads \ {t} : thread[u].at = "fill" => thread[u].id # thread[t].id
ToldIsKept == told \subseteq Logged \cup Stored

ReportsInv == TypeOK /\ RequestsFit /\ IdsAreLogged /\ AnswersFollow /\ OneFillsAFile /\ ToldIsKept
=============================================================================
