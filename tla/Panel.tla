-------------------------------- MODULE Panel --------------------------------
(* The owner's panel: server/panel/app.py, whose requests run in several   *)
(* threads over one SQLite file, and server/panel/broker.py, one thread    *)
(* that writes the vault of tokens and asks the issuer, which shares       *)
(* accounts.json and its lock with it.                                     *)
EXTENDS Naturals, FiniteSets

CONSTANTS
  Browsers, Requests,
  Sids,          \* bound: session ids and browser keys in use at a time
  Keys,
  People,        \* account ids
  PerAddress,    \* attempts within one period
  MaxCode,       \* bound: codes, numbered by their 30 seconds
  MaxWork,       \* bound: attempts and calls of the broker together
  MaxFaults,     \* bound: crashes, time-outs, failures and expiries
  None

ASSUME PanelConstants ==
  /\ {PerAddress, MaxCode, MaxWork, MaxFaults} \subseteq Nat
  /\ None \notin Sids \cup Keys \cup Browsers \cup Requests \cup People

VARIABLES
  last,          \* last_counter, 0 while there is no owner
  sessions,      \* kind of each row, "none" without one, "stale" when too old
  trusted,       \* trusted_browsers
  attempts,
  jar,           \* the cookies of a browser
  req,           \* the request a thread works on
  opened,        \* history: owner's sessions opened with a counter
  acct, vault,   \* accounts.json and tokens.json
  legacy,        \* accounts issued at the command line
  backlog,       \* requests that wait for the broker
  brk, iss,      \* what the broker and the issuer work on
  lock,          \* accounts.lock
  faults, calls

auth  == <<last, sessions, trusted, attempts, opened>>
store == <<acct, vault, legacy>>
desk  == <<backlog, brk, iss, lock, calls>>
vars  == <<auth, jar, req, store, desk, faults>>

Idle   == [at |-> "free", b |-> None, op |-> "none", sid |-> None, key |-> None,
           kind |-> "none", code |-> 0, newsid |-> None, newkey |-> None]
Rest   == [op |-> "idle", a |-> None, r |-> None, at |-> 0]
Post   == {"start", "finish", "login", "code", "logout", "forget"}
Calls  == {"issue", "import", "delete"}

\* A new installation, or one whose owner was set up before.
Init ==
  /\ last \in {0, 1} /\ sessions = [s \in Sids |-> "none"] /\ trusted = {}
  /\ attempts = 0 /\ opened = [n \in 1 .. MaxCode |-> 0]
  /\ jar = [b \in Browsers |-> [sid |-> None, key |-> None]]
  /\ req = [r \in Requests |-> Idle]
  /\ acct = [a \in People |-> "none"] /\ vault = {} /\ legacy = {}
  /\ backlog = {} /\ brk = Rest /\ iss = None /\ lock = None
  /\ faults = 0 /\ calls = 0

Fault == faults < MaxFaults /\ faults' = faults + 1

\* Random values: an id that no browser and no request holds can never be
\* shown again, so it may stand for a new one and its row is left out.
SidHeld(s, jars, rs) == \/ \E b \in Browsers : jars[b].sid = s
                        \/ \E r \in rs : s \in {req[r].sid, req[r].newsid}
KeyHeld(k, jars, rs) == \/ \E b \in Browsers : jars[b].key = k
                        \/ \E r \in rs : k \in {req[r].key, req[r].newkey}
NewSid == CHOOSE s \in Sids : ~SidHeld(s, jar, Requests)
NewKey == CHOOSE k \in Keys : ~KeyHeld(k, jar, Requests)
CanName == /\ \E s \in Sids : ~SidHeld(s, jar, Requests)
           /\ \E k \in Keys : ~KeyHeld(k, jar, Requests)

\* Request r is over and leaves these cookies.
Ends(r, jars) ==
  /\ req' = [req EXCEPT ![r] = Idle] /\ jar' = jars
  /\ sessions' = [s \in Sids |-> IF SidHeld(s, jars, Requests \ {r}) THEN sessions[s] ELSE "none"]
  /\ trusted' = {k \in trusted : KeyHeld(k, jars, Requests \ {r})}
-----------------------------------------------------------------------------
(* Requests.  The code a person types is the counter it belongs to; old    *)
(* ones are typed again, which is what a wrong one is to the server.       *)
\* guard() reads the session in a transaction of its own; what it finds is all
\* the handler will know of it.  Without one, only /api/session goes on.
Send(r, b, op, code) ==
  LET sid  == jar[b].sid
      kind == IF sid = None THEN "none" ELSE sessions[sid]
  IN /\ req[r] = Idle
     /\ (op \in {"finish", "login", "code"}) # (code = 0)
     /\ op # "session" => kind \notin {"none", "stale"}
     /\ op = "finish" => kind = "setup"
     /\ op = "call" => kind = "owner"
     /\ op \in {"start", "finish", "login", "code", "call"} => attempts + calls < MaxWork
     /\ req' = [req EXCEPT ![r] =
                [Idle EXCEPT !.at = "handler", !.b = b, !.op = op, !.sid = sid, !.key = jar[b].key,
                             !.kind = IF kind = "stale" THEN "none" ELSE kind, !.code = code]]
     /\ sessions' = IF kind = "stale" THEN [sessions EXCEPT ![sid] = "none"] ELSE sessions
     /\ UNCHANGED <<last, trusted, attempts, opened, jar, store, desk, faults>>

Step(r, at) == [req EXCEPT ![r].at = at]
\* An answer without cookies.
Done(r) == Ends(r, jar)

\* attempt() counts before anything is compared.
Attempt(r) ==
  /\ req[r].at = "handler" /\ attempts < PerAddress /\ attempts' = attempts + 1
  /\ UNCHANGED <<opened, store, desk, faults>>

TooMany(r) ==
  /\ req[r].op \in {"start", "finish", "login", "code"} /\ req[r].at = "handler"
  /\ attempts = PerAddress /\ Done(r)
  /\ UNCHANGED <<last, attempts, opened, store, desk, faults>>

MutantMatches(code, since) == code > 0

\* match_totp().  Whether the clock is still near the code is left open.
Matches(code, since) == code > since

Remember(r) ==
  /\ trusted' = (trusted \ {req[r].key}) \cup {NewKey}
  /\ req' = [req EXCEPT ![r].newkey = NewKey, ![r].at = "open"] /\ jar' = jar

SetupStart(r) ==
  /\ req[r].op = "start" /\ Attempt(r)
  /\ IF last = 0 THEN req' = Step(r, "setup") /\ UNCHANGED <<sessions, trusted, jar>> ELSE Done(r)
  /\ last' = last

SetupFinish(r) ==
  /\ req[r].op = "finish" /\ Attempt(r) /\ CanName
  /\ \/ /\ Matches(req[r].code, 0) /\ last = 0
        /\ last' = req[r].code
        /\ sessions' = [s \in Sids |-> "none"]
        /\ Remember(r)
     \/ Done(r) /\ last' = last

\* One transaction: the counter is compared and burnt in it.
Login(r) ==
  LET q     == req[r]
      valid == last # 0 /\ (q.op = "login" \/ q.key \in trusted)
  IN /\ q.op \in {"login", "code"} /\ Attempt(r) /\ CanName
     /\ \/ /\ valid /\ Matches(q.code, last)
           /\ last' = q.code /\ Remember(r) /\ UNCHANGED sessions
        \/ Done(r) /\ last' = last

\* new_session(), a transaction of its own.
Open(r, kind) ==
  /\ CanName
  /\ sessions' = [s \in Sids |-> IF s = NewSid THEN kind
                                 ELSE IF s = req[r].sid \/ sessions[s] = "stale" THEN "none"
                                 ELSE sessions[s]]
  /\ req' = [req EXCEPT ![r].newsid = NewSid, ![r].at = "answer"] /\ jar' = jar

NewSession(r) ==
  /\ \/ req[r].at = "setup" /\ Open(r, "setup") /\ opened' = opened
     \/ /\ req[r].at = "open" /\ Open(r, "owner")
        /\ opened' = [opened EXCEPT ![req[r].code] = @ + 1]
  /\ UNCHANGED <<last, trusted, attempts, store, desk, faults>>

\* /api/session
Current(r) ==
  LET q == req[r]
  IN /\ q.op = "session" /\ q.at = "handler" /\ CanName
     /\ \/ q.kind = "none" /\ Open(r, "anonymous") /\ UNCHANGED trusted
        \/ /\ q.kind = "owner" /\ q.key \notin trusted
           /\ trusted' = (trusted \ {q.key}) \cup {NewKey}
           /\ req' = [req EXCEPT ![r].newkey = NewKey, ![r].at = "answer"]
           /\ UNCHANGED <<sessions, jar>>
        \/ /\ q.kind # "none" /\ (q.kind = "owner" => q.key \in trusted)
           /\ Done(r)
     /\ UNCHANGED <<last, attempts, opened, store, desk, faults>>

\* logout and forget_browser
Leave(r) ==
  LET q == req[r]
  IN /\ q.op \in {"logout", "forget"} /\ q.at = "handler"
     /\ sessions' = [sessions EXCEPT ![q.sid] = "none"]
     /\ trusted' = IF q.op = "forget" THEN trusted \ {q.key} ELSE trusted
     /\ req' = Step(r, "left")
     /\ UNCHANGED <<last, attempts, opened, jar, store, desk, faults>>

\* The answer and its cookies arrive, or are lost on the way.
Answer(r) ==
  LET q == req[r]
      after == IF q.at = "left"
               THEN [sid |-> None, key |-> IF q.op = "forget" THEN None ELSE jar[q.b].key]
               ELSE [sid |-> IF q.newsid = None THEN jar[q.b].sid ELSE q.newsid,
                     key |-> IF q.newkey = None THEN jar[q.b].key ELSE q.newkey]
  IN /\ q.at \in {"answer", "left"}
     /\ \/ Ends(r, [jar EXCEPT ![q.b] = after]) /\ faults' = faults
        \/ Fault /\ Ends(r, jar)
     /\ UNCHANGED <<last, attempts, opened, store, desk>>

-----------------------------------------------------------------------------
(* call(): the broker has one thread; what waits for it is carried out     *)
(* even when the panel gave up after 95 seconds.                           *)
Call(r, op, a) ==
  /\ req[r].op = "call" /\ req[r].at = "handler"
  /\ attempts + calls < MaxWork /\ calls' = calls + 1
  /\ backlog' = backlog \cup {[op |-> op, a |-> a, r |-> r, at |-> 1]}
  /\ req' = [req EXCEPT ![r] = [Idle EXCEPT !.at = "wait"]]
  /\ UNCHANGED <<auth, jar, store, brk, iss, lock, faults>>

GiveUp(r) ==
  /\ req[r].at = "wait" /\ Fault
  /\ req' = [req EXCEPT ![r] = Idle]
  /\ backlog' = {IF m.r = r THEN [m EXCEPT !.r = None] ELSE m : m \in backlog}
  /\ brk' = IF brk.r = r THEN [brk EXCEPT !.r = None] ELSE brk
  /\ UNCHANGED <<auth, jar, store, iss, lock, calls>>

BrokerTakes(m) ==
  /\ brk = Rest /\ m \in backlog
  /\ brk' = m /\ backlog' = backlog \ {m}
  /\ UNCHANGED <<auth, jar, req, store, iss, lock, faults, calls>>

BrokerDone ==
  /\ brk' = Rest
  /\ req' = IF brk.r = None THEN req ELSE [req EXCEPT ![brk.r] = Idle]

MutantWriteOrder == <<"accounts", "vault">>

\* The order of the two files is what a crash in between depends on.
WriteOrder == <<"vault", "accounts">>

Write(file, a) ==
  IF file = "vault" THEN vault' = vault \cup {a} /\ UNCHANGED acct
  ELSE acct' = [acct EXCEPT ![a] = "live"] /\ UNCHANGED vault

\* Under the lock from the first write to the second.
Issue ==
  LET a == brk.a
  IN /\ brk.op = "issue"
     /\ \/ /\ brk.at = 1 /\ lock = None
           /\ acct[a] = "none" /\ a \notin vault
           /\ Write(WriteOrder[1], a)
           /\ lock' = "broker" /\ brk' = [brk EXCEPT !.at = 2] /\ req' = req
        \/ /\ brk.at = 2 /\ Write(WriteOrder[2], a)
           /\ lock' = None /\ BrokerDone
     /\ UNCHANGED <<auth, jar, legacy, backlog, iss, faults, calls>>

\* token() with an existing one: its hash is compared with the account's.
Import ==
  /\ brk.op = "import" /\ lock = None /\ acct[brk.a] = "live"
  /\ vault' = vault \cup {brk.a} /\ BrokerDone
  /\ UNCHANGED <<auth, jar, acct, legacy, backlog, iss, lock, faults, calls>>

\* A name in use or a missing account.  snapshot, reveal and rename, which
\* change no account and no token, end the same way.
Decline ==
  /\ brk.op \in {"issue", "import"} /\ brk.at = 1 /\ lock = None
  /\ brk.op = "import" => acct[brk.a] # "live"
  /\ BrokerDone
  /\ UNCHANGED <<auth, jar, store, backlog, iss, lock, faults, calls>>

AskIssuer ==
  /\ brk.op = "delete" /\ brk.at = 1 /\ iss = None
  /\ iss' = brk.a /\ brk' = [brk EXCEPT !.at = 2]
  /\ UNCHANGED <<auth, jar, req, store, backlog, lock, faults, calls>>

\* The issuer's delete_account(): see Issuer.  It goes on by itself.
IssuerBegins ==
  /\ iss # None /\ lock = None /\ acct[iss] \in {"live", "pending"}
  /\ acct' = [acct EXCEPT ![iss] = "pending"] /\ lock' = "issuer"
  /\ UNCHANGED <<auth, jar, req, vault, legacy, backlog, brk, iss, faults, calls>>

IssuerEnds ==
  LET mine == brk.op = "delete" /\ brk.at = 2
      Tell(ok) == brk' = IF mine THEN [brk EXCEPT !.at = IF ok THEN 3 ELSE 4] ELSE brk
  IN /\ iss # None /\ iss' = None
     /\ \/ /\ lock = "issuer" /\ lock' = None
           /\ acct' = [acct EXCEPT ![iss] = "deleted"] /\ Tell(TRUE) /\ faults' = faults
        \/ lock = "issuer" /\ lock' = None /\ Fault /\ acct' = acct /\ Tell(FALSE)
        \/ /\ lock = None /\ acct[iss] \in {"none", "deleted"}
           /\ Tell(acct[iss] = "deleted") /\ UNCHANGED <<acct, lock, faults>>
     /\ UNCHANGED <<auth, jar, req, vault, legacy, backlog, calls>>

\* After 90 seconds, or when the issuer refused.
DeleteFails ==
  /\ brk.op = "delete"
  /\ \/ brk.at = 2 /\ Fault
     \/ brk.at = 4 /\ faults' = faults
  /\ BrokerDone
  /\ UNCHANGED <<auth, jar, store, backlog, iss, lock, calls>>

DeleteEnds ==
  /\ brk.op = "delete" /\ brk.at = 3 /\ lock = None
  /\ vault' = IF acct[brk.a] = "deleted" THEN vault \ {brk.a} ELSE vault
  /\ BrokerDone
  /\ UNCHANGED <<auth, jar, acct, legacy, backlog, iss, lock, faults, calls>>
-----------------------------------------------------------------------------
(* What happens around them.                                               *)
BrokerDies ==
  /\ Fault /\ brk' = Rest /\ backlog' = {}
  /\ lock' = IF lock = "broker" THEN None ELSE lock
  /\ req' = [r \in Requests |-> IF req[r].at = "wait" THEN Idle
                                ELSE req[r]]
  /\ UNCHANGED <<auth, jar, store, iss, calls>>

PanelDies ==
  /\ Fault /\ req' = [r \in Requests |-> Idle]
  /\ backlog' = {[m EXCEPT !.r = None] : m \in backlog}
  /\ brk' = [brk EXCEPT !.r = None]
  /\ UNCHANGED <<auth, jar, store, iss, lock, calls>>

\* token_issuer.py issue NAME
CommandLine(a) ==
  /\ Fault /\ lock = None /\ acct[a] = "none" /\ a \notin vault
  /\ acct' = [acct EXCEPT ![a] = "live"] /\ legacy' = legacy \cup {a}
  /\ UNCHANGED <<auth, jar, req, vault, desk>>

\* Eight hours or thirty minutes of a session, thirty days of a browser.
Expiry ==
  \/ /\ Fault /\ \E s \in Sids : /\ sessions[s] \notin {"none", "stale"}
                                 /\ sessions' = [sessions EXCEPT ![s] = "stale"]
     /\ UNCHANGED <<last, trusted, attempts, opened>>
  \/ /\ Fault /\ \E k \in trusted : trusted' = trusted \ {k}
     /\ UNCHANGED <<last, sessions, attempts, opened>>

Around == \/ Expiry /\ UNCHANGED <<jar, req, store, desk>>
          \/ BrokerDies \/ PanelDies \/ \E a \in People : CommandLine(a)

Next ==
  \/ \E r \in Requests, b \in Browsers, op \in Post \cup {"session", "call"}, code \in 0 .. MaxCode :
       Send(r, b, op, code)
  \/ \E r \in Requests :
       \/ TooMany(r) \/ SetupStart(r) \/ SetupFinish(r) \/ Login(r) \/ NewSession(r)
       \/ Current(r) \/ Leave(r) \/ Answer(r) \/ GiveUp(r)
       \/ \E op \in Calls, a \in People : Call(r, op, a)
  \/ \E m \in backlog : BrokerTakes(m)
  \/ Issue \/ Import \/ Decline \/ AskIssuer \/ IssuerBegins \/ IssuerEnds \/ DeleteFails \/ DeleteEnds
  \/ Around

Spec == Init /\ [][Next]_vars
-----------------------------------------------------------------------------
\* A code of the authenticator opens at most one session of the owner, with
\* two requests at a time, a set-up that races another, answers that are lost
\* and old codes typed again in any browser.
CodeOpensOneSession == \A n \in DOMAIN opened : opened[n] <= 1

\* The vault can reveal the token of every account the panel issued and nobody
\* deletes, whatever was cut, timed out or carried out late.
TokensCanBeRevealed == \A a \in People \ legacy : acct[a] = "live" => a \in vault
=============================================================================
