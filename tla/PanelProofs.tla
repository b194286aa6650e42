----------------------------- MODULE PanelProofs -----------------------------
(* Proofs about Panel, for any number of browsers, requests, accounts and  *)
(* failures: a code opens one session, and tokens can be revealed.         *)
EXTENDS Panel, TLAPS

-----------------------------------------------------------------------------
(* The sessions.  A request between login's transaction, which burns the   *)
(* code, and new_session's, which opens the session, is the only one that  *)
(* will open one with that code.                                           *)
Fields == {"at", "b", "op", "sid", "key", "kind", "code", "newsid", "newkey"}
Opening(r) == req[r].at = "open"

RequestsAreRecords ==
  /\ req = [r \in Requests |-> req[r]]
  /\ \A r \in Requests : /\ req[r] = [f \in Fields |-> req[r][f]]
                         /\ req[r].code \in 0 .. MaxCode

BurntBefore ==
  /\ \A n \in 1 .. MaxCode : n > last => opened[n] = 0
  /\ \A r \in Requests : Opening(r) => /\ req[r].code \in 1 .. MaxCode
                                       /\ req[r].code <= last
                                       /\ opened[req[r].code] = 0

OneOpens ==
  \A r, s \in Requests : Opening(r) /\ Opening(s) /\ req[r].code = req[s].code => r = s

AuthInv ==
  /\ last \in Nat /\ opened \in [1 .. MaxCode -> Nat]
  /\ RequestsAreRecords /\ BurntBefore /\ OneOpens /\ CodeOpensOneSession

\* No request comes to open a session, and nothing is burnt.
Frame ==
  /\ last' = last /\ opened' = opened
  /\ RequestsAreRecords'
  /\ \A r \in Requests : Opening(r)' => Opening(r) /\ req'[r].code = req[r].code

LEMMA FrameKeepsAuth == AuthInv /\ Frame => AuthInv'
BY PanelConstants DEF AuthInv, Frame, BurntBefore, OneOpens, Opening, CodeOpensOneSession

LEMMA RecordIsIdle ==
  /\ Idle = [f \in Fields |-> Idle[f]] /\ Idle.code = 0 /\ Idle.at = "free"
BY DEF Idle, Fields

LEMMA InitAuth == Init => AuthInv
<1> SUFFICES ASSUME Init PROVE AuthInv
  OBVIOUS
<1>1. RequestsAreRecords
  BY RecordIsIdle, PanelConstants DEF Init, RequestsAreRecords
<1>2. \A r \in Requests : ~Opening(r)
  BY RecordIsIdle DEF Init, Opening
<1> QED
  BY <1>1, <1>2, PanelConstants DEF Init, AuthInv, BurntBefore, OneOpens, CodeOpensOneSession

\* Requests end, or stay as they are.
LEMMA EndedFrames ==
  ASSUME AuthInv, req' = [s \in Requests |-> req'[s]],
         \A s \in Requests : req'[s] = Idle \/ req'[s] = req[s],
         last' = last, opened' = opened
  PROVE  Frame
<1>1. RequestsAreRecords'
  <2>1. ASSUME NEW s \in Requests
        PROVE  req'[s] = [f \in Fields |-> req'[s][f]] /\ req'[s].code \in 0 .. MaxCode
    <3>1. CASE req'[s] = Idle
      BY <3>1, RecordIsIdle, PanelConstants
    <3>2. CASE req'[s] = req[s]
      BY <3>2 DEF AuthInv, RequestsAreRecords
    <3> QED
      BY <3>1, <3>2
  <2> QED
    BY <2>1 DEF RequestsAreRecords
<1>2. \A s \in Requests : Opening(s)' => Opening(s) /\ req'[s].code = req[s].code
  BY RecordIsIdle DEF Opening
<1> QED
  BY <1>1, <1>2 DEF Frame

LEMMA IdleFrames ==
  ASSUME AuthInv, NEW r \in Requests, req' = [req EXCEPT ![r] = Idle],
         last' = last, opened' = opened
  PROVE  Frame
<1>1. req' = [s \in Requests |-> req'[s]]
  BY DEF AuthInv, RequestsAreRecords
<1>2. \A s \in Requests : req'[s] = Idle \/ req'[s] = req[s]
  BY DEF AuthInv, RequestsAreRecords
<1> QED
  BY <1>1, <1>2, EndedFrames

LEMMA BrokerDoneFrames ==
  ASSUME AuthInv, BrokerDone, last' = last, opened' = opened
  PROVE  Frame
<1>1. req' = [s \in Requests |-> req'[s]]
  BY DEF AuthInv, RequestsAreRecords, BrokerDone
<1>2. \A s \in Requests : req'[s] = Idle \/ req'[s] = req[s]
  BY DEF AuthInv, RequestsAreRecords, BrokerDone
<1> QED
  BY <1>1, <1>2, EndedFrames

LEMMA SameFrames ==
  ASSUME AuthInv, req' = req, last' = last, opened' = opened
  PROVE  Frame
BY EndedFrames DEF AuthInv, RequestsAreRecords

\* A request is replaced by one that opens no session.
LEMMA NewFrames ==
  ASSUME AuthInv, NEW r \in Requests, NEW rec, rec = [f \in Fields |-> rec[f]],
         rec.code \in 0 .. MaxCode, rec.at # "open", req' = [req EXCEPT ![r] = rec],
         last' = last, opened' = opened
  PROVE  Frame
<1>1. req' = [s \in Requests |-> IF s = r THEN rec ELSE req[s]]
  BY DEF AuthInv, RequestsAreRecords
<1> QED
  BY <1>1 DEF AuthInv, Frame, RequestsAreRecords, Opening

\* What a handler changes of its own request.
Changed(r, at) ==
  /\ RequestsAreRecords'
  /\ req'[r].at = at /\ req'[r].code = req[r].code
  /\ \A s \in Requests \ {r} : req'[s] = req[s]

LEMMA StepChanges ==
  ASSUME AuthInv, NEW r \in Requests, NEW at, req' = Step(r, at)
  PROVE  Changed(r, at)
BY PanelConstants DEF AuthInv, Changed, Step, RequestsAreRecords, Fields

LEMMA NewKeyChanges ==
  ASSUME AuthInv, NEW r \in Requests, NEW at, NEW k,
         req' = [req EXCEPT ![r].newkey = k, ![r].at = at]
  PROVE  Changed(r, at)
<1> DEFINE rec == [req[r] EXCEPT !.newkey = k, !.at = at]
<1>1. req[r] = [f \in Fields |-> req[r][f]]
  BY DEF AuthInv, RequestsAreRecords
<1>2. rec = [f \in Fields |-> rec[f]] /\ rec.at = at /\ rec.code = req[r].code
  BY <1>1 DEF Fields
<1>3. req' = [s \in Requests |-> IF s = r THEN rec ELSE req[s]]
  BY DEF AuthInv, RequestsAreRecords
<1> HIDE DEF rec
<1> QED
  BY <1>2, <1>3 DEF AuthInv, Changed, RequestsAreRecords

LEMMA NewSidChanges ==
  ASSUME AuthInv, NEW r \in Requests, NEW at, NEW k,
         req' = [req EXCEPT ![r].newsid = k, ![r].at = at]
  PROVE  Changed(r, at)
<1> DEFINE rec == [req[r] EXCEPT !.newsid = k, !.at = at]
<1>1. req[r] = [f \in Fields |-> req[r][f]]
  BY DEF AuthInv, RequestsAreRecords
<1>2. rec = [f \in Fields |-> rec[f]] /\ rec.at = at /\ rec.code = req[r].code
  BY <1>1 DEF Fields
<1>3. req' = [s \in Requests |-> IF s = r THEN rec ELSE req[s]]
  BY DEF AuthInv, RequestsAreRecords
<1> HIDE DEF rec
<1> QED
  BY <1>2, <1>3 DEF AuthInv, Changed, RequestsAreRecords

LEMMA ChangedFrames ==
  ASSUME NEW r \in Requests, NEW at, at # "open", Changed(r, at), last' = last, opened' = opened
  PROVE  Frame
BY DEF Frame, Changed, Opening

\* The code is burnt: older requests open sessions of older codes.
LEMMA BurningKeepsAuth ==
  ASSUME AuthInv, NEW r \in Requests, Changed(r, "open"), Matches(req[r].code, last),
         last' = req[r].code, opened' = opened
  PROVE  AuthInv'
<1>1. req[r].code \in 1 .. MaxCode /\ req[r].code > last /\ last \in Nat
  BY PanelConstants DEF AuthInv, RequestsAreRecords, Matches
<1>2. \A s \in Requests : req'[s].code = req[s].code
  BY DEF Changed
<1>3. \A s \in Requests : Opening(s)' <=> s = r \/ Opening(s)
  BY DEF Changed, Opening
<1>4. \A s \in Requests : Opening(s) => req[s].code \in 1 .. MaxCode /\ req[s].code < req[r].code
  BY <1>1, PanelConstants DEF AuthInv, BurntBefore
<1>5. BurntBefore'
  BY <1>1, <1>2, <1>3, <1>4, PanelConstants DEF AuthInv, BurntBefore
<1>6. OneOpens'
  BY <1>1, <1>2, <1>3, <1>4, PanelConstants DEF AuthInv, OneOpens
<1> QED
  BY <1>1, <1>5, <1>6 DEF AuthInv, Changed, CodeOpensOneSession

\* The request that burnt the code opens its session and is no longer about to.
LEMMA OpeningKeepsAuth ==
  ASSUME AuthInv, NEW r \in Requests, Opening(r), Changed(r, "answer"),
         opened' = [opened EXCEPT ![req[r].code] = @ + 1], last' = last
  PROVE  AuthInv'
<1> DEFINE c == req[r].code
<1>1. c \in 1 .. MaxCode /\ c <= last /\ last \in Nat /\ opened[c] = 0
  BY DEF AuthInv, BurntBefore
<1>2. \A n \in 1 .. MaxCode : opened'[n] = IF n = c THEN 1 ELSE opened[n]
  BY <1>1 DEF AuthInv
<1>3. \A s \in Requests : /\ req'[s].code = req[s].code
                          /\ Opening(s)' <=> s # r /\ Opening(s)
  BY DEF Changed, Opening
<1>4. \A s \in Requests : Opening(s)' => req[s].code # c
  BY <1>3 DEF AuthInv, OneOpens
<1>5. opened' \in [1 .. MaxCode -> Nat]
  BY <1>1 DEF AuthInv
<1> HIDE DEF c
<1>6. BurntBefore'
  BY <1>1, <1>2, <1>3, <1>4, PanelConstants DEF AuthInv, BurntBefore
<1>7. OneOpens'
  BY <1>3 DEF AuthInv, OneOpens
<1>8. CodeOpensOneSession'
  BY <1>2, <1>5 DEF AuthInv, CodeOpensOneSession
<1> QED
  BY <1>1, <1>5, <1>6, <1>7, <1>8 DEF AuthInv, Changed

LEMMA AuthStep == AuthInv /\ [Next]_vars => AuthInv'
<1> SUFFICES ASSUME AuthInv, [Next]_vars PROVE AuthInv'
  OBVIOUS
<1> USE FrameKeepsAuth
<1>1. ASSUME NEW r \in Requests, NEW b \in Browsers, NEW op, NEW code \in 0 .. MaxCode, Send(r, b, op, code)
      PROVE  AuthInv'
  <2>1. PICK sid, key, kind :
          req' = [req EXCEPT ![r] = [Idle EXCEPT !.at = "handler", !.b = b, !.op = op, !.sid = sid,
                                                 !.key = key, !.kind = kind, !.code = code]]
    BY <1>1 DEF Send
  <2> DEFINE rec == [Idle EXCEPT !.at = "handler", !.b = b, !.op = op, !.sid = sid,
                                 !.key = key, !.kind = kind, !.code = code]
  <2>2. rec = [f \in Fields |-> rec[f]] /\ rec.code = code /\ rec.at = "handler"
    BY DEF Idle, Fields
  <2>3. req' = [req EXCEPT ![r] = rec]
    BY <2>1
  <2> HIDE DEF rec
  <2>4. last' = last /\ opened' = opened
    BY <1>1 DEF Send
  <2> QED
    BY <2>2, <2>3, <2>4, NewFrames
<1>2. ASSUME NEW r \in Requests, TooMany(r) PROVE AuthInv'
  BY <1>2, IdleFrames DEF TooMany, Done, Ends
<1>3. ASSUME NEW r \in Requests, SetupStart(r) PROVE AuthInv'
  BY <1>3, IdleFrames, StepChanges, ChangedFrames DEF SetupStart, Attempt, Done, Ends
<1>4. ASSUME NEW r \in Requests, SetupFinish(r) PROVE AuthInv'
  <2>1. opened' = opened
    BY <1>4 DEF SetupFinish, Attempt
  <2>2. CASE Done(r) /\ last' = last
    BY <2>1, <2>2, IdleFrames DEF Done, Ends
  <2>3. CASE Matches(req[r].code, 0) /\ last = 0 /\ last' = req[r].code /\ Remember(r)
    BY <2>1, <2>3, NewKeyChanges, BurningKeepsAuth DEF Remember
  <2> QED
    BY <1>4, <2>2, <2>3 DEF SetupFinish
<1>5. ASSUME NEW r \in Requests, Login(r) PROVE AuthInv'
  <2>1. opened' = opened
    BY <1>5 DEF Login, Attempt
  <2>2. CASE Done(r) /\ last' = last
    BY <2>1, <2>2, IdleFrames DEF Done, Ends
  <2>3. CASE Matches(req[r].code, last) /\ last' = req[r].code /\ Remember(r)
    BY <2>1, <2>3, NewKeyChanges, BurningKeepsAuth DEF Remember
  <2> QED
    BY <1>5, <2>2, <2>3 DEF Login
<1>6. ASSUME NEW r \in Requests, NewSession(r) PROVE AuthInv'
  <2>1. last' = last /\ Changed(r, "answer")
    BY <1>6, NewSidChanges DEF NewSession, Open
  <2>2. CASE opened' = opened
    BY <2>1, <2>2, ChangedFrames
  <2>3. CASE Opening(r) /\ opened' = [opened EXCEPT ![req[r].code] = @ + 1]
    BY <2>1, <2>3, OpeningKeepsAuth
  <2> QED
    BY <1>6, <2>2, <2>3 DEF NewSession, Opening
<1>7. ASSUME NEW r \in Requests, Current(r) PROVE AuthInv'
  <2>1. last' = last /\ opened' = opened
    BY <1>7 DEF Current
  <2>2. CASE Done(r)
    BY <2>1, <2>2, IdleFrames DEF Done, Ends
  <2>3. CASE Open(r, "anonymous")
    BY <2>1, <2>3, NewSidChanges, ChangedFrames DEF Open
  <2>4. CASE req' = [req EXCEPT ![r].newkey = NewKey, ![r].at = "answer"]
    BY <2>1, <2>4, NewKeyChanges, ChangedFrames
  <2> QED
    BY <1>7, <2>2, <2>3, <2>4 DEF Current
<1>8. ASSUME NEW r \in Requests, Leave(r) PROVE AuthInv'
  BY <1>8, StepChanges, ChangedFrames DEF Leave
<1>9. ASSUME NEW r \in Requests, Answer(r) PROVE AuthInv'
  BY <1>9, IdleFrames DEF Answer, Ends
<1>10. ASSUME NEW r \in Requests, GiveUp(r) PROVE AuthInv'
  BY <1>10, IdleFrames DEF GiveUp, auth
<1>11. ASSUME NEW r \in Requests, NEW op, NEW a, Call(r, op, a) PROVE AuthInv'
  <2> DEFINE rec == [Idle EXCEPT !.at = "wait"]
  <2>1. rec = [f \in Fields |-> rec[f]] /\ rec.code = 0 /\ rec.at = "wait"
    BY DEF Idle, Fields
  <2>2. req' = [req EXCEPT ![r] = rec] /\ last' = last /\ opened' = opened
    BY <1>11 DEF Call, auth
  <2> HIDE DEF rec
  <2> QED
    BY <2>1, <2>2, NewFrames, PanelConstants
<1>12. ASSUME NEW m, BrokerTakes(m) PROVE AuthInv'
  BY <1>12, SameFrames DEF BrokerTakes, auth
<1>13. ASSUME Issue PROVE AuthInv'
  BY <1>13, SameFrames, BrokerDoneFrames DEF Issue, auth
<1>14. ASSUME Import \/ Decline \/ DeleteFails \/ DeleteEnds PROVE AuthInv'
  BY <1>14, BrokerDoneFrames DEF Import, Decline, DeleteFails, DeleteEnds, auth
<1>15. ASSUME AskIssuer \/ IssuerBegins \/ IssuerEnds PROVE AuthInv'
  BY <1>15, SameFrames DEF AskIssuer, IssuerBegins, IssuerEnds, auth
<1>16. ASSUME Around PROVE AuthInv'
  <2>1. CASE Expiry /\ UNCHANGED <<jar, req, store, desk>>
    BY <2>1, SameFrames DEF Expiry
  <2>2. CASE BrokerDies
    BY <2>2, EndedFrames DEF BrokerDies, auth
  <2>3. CASE PanelDies
    BY <2>3, EndedFrames DEF PanelDies, auth
  <2>4. ASSUME NEW a \in People, CommandLine(a) PROVE AuthInv'
    BY <2>4, SameFrames DEF CommandLine, auth
  <2> QED
    BY <1>16, <2>1, <2>2, <2>3, <2>4 DEF Around
<1>17. CASE UNCHANGED vars
  BY <1>17, SameFrames DEF vars, auth
<1> QED
  BY <1>1, <1>2, <1>3, <1>4, <1>5, <1>6, <1>7, <1>8, <1>9, <1>10, <1>11, <1>12, <1>13, <1>14,
     <1>15, <1>16, <1>17 DEF Next

(* A code of the authenticator opens at most one session, for any number   *)
(* of browsers and of requests at a time: login compares and burns the     *)
(* counter in one transaction, and new_session comes after it.             *)
THEOREM PanelCodeOpensOneSession == Spec => []CodeOpensOneSession
<1>1. Init => AuthInv
  BY InitAuth
<1>2. AuthInv /\ [Next]_vars => AuthInv'
  BY AuthStep
<1>3. AuthInv => CodeOpensOneSession
  BY DEF AuthInv
<1> QED
  BY <1>1, <1>2, <1>3, PTL DEF Spec
-----------------------------------------------------------------------------
(* The vault.  The broker carries out one request at a time, so between    *)
(* the two writes of an issue no token leaves the vault.                   *)
AccountState == {"none", "live", "pending", "deleted"}
IsMessage(m) == m = [op |-> m.op, a |-> m.a, r |-> m.r, at |-> m.at]

TokensInv ==
  /\ acct \in [People -> AccountState]
  /\ \A m \in backlog : IsMessage(m) /\ m.at = 1
  /\ IsMessage(brk)
  /\ brk.op = "issue" /\ brk.at = 2 => brk.a \in vault
  /\ TokensCanBeRevealed

LEMMA InitTokens == Init => TokensInv
<1> SUFFICES ASSUME Init PROVE TokensInv
  OBVIOUS
<1>1. IsMessage(Rest) /\ Rest.op = "idle"
  BY DEF Rest, IsMessage
<1>2. acct \in [People -> AccountState] /\ \A a \in People : acct[a] = "none"
  BY DEF Init, AccountState
<1> QED
  BY <1>1, <1>2 DEF Init, TokensInv, TokensCanBeRevealed

\* The files stay, and the broker is not put into the middle of an issue.
LEMMA StoreKeepsTokens ==
  ASSUME TokensInv, UNCHANGED <<acct, legacy>>, vault \subseteq vault',
         \A m \in backlog' : IsMessage(m) /\ m.at = 1,
         IsMessage(brk'),
         brk'.op = "issue" /\ brk'.at = 2 => brk.op = "issue" /\ brk.at = 2 /\ brk'.a = brk.a
  PROVE  TokensInv'
BY DEF TokensInv, TokensCanBeRevealed

LEMMA BrokerDoneRests == BrokerDone => IsMessage(brk') /\ brk'.op = "idle"
BY DEF BrokerDone, Rest, IsMessage

LEMMA TokensStep == TokensInv /\ [Next]_vars => TokensInv'
<1> SUFFICES ASSUME TokensInv, [Next]_vars PROVE TokensInv'
  OBVIOUS
<1>1. CASE UNCHANGED <<store, desk>>
  BY <1>1, StoreKeepsTokens DEF store, desk, TokensInv
<1>2. ASSUME NEW r \in Requests, NEW op, NEW a, Call(r, op, a) PROVE TokensInv'
  <2>1. \A m \in backlog' : IsMessage(m) /\ m.at = 1
    BY <1>2 DEF Call, TokensInv, IsMessage
  <2> QED
    BY <1>2, <2>1, StoreKeepsTokens DEF Call, store, TokensInv
<1>3. ASSUME NEW r \in Requests, GiveUp(r) PROVE TokensInv'
  <2>1. \A m \in backlog' : IsMessage(m) /\ m.at = 1
    BY <1>3 DEF GiveUp, TokensInv, IsMessage
  <2>2. IsMessage(brk') /\ brk'.op = brk.op /\ brk'.at = brk.at /\ brk'.a = brk.a
    BY <1>3 DEF GiveUp, TokensInv, IsMessage
  <2> QED
    BY <1>3, <2>1, <2>2, StoreKeepsTokens DEF GiveUp, store
<1>4. ASSUME NEW m \in backlog, BrokerTakes(m) PROVE TokensInv'
  BY <1>4, StoreKeepsTokens DEF BrokerTakes, store, TokensInv
<1>5. ASSUME Issue PROVE TokensInv'
  <2>1. UNCHANGED <<legacy, backlog>>
    BY <1>5 DEF Issue, store
  <2>2. CASE brk.at = 1 /\ acct' = acct /\ vault' = vault \cup {brk.a} /\ brk' = [brk EXCEPT !.at = 2]
    <3>1. IsMessage(brk') /\ brk'.a = brk.a
      BY <2>2 DEF TokensInv, IsMessage
    <3> QED
      BY <2>1, <2>2, <3>1 DEF TokensInv, TokensCanBeRevealed
  <2>3. CASE brk.at = 2 /\ acct' = [acct EXCEPT ![brk.a] = "live"] /\ vault' = vault /\ BrokerDone
    <3>1. brk.a \in vault
      BY <1>5, <2>3 DEF Issue, TokensInv
    <3>2. acct' \in [People -> AccountState]
      BY <2>3 DEF TokensInv, AccountState
    <3>3. TokensCanBeRevealed'
      BY <2>1, <2>3, <3>1 DEF TokensInv, TokensCanBeRevealed
    <3> QED
      BY <2>1, <2>3, <3>2, <3>3, BrokerDoneRests DEF TokensInv
  <2>4. WriteOrder[1] = "vault" /\ WriteOrder[2] = "accounts"
    BY DEF WriteOrder
  <2> QED
    BY <1>5, <2>2, <2>3, <2>4 DEF Issue, Write
<1>6. ASSUME Import \/ Decline \/ DeleteFails PROVE TokensInv'
  BY <1>6, BrokerDoneRests, StoreKeepsTokens DEF Import, Decline, DeleteFails, store, TokensInv
<1>7. ASSUME AskIssuer PROVE TokensInv'
  <2>1. IsMessage(brk') /\ brk'.op = "delete"
    BY <1>7 DEF AskIssuer, TokensInv, IsMessage
  <2> QED
    BY <1>7, <2>1, StoreKeepsTokens DEF AskIssuer, store, TokensInv
<1>8. ASSUME IssuerBegins PROVE TokensInv'
  <2>1. acct' = [acct EXCEPT ![iss] = "pending"] /\ UNCHANGED <<vault, legacy, backlog, brk>>
    BY <1>8 DEF IssuerBegins
  <2>2. acct' \in [People -> AccountState] /\ \A a \in People : acct'[a] = "live" => acct[a] = "live"
    BY <2>1 DEF TokensInv, AccountState
  <2> QED
    BY <2>1, <2>2 DEF TokensInv, TokensCanBeRevealed
<1>9. ASSUME IssuerEnds PROVE TokensInv'
  <2>1. IsMessage(brk') /\ brk'.a = brk.a /\ brk'.op = brk.op /\ (brk' = brk \/ brk.op = "delete")
    BY <1>9 DEF IssuerEnds, TokensInv, IsMessage
  <2>2. acct' = acct \/ acct' = [acct EXCEPT ![iss] = "deleted"]
    BY <1>9 DEF IssuerEnds
  <2>3. UNCHANGED <<vault, legacy, backlog>>
    BY <1>9 DEF IssuerEnds
  <2>4. acct' \in [People -> AccountState] /\ \A a \in People : acct'[a] = "live" => acct[a] = "live"
    BY <2>2 DEF TokensInv, AccountState
  <2> QED
    BY <2>1, <2>3, <2>4 DEF TokensInv, TokensCanBeRevealed
<1>10. ASSUME DeleteEnds PROVE TokensInv'
  <2>1. UNCHANGED <<acct, legacy, backlog>> /\ IsMessage(brk') /\ brk'.op = "idle"
    BY <1>10, BrokerDoneRests DEF DeleteEnds
  <2>2. \A a \in People : acct[a] = "live" /\ a \in vault => a \in vault'
    BY <1>10 DEF DeleteEnds
  <2> QED
    BY <2>1, <2>2 DEF TokensInv, TokensCanBeRevealed
<1>11. ASSUME Around PROVE TokensInv'
  <2>1. CASE Expiry /\ UNCHANGED <<jar, req, store, desk>>
    BY <1>1, <2>1
  <2>2. CASE BrokerDies
    BY <2>2, StoreKeepsTokens DEF BrokerDies, Rest, IsMessage, store
  <2>3. CASE PanelDies
    <3>1. \A m \in backlog' : IsMessage(m) /\ m.at = 1
      BY <2>3 DEF PanelDies, TokensInv, IsMessage
    <3>2. IsMessage(brk') /\ brk'.op = brk.op /\ brk'.at = brk.at /\ brk'.a = brk.a
      BY <2>3 DEF PanelDies, TokensInv, IsMessage
    <3> QED
      BY <2>3, <3>1, <3>2, StoreKeepsTokens DEF PanelDies, store
  <2>4. ASSUME NEW a \in People, CommandLine(a) PROVE TokensInv'
    <3>1. /\ acct' = [acct EXCEPT ![a] = "live"] /\ legacy' = legacy \cup {a}
          /\ UNCHANGED <<vault, backlog, brk>>
      BY <2>4 DEF CommandLine, desk
    <3>2. /\ acct' \in [People -> AccountState]
          /\ \A p \in People \ {a} : acct'[p] = acct[p]
      BY <3>1 DEF TokensInv, AccountState
    <3> QED
      BY <3>1, <3>2 DEF TokensInv, TokensCanBeRevealed
  <2> QED
    BY <1>11, <2>1, <2>2, <2>3, <2>4 DEF Around
<1>12. ASSUME NEW r \in Requests, NEW b, NEW op, NEW code, Send(r, b, op, code) PROVE TokensInv'
  BY <1>1, <1>12 DEF Send
<1>13. ASSUME NEW r \in Requests,
              \/ TooMany(r) \/ SetupStart(r) \/ SetupFinish(r) \/ Login(r) \/ NewSession(r)
              \/ Current(r) \/ Leave(r) \/ Answer(r)
       PROVE  TokensInv'
  BY <1>1, <1>13 DEF TooMany, SetupStart, SetupFinish, Login, NewSession, Current, Leave, Answer, Attempt
<1>14. CASE UNCHANGED vars
  BY <1>1, <1>14 DEF vars
<1> QED
  BY <1>2, <1>3, <1>4, <1>5, <1>6, <1>7, <1>8, <1>9, <1>10, <1>11, <1>12, <1>13, <1>14 DEF Next

(* The token of every account that the panel issued and that nobody deletes *)
(* is in the vault, for any number of accounts, of deaths of the broker and *)
(* of calls it gave up: issue writes the vault first, and delete_account    *)
(* takes a token out only after it read the account as deleted.             *)
THEOREM PanelTokensCanBeRevealed == Spec => []TokensCanBeRevealed
<1>1. Init => TokensInv
  BY InitTokens
<1>2. TokensInv /\ [Next]_vars => TokensInv'
  BY TokensStep
<1>3. TokensInv => TokensCanBeRevealed
  BY DEF TokensInv
<1> QED
  BY <1>1, <1>2, <1>3, PTL DEF Spec
=============================================================================
