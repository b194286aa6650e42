------------------------------ MODULE TcpRelay ------------------------------
(***************************************************************************)
(* The TCP relay in front of the EvgeniumTunnel server                     *)
(* (transport/evgenium-tunnel/cmd/relay): one goroutine per connection     *)
(* takes a place under the limits, chooses a backend and copies bytes both *)
(* ways.  Connections share the limits and the backend selector, each      *)
(* under a mutex that is not held while a dial is under way.               *)
(*                                                                         *)
(* Time: wait is what is left of the cool-down of the primary, quiet[c]    *)
(* how long no copy of c has read anything.                                *)
(***************************************************************************)
EXTENDS Naturals, FiniteSets

CONSTANTS Ips,       \* client addresses
          Numbers,   \* tell the connections of an address apart
          Maximum,   \* -max-connections
          PerIp,     \* -max-per-ip
          Fallback,  \* there is a -fallback-backend
          Cooldown,  \* -primary-retry, in ticks
          Idle,      \* -idle-timeout, in ticks
          Window,    \* what the kernel buffers towards a peer
          Endings    \* how peers leave: "gone" (the socket says so), "lost"

ASSUME TcpRelayAssumption ==
  /\ IsFiniteSet(Ips) /\ IsFiniteSet(Numbers)
  /\ Maximum \in Nat \ {0} /\ PerIp \in Nat \ {0} /\ Fallback \in BOOLEAN
  /\ Cooldown \in Nat \ {0} /\ Idle \in Nat \ {0} /\ Window \in Nat
  /\ Endings \subseteq {"gone", "lost"}

VARIABLES
  stage,      \* where the goroutine of a connection is
  total, ips, \* limits
  retry, wait, probing,  \* the selector: retryAt is set, ticks to it, probing
  probe,      \* the connection's recoveryProbe
  answer,     \* outcome of its dial
  live, open, \* bridge: copies that run, named by their source; sockets open
  peer, held, quiet,  \* the two peers, what is buffered towards them
  up,         \* the primary accepts connections
  stopping, listening, serving  \* the context is cancelled; the accept loop
                                \* runs; serveWithFallback runs

limits   == <<total, ips>>
selector == <<retry, wait, probing>>
dialing  == <<probe, answer>>
bridged  == <<live, open, peer, held, quiet>>
process  == <<stopping, listening, serving>>
vars == <<stage, limits, selector, dialing, bridged, up, process>>

Conns == Ips \X Numbers
Sides == {"client", "backend"}
Other(s) == IF s = "client" THEN "backend" ELSE "client"
Dialing == {"primary", "dialed"}

Init ==
  /\ stage = [c \in Conns |-> "free"]
  /\ total = 0 /\ ips = [i \in Ips |-> 0]
  /\ retry = FALSE /\ wait = 0 /\ probing = FALSE
  /\ probe = [c \in Conns |-> FALSE] /\ answer = [c \in Conns |-> FALSE]
  /\ live = [c \in Conns |-> {}] /\ open = [c \in Conns |-> FALSE]
  /\ peer = [c \in Conns |-> [s \in Sides |-> "alive"]]
  /\ held = [c \in Conns |-> [s \in Sides |-> 0]]
  /\ quiet = [c \in Conns |-> 0]
  /\ up \in BOOLEAN /\ stopping = FALSE /\ listening = TRUE /\ serving = TRUE

Goto(c, s) == stage' = [stage EXCEPT ![c] = s]

(* The variables of bridge, which exist while it runs.                     *)
Bridging(c, running) ==
  /\ live' = [live EXCEPT ![c] = IF running THEN Sides ELSE {}]
  /\ open' = [open EXCEPT ![c] = running]
  /\ peer' = [peer EXCEPT ![c] = [s \in Sides |-> "alive"]]
  /\ held' = [held EXCEPT ![c] = [s \in Sides |-> 0]]
  /\ quiet' = [quiet EXCEPT ![c] = 0]
-----------------------------------------------------------------------------
(* Limits.                                                                 *)
acquire(i) ==
  /\ total < Maximum /\ ips[i] < PerIp
  /\ total' = total + 1 /\ ips' = [ips EXCEPT ![i] = @ + 1]
release(i) == total' = total - 1 /\ ips' = [ips EXCEPT ![i] = @ - 1]

(* A connection that exceeds a limit is closed at once, nothing changes.   *)
Accept(c) ==
  /\ listening /\ stage[c] = "free"
  /\ acquire(c[1])
  /\ Goto(c, "select")
  /\ UNCHANGED <<selector, dialing, bridged, up, process>>

(* The deferred calls of the goroutine.                                    *)
Leave(c) == Goto(c, "free") /\ release(c[1])
-----------------------------------------------------------------------------
(* backendSelector.connect: two critical sections around the dial.         *)
MutantTryPrimary == ~Fallback \/ wait = 0  \* mutant: others may probe as well
TryPrimary == ~Fallback \/ (wait = 0 /\ ~probing)

Select(c) ==
  LET recovery == TryPrimary /\ retry /\ Fallback
  IN /\ stage[c] = "select"
     /\ Goto(c, IF TryPrimary THEN "primary" ELSE "fallback")
     /\ probe' = [probe EXCEPT ![c] = recovery]
     /\ probing' = (probing \/ recovery)
     /\ UNCHANGED <<limits, retry, wait, answer, bridged, up, process>>

MutantDialPrimary(c) ==  \* mutant: a dial without time limit and context
  /\ stage[c] = "primary" /\ up
  /\ answer' = [answer EXCEPT ![c] = TRUE]
  /\ Goto(c, "dialed")
  /\ UNCHANGED <<limits, selector, probe, bridged, up, process>>
(* The dial ends by itself, by its time limit or with the context.         *)
DialPrimary(c) ==
  /\ stage[c] = "primary"
  /\ \E ok \in BOOLEAN :
       /\ ok => up
       /\ ~ok => ~up \/ stopping
       /\ answer' = [answer EXCEPT ![c] = ok]
  /\ Goto(c, "dialed")
  /\ UNCHANGED <<limits, selector, probe, bridged, up, process>>

Bridged(c) == Goto(c, "bridge") /\ Bridging(c, TRUE)

Answered(c) ==
  /\ stage[c] = "dialed" /\ answer[c]
  /\ retry' = FALSE /\ wait' = 0
  /\ probing' = (probing /\ ~probe[c]) /\ probe' = [probe EXCEPT ![c] = FALSE]
  /\ answer' = [answer EXCEPT ![c] = FALSE]
  /\ Bridged(c)
  /\ UNCHANGED <<limits, up, process>>

MutantRefused(c) ==  \* mutant: a probe that failed goes on being one
  /\ stage[c] = "dialed" /\ ~answer[c] /\ ~stopping
  /\ retry' = TRUE /\ wait' = Cooldown
  /\ IF Fallback THEN Goto(c, "fallback") /\ UNCHANGED limits ELSE Leave(c)
  /\ UNCHANGED <<dialing, probing, bridged, up, process>>
Refused(c) ==
  /\ stage[c] = "dialed" /\ ~answer[c] /\ ~stopping
  /\ retry' = TRUE /\ wait' = Cooldown
  /\ probing' = (probing /\ ~probe[c]) /\ probe' = [probe EXCEPT ![c] = FALSE]
  /\ IF Fallback THEN Goto(c, "fallback") /\ UNCHANGED limits ELSE Leave(c)
  /\ UNCHANGED <<answer, bridged, up, process>>

Cancelled(c) ==
  /\ stage[c] = "dialed" /\ ~answer[c] /\ stopping
  /\ probing' = (probing /\ ~probe[c]) /\ probe' = [probe EXCEPT ![c] = FALSE]
  /\ Leave(c)
  /\ UNCHANGED <<retry, wait, answer, bridged, up, process>>

DialFallback(c) ==
  /\ stage[c] = "fallback"
  /\ \/ Bridged(c) /\ UNCHANGED limits
     \/ Leave(c) /\ UNCHANGED bridged
  /\ UNCHANGED <<selector, dialing, up, process>>
-----------------------------------------------------------------------------
(* bridge: two copies that read with activityReader.                       *)
Copy(c, s) ==
  /\ stage[c] = "bridge" /\ open[c] /\ s \in live[c] /\ quiet[c] < Idle
  /\ peer[c][s] = "alive" /\ held[c][Other(s)] < Window
  /\ held' = [held EXCEPT ![c][Other(s)] = @ + 1]
  /\ quiet' = [quiet EXCEPT ![c] = 0]
  /\ UNCHANGED <<stage, limits, selector, dialing, live, open, peer, up, process>>

(* EOF or an error of either socket, the deadline, or sockets that the     *)
(* other copy or the context has closed.                                   *)
MustEnd(c) == ~open[c] \/ quiet[c] = Idle \/ \E s \in Sides : peer[c][s] = "gone"
CopyEnds(c, s) ==
  /\ stage[c] = "bridge" /\ s \in live[c] /\ MustEnd(c)
  /\ live' = [live EXCEPT ![c] = @ \ {s}] /\ open' = [open EXCEPT ![c] = FALSE]
  /\ UNCHANGED <<stage, limits, selector, dialing, peer, held, quiet, up, process>>

StopBridge(c) ==
  /\ stage[c] = "bridge" /\ stopping /\ open[c]
  /\ open' = [open EXCEPT ![c] = FALSE]
  /\ UNCHANGED <<stage, limits, selector, dialing, live, peer, held, quiet, up, process>>

MutantBridgeEnds(c) ==  \* mutant: the goroutine of a bridge keeps its place
  /\ stage[c] = "bridge" /\ live[c] = {}
  /\ Goto(c, "free") /\ Bridging(c, FALSE)
  /\ UNCHANGED <<limits, selector, dialing, up, process>>
BridgeEnds(c) ==
  /\ stage[c] = "bridge" /\ live[c] = {}
  /\ Leave(c) /\ Bridging(c, FALSE)
  /\ UNCHANGED <<selector, dialing, up, process>>
-----------------------------------------------------------------------------
(* The peers: they read, end the connection, or vanish without a word.     *)
Drain(c, s) ==
  /\ stage[c] = "bridge" /\ open[c] /\ peer[c][s] = "alive" /\ held[c][s] > 0
  /\ held' = [held EXCEPT ![c][s] = @ - 1]
  /\ UNCHANGED <<stage, limits, selector, dialing, live, open, peer, quiet, up, process>>

PeerLeaves(c, s) ==
  /\ stage[c] = "bridge" /\ open[c] /\ peer[c][s] = "alive"
  /\ \E how \in Endings : peer' = [peer EXCEPT ![c][s] = how]
  /\ UNCHANGED <<stage, limits, selector, dialing, live, open, held, quiet, up, process>>

PrimaryChanges ==
  /\ up' = ~up
  /\ UNCHANGED <<stage, limits, selector, dialing, bridged, process>>

MutantTick ==  \* mutant: the idle deadline is never reached
  /\ wait' = IF wait > 0 THEN wait - 1 ELSE 0
  /\ UNCHANGED <<stage, limits, retry, probing, dialing, bridged, up, process>>
Tick ==
  /\ wait' = IF wait > 0 THEN wait - 1 ELSE 0
  /\ quiet' = [c \in Conns |-> IF stage[c] = "bridge" /\ quiet[c] < Idle
                               THEN quiet[c] + 1 ELSE quiet[c]]
  /\ UNCHANGED <<stage, limits, retry, probing, dialing, live, open, peer,
                 held, up, process>>

(* SIGTERM cancels the context; a function of its own closes the listener. *)
Stop ==
  /\ ~stopping /\ stopping' = TRUE
  /\ UNCHANGED <<stage, limits, selector, dialing, bridged, up, listening, serving>>

(* Accept fails: the listener is closed, or the host is short of something. *)
LoopEnds ==
  /\ listening /\ listening' = FALSE
  /\ UNCHANGED <<stage, limits, selector, dialing, bridged, up, stopping, serving>>

(* The deferred wg.Wait.                                                   *)
Return ==
  /\ serving /\ ~listening /\ \A c \in Conns : stage[c] = "free"
  /\ serving' = FALSE
  /\ UNCHANGED <<stage, limits, selector, dialing, bridged, up, stopping, listening>>

Handle(c) ==
  \/ Accept(c) \/ Select(c) \/ DialPrimary(c) \/ Answered(c) \/ Refused(c) \/ Cancelled(c)
  \/ DialFallback(c)
Bridge(c) ==
  \/ \E s \in Sides : Copy(c, s) \/ CopyEnds(c, s) \/ Drain(c, s) \/ PeerLeaves(c, s)
  \/ StopBridge(c) \/ BridgeEnds(c)
Next ==
  \/ \E c \in Conns : Handle(c) \/ Bridge(c)
  \/ PrimaryChanges \/ Tick \/ Stop \/ LoopEnds \/ Return

(* Goroutines run, a dial has a time limit, time passes.  Clients,         *)
(* backends and the operator owe nothing.                                  *)
Works(c) ==
  \/ Select(c) \/ DialPrimary(c) \/ Answered(c) \/ Refused(c) \/ Cancelled(c)
  \/ DialFallback(c) \/ StopBridge(c) \/ BridgeEnds(c)
Fairness ==
  /\ \A c \in Conns : /\ WF_vars(Works(c))
                      /\ \A s \in Sides : WF_vars(CopyEnds(c, s))
  /\ WF_vars(Tick) /\ WF_vars(stopping /\ LoopEnds) /\ WF_vars(Return)

Spec == Init /\ [][Next]_vars
FairSpec == Spec /\ Fairness
-----------------------------------------------------------------------------
TypeOK ==
  /\ stage \in [Conns -> {"free", "select", "primary", "dialed", "fallback", "bridge"}]
  /\ total \in Nat /\ ips \in [Ips -> Nat]
  /\ retry \in BOOLEAN /\ wait \in 0..Cooldown /\ probing \in BOOLEAN
  /\ probe \in [Conns -> BOOLEAN] /\ answer \in [Conns -> BOOLEAN]
  /\ live \in [Conns -> SUBSET Sides] /\ open \in [Conns -> BOOLEAN]
  /\ peer \in [Conns -> [Sides -> {"alive", "gone", "lost"}]]
  /\ held \in [Conns -> [Sides -> 0..Window]] /\ quiet \in [Conns -> 0..Idle]
  /\ up \in BOOLEAN /\ stopping \in BOOLEAN /\ listening \in BOOLEAN
  /\ serving \in BOOLEAN

(* limits counts the connections that are open, in all and per address, on *)
(* every way a goroutine can end, so a place is neither lost nor given     *)
(* twice (limits.acquire, limits.release).                                 *)
Busy == {c \in Conns : stage[c] # "free"}
From(i) == {c \in Busy : c[1] = i}
LimitsHold ==
  /\ total = Cardinality(Busy) /\ total <= Maximum
  /\ \A i \in Ips : ips[i] = Cardinality(From(i)) /\ ips[i] <= PerIp

(* While the primary is known to be dead one connection at a time finds    *)
(* out if it has recovered; probing says whether there is one, so a probe  *)
(* that ended, however, makes room for the next (backendSelector).         *)
OneProbe ==
  /\ \A c \in Conns : probe[c] => stage[c] \in Dialing /\ probing
  /\ probing => \E c \in Conns : probe[c] /\ \A d \in Conns : probe[d] => d = c

(* A primary that stays up is used again, although dials that failed       *)
(* before may be recorded late, provided that clients keep coming.         *)
PrimaryReturns ==
  (<>[]up /\ []<>(\E c \in Conns : stage[c] = "select")) => []<>(~retry)

(* Whatever ends one direction ends both, and a connection whose peer left *)
(* or vanished, even with the other side talking, gives its place back     *)
(* (bridge, activityReader).                                               *)
PeerLossEnds ==
  \A c \in Conns : (stage[c] = "bridge" /\ \E s \in Sides : peer[c][s] # "alive")
                     ~> stage[c] = "free"

(* After SIGTERM the process ends: no dial, no copy keeps it alive.        *)
ShutdownEnds == stopping ~> ~serving
=============================================================================
