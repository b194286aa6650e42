---------------------------- MODULE LinkSelector ----------------------------
(* The link between the servers: resilient-health.py, which moves the      *)
(* WireGuard tunnel between transports and restarts those that hang,       *)
(* transport.py, which it, the operator and the link's own start run, the  *)
(* link's unit with link-star.sh, and resource-watch.py.                   *)
(* A tick is one round of the loop, two seconds.                           *)
EXTENDS Naturals, Sequences

CONSTANTS
  ORDER,         \* the transports, the first choice first
  Slow,          \* the one with patience: evgt
  Preferred,     \* preferred-mode
  Refused,       \* those transport.py refuses while resource-hold exists
  Startable,     \* those link-star.sh starts the link with: hy, tcp (and direct)
  Pause,         \* ticks between switches: from Slow, from the others
  Misses,        \* failures before a switch: from Slow, from the others
  Proven,        \* good probes of a path before it is chosen
  Stable,        \* good probes, and ticks, before the return to Preferred
  BadProbes,     \* bad probes before a transport is restarted
  CoolDown,      \* ticks between restarts of one
  MaxFaults,     \* bound: what happens around the loop
  None

Paths == {ORDER[i] : i \in 1..Len(ORDER)}

ASSUME SelectorConstants ==
  /\ {Slow, Preferred} \cup Refused \cup Startable \subseteq Paths /\ None \notin Paths
  /\ {Pause.slow, Pause.fast, Misses.slow, Misses.fast, Proven, Stable, BadProbes, CoolDown,
      MaxFaults} \subseteq Nat

VARIABLES
  net,           \* the network carries the packets of a transport
  hung,          \* its process does not
  link,          \* evg-wg: "none", "made" by a start that goes on, "bare", "up"
  filter, endpoint,  \* nft's one source, WireGuard's peer
  mode,          \* the file
  hold,          \* resource-hold exists
  switch,        \* a run of transport.py: by the loop, by hand, by the link's start
  at,            \* the loop is at "probe", "choose", "switch" or "repair"
  saw,           \* its mode and inner, mode with the switch applied
  streaks, failures, bad, lastSwitch, restarted,
  faults

world == <<net, hung, link, hold>>
route == <<filter, endpoint, mode>>
count == <<streaks, failures, bad, lastSwitch, restarted>>
vars  == <<world, route, switch, at, saw, count, faults>>

Switchers == {"loop", "hand", "start"}
Nothing == [mode |-> None, inner |-> TRUE]
Idle == [at |-> "idle", to |-> None]
Top(a, b) == IF a > b THEN a ELSE b
Horizon == Top(Top(Pause.slow, Pause.fast), Stable)
Up(n, top) == IF n < top THEN n + 1 ELSE n

Works(p) == net[p] /\ ~hung[p]
Inner == link = "up" /\ filter = endpoint /\ Works(endpoint)

Fault == faults < MaxFaults /\ faults' = faults + 1

Fresh ==
  [streaks |-> [p \in Paths |-> 0], bad |-> [p \in Paths |-> 0],
   restarted |-> [p \in Paths |-> CoolDown]]

Init ==
  /\ net \in [Paths -> BOOLEAN] /\ hung = [p \in Paths |-> FALSE]
  /\ mode \in Paths /\ filter = mode /\ endpoint = mode /\ link = "up" /\ hold = FALSE
  /\ switch = [s \in Switchers |-> Idle]
  /\ at = "probe" /\ saw = Nothing
  /\ streaks = Fresh.streaks /\ bad = Fresh.bad /\ restarted = Fresh.restarted
  /\ failures = 0 /\ lastSwitch = Horizon /\ faults = 0

First(ok) ==
  LET I == {i \in 1..Len(ORDER) : ORDER[i] \in ok}
  IN  IF I = {} THEN None ELSE ORDER[CHOOSE i \in I : \A j \in I : i <= j]
Kind(m, settings) == IF m = Slow THEN settings.slow ELSE settings.fast

MutantChoose(m) ==
  IF lastSwitch < Kind(m, Pause) THEN None
  ELSE IF failures >= Kind(m, Misses) THEN First({p \in Paths \ {m} : streaks[p] >= Proven})
  ELSE IF m # Preferred /\ lastSwitch >= Stable THEN Preferred
  ELSE None

Choose(m) ==
  IF lastSwitch < Kind(m, Pause) THEN None
  ELSE IF failures >= Kind(m, Misses) THEN First({p \in Paths \ {m} : streaks[p] >= Proven})
  ELSE IF m # Preferred /\ lastSwitch >= Stable /\ streaks[Preferred] >= Stable THEN Preferred
  ELSE None

Stalled(m, inner) ==
  First({p \in Paths : bad[p] >= BadProbes /\ restarted[p] >= CoolDown /\ (p # m \/ ~inner)})
-----------------------------------------------------------------------------
(* main()                                                                  *)
Tick(r) ==
  /\ lastSwitch' = Up(lastSwitch, Horizon)
  /\ restarted' = [p \in Paths |-> Up(r[p], CoolDown)]

Sleep ==
  /\ at = "probe" /\ hold /\ Tick(restarted)
  /\ UNCHANGED <<world, route, switch, at, saw, streaks, failures, bad, faults>>

\* All the probes of a round; the endpoint must be the one of the file.
Probe ==
  /\ at = "probe" /\ ~hold
  /\ at' = "choose" /\ saw' = [mode |-> mode, inner |-> Inner]
  /\ streaks' = [p \in Paths |-> IF Works(p) THEN Up(streaks[p], Top(Proven, Stable)) ELSE 0]
  /\ bad' = [p \in Paths |-> IF Works(p) THEN 0 ELSE Up(bad[p], BadProbes)]
  /\ failures' = IF Inner /\ endpoint = mode THEN 0
                 ELSE Up(failures, Top(Misses.slow, Misses.fast))
  /\ UNCHANGED <<world, route, switch, lastSwitch, restarted, faults>>

Decide ==
  /\ at = "choose"
  /\ IF Choose(saw.mode) = None THEN at' = "repair" /\ UNCHANGED <<switch, lastSwitch>>
     ELSE /\ at' = "switch" /\ lastSwitch' = 0
          /\ switch' = [switch EXCEPT !["loop"] = [at |-> "check", to |-> Choose(saw.mode)]]
  /\ UNCHANGED <<world, route, saw, streaks, failures, bad, restarted, faults>>

\* systemctl restart, whose condition is that resource-hold does not exist.  It
\* may fail or take longer than ten seconds, which only the log is told.
Repair ==
  /\ at = "repair" /\ at' = "probe"
  /\ LET p == Stalled(saw.mode, saw.inner) IN
     IF p = None THEN Tick(restarted) /\ UNCHANGED <<hung, bad, streaks, faults>>
     ELSE /\ \/ hung' = [hung EXCEPT ![p] = hold] /\ faults' = faults
             \/ hung' = hung /\ Fault
          /\ Tick([restarted EXCEPT ![p] = 0])
          /\ bad' = [bad EXCEPT ![p] = 0] /\ streaks' = [streaks EXCEPT ![p] = 0]
  /\ saw' = Nothing
  /\ UNCHANGED <<net, link, hold, route, switch, failures>>
-----------------------------------------------------------------------------
(* transport.py: the filter, the endpoint and the file, one after the other *)
\* The start of the link ends with its run, a failed one takes all down again.
Ended(s, ok) ==
  /\ switch' = [switch EXCEPT ![s] = Idle]
  /\ IF s # "loop" THEN UNCHANGED <<at, saw, failures>>
     ELSE /\ at' = "repair"
          /\ failures' = IF ok THEN 0 ELSE failures
          /\ saw' = [saw EXCEPT !.mode = IF ok THEN switch[s].to ELSE @]
  /\ link' = IF s # "start" THEN link ELSE IF ok THEN "up" ELSE "none"

Goto(s, next) == switch' = [switch EXCEPT ![s].at = next] /\ UNCHANGED <<at, saw, failures, link>>

Check(s) ==
  /\ switch[s].at = "check"
  /\ IF hold /\ switch[s].to \in Refused THEN Ended(s, FALSE) ELSE Goto(s, "filter")
  /\ UNCHANGED <<net, hung, hold, route, streaks, bad, lastSwitch, restarted, faults>>

Filter(s) ==
  /\ switch[s].at = "filter" /\ filter' = switch[s].to /\ Goto(s, "endpoint")
  /\ UNCHANGED <<net, hung, hold, endpoint, mode, streaks, bad, lastSwitch, restarted, faults>>

Endpoint(s) ==
  /\ switch[s].at = "endpoint"
  /\ IF link # "none" THEN endpoint' = switch[s].to /\ Goto(s, "mode")
     ELSE endpoint' = endpoint /\ Ended(s, FALSE)
  /\ UNCHANGED <<net, hung, hold, filter, mode, streaks, bad, lastSwitch, restarted, faults>>

Mode(s) ==
  /\ switch[s].at = "mode" /\ mode' = switch[s].to /\ Ended(s, TRUE)
  /\ UNCHANGED <<net, hung, hold, filter, endpoint, streaks, bad, lastSwitch, restarted, faults>>
-----------------------------------------------------------------------------
(* link-star.sh: the unit is started by the operator, and by whatever      *)
(* requires it; its condition is that resource-hold does not exist.        *)
Down == link' = "none" /\ filter' = None /\ endpoint' = None

\* A mode it does not know makes it exit with the interface left in the
\* namespace, where the next start finds it in its way and takes it down.
StartLink ==
  /\ ~hold /\ link \in {"none", "bare"}
  /\ IF link = "bare" THEN Down /\ switch' = switch
     ELSE /\ UNCHANGED <<filter, endpoint>>
          /\ IF mode \in Startable
             THEN link' = "made" /\ switch' = [switch EXCEPT !["start"] = [at |-> "check", to |-> mode]]
             ELSE link' = "bare" /\ switch' = switch
  /\ UNCHANGED <<net, hung, hold, mode, at, saw, count, faults>>
-----------------------------------------------------------------------------
(* Around them                                                             *)
\* The loop gives transport.py ten seconds; a command in it may fail.
SwitchFails(s) ==
  /\ switch[s] # Idle /\ Fault /\ Ended(s, FALSE)
  /\ IF s = "start" THEN filter' = None /\ endpoint' = None ELSE UNCHANGED <<filter, endpoint>>
  /\ UNCHANGED <<net, hung, hold, mode, streaks, bad, lastSwitch, restarted>>

ByHand(p) ==
  /\ switch["hand"] = Idle /\ Fault
  /\ switch' = [switch EXCEPT !["hand"] = [at |-> "check", to |-> p]]
  /\ UNCHANGED <<world, route, at, saw, count>>

\* The service is restarted, with the transport.py it runs.
LoopRestarts ==
  /\ Fault /\ at' = "probe" /\ saw' = Nothing
  /\ switch' = [switch EXCEPT !["loop"] = Idle]
  /\ streaks' = Fresh.streaks /\ bad' = Fresh.bad /\ restarted' = Fresh.restarted
  /\ failures' = 0 /\ lastSwitch' = Horizon
  /\ UNCHANGED <<world, route>>

PathChanges(p) ==
  /\ Fault /\ net' = [net EXCEPT ![p] = ~@]
  /\ UNCHANGED <<hung, link, hold, route, switch, at, saw, count>>

Hangs(p) ==
  /\ ~hung[p] /\ Fault /\ hung' = [hung EXCEPT ![p] = TRUE]
  /\ UNCHANGED <<net, link, hold, route, switch, at, saw, count>>

\* resource-watch.py: three high samples; it stops the transports but the last one
\* and the link, and a start of it midway, whose interface stays.
ResourceStop ==
  /\ ~hold /\ Fault /\ hold' = TRUE
  /\ IF link = "up" THEN Down ELSE UNCHANGED <<filter, endpoint>> /\ link' = IF link = "made" THEN "bare" ELSE link
  /\ switch' = [switch EXCEPT !["start"] = Idle]
  /\ hung' = [p \in Paths |-> hung[p] \/ p # Slow]
  /\ UNCHANGED <<net, mode, at, saw, count>>

\* Nothing removes the hold but the operator.
Resume ==
  /\ hold /\ hold' = FALSE
  /\ UNCHANGED <<net, hung, link, route, switch, at, saw, count, faults>>

Loop == Sleep \/ Probe \/ Decide \/ Repair
Transport(s) == Check(s) \/ Filter(s) \/ Endpoint(s) \/ Mode(s)

Next ==
  \/ Loop
  \/ \E s \in Switchers : Transport(s) \/ SwitchFails(s)
  \/ \E p \in Paths : ByHand(p) \/ PathChanges(p) \/ Hangs(p)
  \/ LoopRestarts \/ StartLink \/ ResourceStop \/ Resume

\* The loop and what runs transport.py are scheduled, the link's unit is started
\* again and again where it is down without a hold: by the ingress, which requires
\* it and is started by its timer.  Nobody promises the operator's Resume.
Fairness ==
  /\ WF_vars(Loop) /\ WF_vars(StartLink)
  /\ \A s \in Switchers : WF_vars(Transport(s))

Spec == Init /\ [][Next]_vars /\ Fairness
-----------------------------------------------------------------------------
\* Without a hold two transports pass packets, or one and what transport.py sets
\* is of one piece.  (The loop never chooses the transport the file names, so it
\* cannot mend a half-done switch back to the only one that passes.)  The start of
\* the link is not refused: while it is down, the file names a mode it knows.
Settled == (\A s \in DOMAIN switch : switch[s] = Idle) => filter = mode /\ endpoint = mode
CanPass ==
  /\ ~hold /\ link # "bare"
  /\ \E p \in Paths : net[p] /\ (Settled \/ \E q \in Paths \ {p} : net[q])

\* If from some time on packets can pass, whether the transports' processes hang or
\* not, the link comes up for good: the loop neither stays on a dead transport, or
\* on what a half-done switch left, nor keeps moving it.
LinkRecovers == <>[]CanPass => <>[]Inner
=============================================================================
