------------------------------ MODULE EvgtLink ------------------------------
(* One session of transport/evgenium-tunnel/main.go: two ends that carry   *)
(* datagrams over one TLS stream, each with the four workers of session()  *)
(* and the round-trip heartbeat of heartbeat.go.  Time is a number of      *)
(* ticks; it advances only when every worker has done what it can, that is *)
(* goroutines are fast against deadlines of seconds.                       *)
EXTENDS Naturals, Sequences, FiniteSets

CONSTANTS
  MaxSeq,    \* bound: datagrams read by each end, a function of the end
  Queue,     \* options.queue
  Control,   \* capacity of the control channel
  Window,    \* frames in the buffers of writer, kernels and network
  Latency,   \* ticks a frame may be under way
  Interval, Timeout,     \* of the heartbeat
  WriteLimit, ReadLimit, \* deadlines of writeFrames and readFrames
  Expire,    \* options.maxAge is set
  MaxFaults  \* bound: failures of UDP sockets and cuts of the network

Ends == {"client", "server"}
Peer(e) == IF e = "client" THEN "server" ELSE "client"
Workers == {"watch", "receive", "write", "read"}

ASSUME LinkConstants ==
  /\ MaxSeq \in [Ends -> Nat] /\ {Queue, Control, Window, Latency} \subseteq Nat
  /\ {Interval, Timeout, WriteLimit, ReadLimit, MaxFaults} \subseteq Nat
  /\ Interval > 0 /\ Expire \in BOOLEAN

VARIABLES
  seq, q, dropped,  \* receiveUDP's counter, its queue, history: what was lost
  control,          \* pongs to be sent, by the age of their probe
  wire,             \* frames from this end, the oldest first
  last, gaps,       \* of readFrames
  sent, next,       \* heartbeat: age of the open probe, ticks to the next one
  stuck, silent,    \* ticks under the write and the read deadline
  live, phase,      \* workers, and where session() itself is
  cut, faults,      \* ends whose frames are lost on the way
  jammed            \* history: a stream was full for a whole tick

data      == <<seq, q, dropped>>
beat      == <<sent, next>>
receiver  == <<last, gaps>>
limits    == <<stuck, silent>>
session   == <<live, phase>>
broken    == <<cut, faults, jammed>>
vars      == <<data, control, wire, receiver, beat, limits, session, broken>>

NoProbe == Timeout + 1
Frame(kind, n) == [kind |-> kind, n |-> n, age |-> 0]

Init ==
  /\ seq = [e \in Ends |-> 0] /\ q = [e \in Ends |-> <<>>]
  /\ dropped = [e \in Ends |-> {}] /\ control = [e \in Ends |-> <<>>]
  /\ wire = [e \in Ends |-> <<>>]
  /\ last = [e \in Ends |-> 0] /\ gaps = [e \in Ends |-> 0]
  /\ sent = [e \in Ends |-> NoProbe] /\ next = [e \in Ends |-> 0]
  /\ stuck = [e \in Ends |-> 0] /\ silent = [e \in Ends |-> 0]
  /\ live = [e \in Ends |-> Workers] /\ phase = [e \in Ends |-> "open"]
  /\ cut = {} /\ faults = 0 /\ jammed = FALSE

\* The socket of the other end is closed and the network says so.
Gone(e) == phase[Peer(e)] \in {"closed", "over"} /\ Peer(e) \notin cut
Works(e, w) == w \in live[e] /\ phase[e] \in {"open", "cancelled"}
Room(e) == Len(wire[e]) < Window /\ ~Gone(e)
Put(e, f) == wire' = [wire EXCEPT ![e] = Append(@, f)] /\ stuck' = [stuck EXCEPT ![e] = 0]
Ended(e, w) == live' = [live EXCEPT ![e] = @ \ {w}]
-----------------------------------------------------------------------------
(* receiveUDP: a datagram is numbered, then queued or dropped.             *)
MutantReceive(e) ==  \* mutant: the number is taken after the queue had room
  /\ Works(e, "receive") /\ seq[e] < MaxSeq[e]
  /\ IF Len(q[e]) < Queue
     THEN /\ seq' = [seq EXCEPT ![e] = @ + 1]
          /\ q' = [q EXCEPT ![e] = Append(@, seq'[e])] /\ UNCHANGED dropped
     ELSE dropped' = [dropped EXCEPT ![e] = @ \cup {seq[e] + 1}] /\ UNCHANGED <<seq, q>>
  /\ UNCHANGED <<control, wire, receiver, beat, limits, session, broken>>
Receive(e) ==
  /\ Works(e, "receive") /\ seq[e] < MaxSeq[e]
  /\ seq' = [seq EXCEPT ![e] = @ + 1]
  /\ IF Len(q[e]) < Queue
     THEN q' = [q EXCEPT ![e] = Append(@, seq'[e])] /\ UNCHANGED dropped
     ELSE dropped' = [dropped EXCEPT ![e] = @ \cup {seq'[e]}] /\ UNCHANGED q
  /\ UNCHANGED <<control, wire, receiver, beat, limits, session, broken>>

(* A probe is identified by the time it was sent, here by its age.         *)
(* writeFrames: a due probe, a pong or a datagram; select takes any of the *)
(* last two, and a batch goes on although a probe became due.              *)
ProbeDue(e) == sent[e] = NoProbe /\ next[e] = 0

SendProbe(e) ==
  /\ Works(e, "write") /\ Room(e) /\ ProbeDue(e)
  /\ sent' = [sent EXCEPT ![e] = 0] /\ next' = [next EXCEPT ![e] = Interval]
  /\ Put(e, Frame("ping", 0))
  /\ UNCHANGED <<data, control, receiver, silent, session, broken>>

SendPong(e) ==
  /\ Works(e, "write") /\ Room(e) /\ control[e] # <<>>
  /\ Put(e, Frame("pong", Head(control[e])))
  /\ control' = [control EXCEPT ![e] = Tail(@)]
  /\ UNCHANGED <<data, receiver, beat, silent, session, broken>>

SendData(e) ==
  /\ Works(e, "write") /\ Room(e) /\ q[e] # <<>>
  /\ Put(e, Frame("data", Head(q[e])))
  /\ q' = [q EXCEPT ![e] = Tail(@)]
  /\ UNCHANGED <<seq, dropped, control, receiver, beat, silent, session, broken>>

\* With maxAge a datagram that waited too long is not written.
Stale(e) ==
  /\ Expire /\ Works(e, "write") /\ Room(e) /\ q[e] # <<>>
  /\ dropped' = [dropped EXCEPT ![e] = @ \cup {Head(q[e])}]
  /\ q' = [q EXCEPT ![e] = Tail(@)]
  /\ UNCHANGED <<seq, control, wire, receiver, beat, limits, session, broken>>

(* readFrames: the next frame that arrives.                                *)
Arrived(e, kind) ==
  /\ Works(e, "read") /\ Peer(e) \notin cut /\ wire[Peer(e)] # <<>>
  /\ Head(wire[Peer(e)]).kind = kind
  /\ wire' = [wire EXCEPT ![Peer(e)] = Tail(@)]
  /\ silent' = [silent EXCEPT ![e] = 0]
Arriving(e) == Head(wire[Peer(e)]).n

MutantReadPing(e) ==  \* mutant: an unbuffered channel, the pong is lost on a busy writer
  /\ Arrived(e, "ping")
  /\ control' = IF Room(e) /\ control[e] = <<>> /\ q[e] = <<>>
                THEN [control EXCEPT ![e] = Append(@, Arriving(e))] ELSE control
  /\ UNCHANGED <<data, receiver, beat, stuck, session, broken>>
ReadPing(e) ==
  /\ Arrived(e, "ping")
  /\ control' = IF Len(control[e]) < Control
                THEN [control EXCEPT ![e] = Append(@, Arriving(e))] ELSE control
  /\ UNCHANGED <<data, receiver, beat, stuck, session, broken>>

\* heartbeat.ack: only the pong of the last probe counts.
ReadPong(e) ==
  /\ Arrived(e, "pong")
  /\ IF sent[e] # NoProbe /\ Arriving(e) = sent[e]
     THEN sent' = [sent EXCEPT ![e] = NoProbe] /\ next' = [next EXCEPT ![e] = Interval]
     ELSE UNCHANGED <<sent, next>>
  /\ UNCHANGED <<data, control, receiver, stuck, session, broken>>

ReadData(e) ==
  /\ Arrived(e, "data")
  /\ IF Arriving(e) <= last[e] THEN Ended(e, "read") /\ UNCHANGED receiver
     ELSE /\ last' = [last EXCEPT ![e] = Arriving(e)]
          /\ gaps' = [gaps EXCEPT ![e] = @ + Arriving(e) - last[e] - 1]
          /\ UNCHANGED live
  /\ UNCHANGED <<data, control, beat, stuck, phase, broken>>
-----------------------------------------------------------------------------
(* What ends a worker of an open session: the heartbeat, a deadline, the   *)
(* other end having closed, a local socket.                                *)
Expired(e) == sent[e] = Timeout
MustEnd(e) ==
  {w \in live[e] : \/ w = "watch" /\ Expired(e)
                   \/ w = "write" /\ (stuck[e] = WriteLimit \/ Gone(e))
                   \/ w = "read" /\ (silent[e] = ReadLimit \/ (Gone(e) /\ wire[Peer(e)] = <<>>))}

WorkerEnds(e) ==
  /\ phase[e] = "open"
  /\ \E w \in MustEnd(e) : Ended(e, w)
  /\ UNCHANGED <<data, control, wire, receiver, beat, limits, phase, broken>>

UdpFails(e) ==
  /\ phase[e] = "open" /\ live[e] = Workers /\ faults < MaxFaults /\ faults' = faults + 1
  /\ \E w \in {"receive", "read"} : Ended(e, w)
  /\ UNCHANGED <<data, control, wire, receiver, beat, limits, phase, cut, jammed>>

(* session: the first result cancels the context, then both sockets are    *)
(* closed; every worker sees one or the other and the session waits.       *)
Cancel(e) ==
  /\ phase[e] = "open" /\ live[e] # Workers
  /\ phase' = [phase EXCEPT ![e] = "cancelled"]
  /\ UNCHANGED <<data, control, wire, receiver, beat, limits, live, broken>>

Close(e) ==
  /\ phase[e] = "cancelled"
  /\ phase' = [phase EXCEPT ![e] = "closed"]
  /\ wire' = [wire EXCEPT ![Peer(e)] = <<>>]
  /\ UNCHANGED <<data, control, receiver, beat, limits, live, broken>>

MutantUnblocked(e) ==  \* mutant: the local socket is not closed
  CASE phase[e] = "open" -> {}
    [] phase[e] = "cancelled" -> {"watch"} \cup (IF Room(e) THEN {"write"} ELSE {})
    [] OTHER -> Workers \ {"receive"}
\* The watch and an idle writer see the context, the others their socket.
Unblocked(e) ==
  CASE phase[e] = "open" -> {}
    [] phase[e] = "cancelled" -> {"watch"} \cup (IF Room(e) THEN {"write"} ELSE {})
    [] OTHER -> Workers
Interrupted(e) ==
  /\ live[e] \cap Unblocked(e) # {}
  /\ live' = [live EXCEPT ![e] = @ \ Unblocked(e)]
  /\ UNCHANGED <<data, control, wire, receiver, beat, limits, phase, broken>>

Join(e) ==
  /\ phase[e] = "closed" /\ live[e] = {}
  /\ phase' = [phase EXCEPT ![e] = "over"]
  /\ q' = [q EXCEPT ![e] = <<>>] /\ control' = [control EXCEPT ![e] = <<>>]
  /\ dropped' = [dropped EXCEPT ![e] = @ \cup {q[e][i] : i \in 1..Len(q[e])}]
  /\ sent' = [sent EXCEPT ![e] = NoProbe] /\ next' = [next EXCEPT ![e] = 0]
  /\ stuck' = [stuck EXCEPT ![e] = 0] /\ silent' = [silent EXCEPT ![e] = 0]
  /\ UNCHANGED <<seq, wire, receiver, live, broken>>
-----------------------------------------------------------------------------
(* The network from one end is cut: what it writes arrives no more.        *)
Cut(e) ==
  /\ e \notin cut /\ faults < MaxFaults
  /\ cut' = cut \cup {e} /\ faults' = faults + 1
  /\ UNCHANGED <<data, control, wire, receiver, beat, limits, session, jammed>>

\* Something an end will do at once, and a frame that must arrive first.
Waiting(e) == ProbeDue(e) \/ control[e] # <<>> \/ q[e] # <<>>
Busy(e) ==
  \/ phase[e] = "open" /\ (MustEnd(e) # {} \/ live[e] # Workers \/ (Waiting(e) /\ Room(e)))
  \/ phase[e] = "cancelled" \/ live[e] \cap Unblocked(e) # {}
  \/ phase[e] = "closed" /\ live[e] = {}
Overdue(e) == /\ e \notin cut /\ wire[e] # <<>> /\ Head(wire[e]).age = Latency
              /\ phase[Peer(e)] = "open"

Up(n, limit) == IF n < limit THEN n + 1 ELSE n
Older(f) == [kind |-> f.kind, age |-> Up(f.age, Latency),
             n |-> IF f.kind = "data" THEN f.n ELSE Up(f.n, NoProbe)]
Opened(e) == phase[e] = "open"
Tick ==
  /\ \A e \in Ends : ~Busy(e) /\ ~Overdue(e)
  /\ wire' = [e \in Ends |-> [i \in 1..Len(wire[e]) |-> Older(wire[e][i])]]
  /\ control' = [e \in Ends |-> [i \in 1..Len(control[e]) |-> Up(control[e][i], NoProbe)]]
  /\ sent' = [e \in Ends |-> IF Opened(e) /\ sent[e] # NoProbe
                             THEN Up(sent[e], Timeout) ELSE sent[e]]
  /\ next' = [e \in Ends |-> IF Opened(e) /\ next[e] > 0 THEN next[e] - 1 ELSE next[e]]
  /\ stuck' = [e \in Ends |-> IF Opened(e) /\ ~Room(e) THEN Up(stuck[e], WriteLimit)
                              ELSE stuck[e]]
  /\ silent' = [e \in Ends |-> IF Opened(e) THEN Up(silent[e], ReadLimit) ELSE silent[e]]
  /\ jammed' = (jammed \/ \E e \in Ends : Len(wire[e]) = Window)
  /\ UNCHANGED <<data, receiver, session, cut, faults>>

Read(e) == ReadPing(e) \/ ReadPong(e) \/ ReadData(e)
Write(e) == SendProbe(e) \/ SendPong(e) \/ SendData(e) \/ Stale(e)
End(e) == WorkerEnds(e) \/ Cancel(e) \/ Close(e) \/ Interrupted(e) \/ Join(e)
Next == Tick \/ \E e \in Ends : Receive(e) \/ Read(e) \/ Write(e) \/ End(e)
                                \/ UdpFails(e) \/ Cut(e)

(* Goroutines run, frames that are not lost arrive, time passes.           *)
Fairness == WF_vars(Tick) /\ \A e \in Ends : WF_vars(Read(e)) /\ WF_vars(Write(e)) /\ WF_vars(End(e))
Spec == Init /\ [][Next]_vars /\ Fairness
-----------------------------------------------------------------------------
TypeOK ==
  /\ \A e \in Ends : /\ seq[e] \in 0..MaxSeq[e] /\ last[e] \in 0..MaxSeq[Peer(e)]
                     /\ Len(q[e]) <= Queue /\ Len(wire[e]) <= Window
                     /\ Len(control[e]) <= Control
  /\ sent \in [Ends -> 0..NoProbe] /\ next \in [Ends -> 0..Interval]
  /\ live \in [Ends -> SUBSET Workers] /\ cut \subseteq Ends
  /\ phase \in [Ends -> {"open", "cancelled", "closed", "over"}]

(* Either direction is the lossy pipe of Datagrams: what is lost is lost   *)
(* before the stream, the rest arrives once and in order, no session ends  *)
(* as a replay, and the remote gap counter is exact.                       *)
Upstream == INSTANCE Datagrams
  WITH submitted <- seq["client"], missing <- dropped["client"],
       delivered <- last["server"], gaps <- gaps["server"]
DatagramsArrive == Upstream!Spec

(* As long as nothing fails and the stream takes what is written, no end   *)
(* is ended by its own deadlines, although the queues are full and a round *)
(* trip takes longer than the interval of the probes (heartbeat.probe,     *)
(* writeFrames, readFrames).                                               *)
HealthyLinkStays ==
  faults = 0 /\ ~jammed => \A e \in Ends : live[e] = Workers

(* What that takes: twice the latency, there and back, is less than the     *)
(* heartbeat's timeout, and with the interval less than the read deadline  *)
(* (12, 3 and 20 seconds in the code); the channel of pongs holds one.     *)
Timing ==
  /\ 2 * Latency < Timeout /\ Interval + 2 * Latency < ReadLimit
  /\ WriteLimit > 0 /\ Control > 0

(* A link cut in one direction ends at both ends, although data may go on  *)
(* arriving at one of them; and what ends one worker ends the session, and *)
(* the other end's (heartbeat.watch, session).                             *)
BrokenLinkEnds ==
  faults > 0 ~> \A e \in Ends : phase[e] = "over"
=============================================================================
