--------------------------- MODULE TcpRelayProofs ---------------------------
(***************************************************************************)
(* The limits of the relay count the connections exactly, and one probe at *)
(* a time asks after the primary, for any number of addresses,             *)
(* connections and ticks.  The counters are cardinalities, so the steps    *)
(* that matter are those by which a connection enters or leaves Busy.      *)
(***************************************************************************)
EXTENDS TcpRelay, FiniteSetTheorems, TLAPS

Inv == TypeOK /\ LimitsHold /\ OneProbe
Stages == {"free", "select", "primary", "dialed", "fallback", "bridge"}

LEMMA ConnsFinite == IsFiniteSet(Conns)
BY TcpRelayAssumption, FS_Product DEF Conns

(* Busy and From(i) are finite, so their cardinalities are numbers.        *)
LEMMA Finite == /\ IsFiniteSet(Busy) /\ Cardinality(Busy) \in Nat
                /\ \A i \in Ips : /\ IsFiniteSet(From(i)) 
                                  /\ Cardinality(From(i)) \in Nat
<1>1. Busy \subseteq Conns /\ \A i \in Ips : From(i) \subseteq Conns
  BY DEF Busy, From
<1>2. IsFiniteSet(Busy) /\ \A i \in Ips : IsFiniteSet(From(i))
  BY <1>1, ConnsFinite, FS_Subset
<1> QED BY <1>2, FS_CardinalityType

(* A goroutine that moves on stays busy.                                   *)
LEMMA MoveKeeps ==
  ASSUME stage \in [Conns -> Stages], NEW c \in Conns, stage[c] # "free",
         NEW s \in Stages \ {"free"}, Goto(c, s), UNCHANGED limits, LimitsHold
  PROVE  LimitsHold' /\ stage' \in [Conns -> Stages]
<1>1. stage' \in [Conns -> Stages] /\ Busy' = Busy
  BY DEF Goto, Busy, Stages
<1>2. \A i \in Ips : From(i)' = From(i)
  BY <1>1 DEF From
<1> QED BY <1>1, <1>2 DEF LimitsHold, limits

(* acquire and a new goroutine.                                            *)
LEMMA EnterCounts ==
  ASSUME stage \in [Conns -> Stages], total \in Nat, ips \in [Ips -> Nat],
         NEW c \in Conns, stage[c] = "free", acquire(c[1]), Goto(c, "select"),
         LimitsHold
  PROVE  /\ LimitsHold' /\ stage' \in [Conns -> Stages]
         /\ total' \in Nat /\ ips' \in [Ips -> Nat]
<1>0. c[1] \in Ips
  BY DEF Conns
<1>1. /\ stage' \in [Conns -> Stages]
      /\ c \notin Busy /\ Busy' = Busy \cup {c}
  BY DEF Goto, Busy, Stages
<1>2. total' = Cardinality(Busy') /\ total' <= Maximum /\ total' \in Nat
  <2>1. Cardinality(Busy') = Cardinality(Busy) + 1
    BY <1>1, Finite, FS_AddElement
  <2>2. Maximum \in Nat /\ total < Maximum /\ total' = total + 1
    BY TcpRelayAssumption DEF acquire
  <2> QED BY <2>1, <2>2 DEF LimitsHold
<1>3. ips' \in [Ips -> Nat]
  BY <1>0 DEF acquire
<1>4. ASSUME NEW i \in Ips
      PROVE  ips'[i] = Cardinality(From(i)') /\ ips'[i] <= PerIp
  <2>1. CASE i = c[1]
    <3>1. c \notin From(i) /\ From(i)' = From(i) \cup {c}
      BY <1>1, <2>1 DEF From
    <3>2. Cardinality(From(i)') = Cardinality(From(i)) + 1
      BY <3>1, Finite, FS_AddElement
    <3> QED BY <3>2, <2>1, <1>0, TcpRelayAssumption DEF LimitsHold, acquire
  <2>2. CASE i # c[1]
    <3>1. From(i)' = From(i)
      BY <1>1, <2>2 DEF From
    <3> QED BY <3>1, <2>2, <1>0 DEF LimitsHold, acquire
  <2> QED BY <2>1, <2>2
<1> QED BY <1>1, <1>2, <1>3, <1>4 DEF LimitsHold

(* The deferred release of a goroutine that returns.                       *)
LEMMA LeaveCounts ==
  ASSUME stage \in [Conns -> Stages], total \in Nat, ips \in [Ips -> Nat],
         NEW c \in Conns, stage[c] # "free", Leave(c), LimitsHold
  PROVE  /\ LimitsHold' /\ stage' \in [Conns -> Stages]
         /\ total' \in Nat /\ ips' \in [Ips -> Nat]
<1>0. c[1] \in Ips
  BY DEF Conns
<1>1. /\ stage' \in [Conns -> Stages]
      /\ c \in Busy /\ Busy' = Busy \ {c}
  BY DEF Leave, Goto, Busy, Stages
<1>2. Cardinality(Busy') = Cardinality(Busy) - 1 /\ Cardinality(Busy') \in Nat
  <2>1. Cardinality(Busy') = Cardinality(Busy) - 1
    BY <1>1, Finite, FS_RemoveElement
  <2>2. IsFiniteSet(Busy') 
    BY <1>1, Finite, FS_RemoveElement
  <2> QED BY <2>1, <2>2, FS_CardinalityType
<1>3. total' = Cardinality(Busy') /\ total' <= Maximum /\ total' \in Nat
  BY <1>2, TcpRelayAssumption DEF LimitsHold, Leave, release
<1>4. ASSUME NEW i \in Ips
      PROVE  ips'[i] = Cardinality(From(i)') /\ ips'[i] <= PerIp /\ ips'[i] \in Nat
  <2>1. CASE i = c[1]
    <3>1. c \in From(i) /\ From(i)' = From(i) \ {c}
      BY <1>1, <2>1 DEF From
    <3>2. Cardinality(From(i)') = Cardinality(From(i)) - 1 /\ IsFiniteSet(From(i)')
      BY <3>1, Finite, FS_RemoveElement
    <3>3. Cardinality(From(i)') \in Nat
      BY <3>2, FS_CardinalityType
    <3> QED BY <3>2, <3>3, <2>1, <1>0, TcpRelayAssumption DEF LimitsHold, Leave, release
  <2>2. CASE i # c[1]
    <3>1. From(i)' = From(i)
      BY <1>1, <2>2 DEF From
    <3> QED BY <3>1, <2>2, <1>0 DEF LimitsHold, Leave, release
  <2> QED BY <2>1, <2>2
<1>5. ips' \in [Ips -> Nat]
  BY <1>4, <1>0 DEF Leave, release
<1> QED BY <1>1, <1>3, <1>4, <1>5 DEF LimitsHold

(* The selector: the one connection with probe set is the one that probing *)
(* stands for.                                                             *)
LEMMA InitInv == Init => Inv
<1> SUFFICES ASSUME Init PROVE Inv
  OBVIOUS
<1>1. Busy = {} /\ \A i \in Ips : From(i) = {}
  BY DEF Init, Busy, From
<1>2. LimitsHold
  <2>1. Cardinality({}) = 0
    BY FS_EmptySet
  <2> QED BY <1>1, <2>1, TcpRelayAssumption DEF Init, LimitsHold
<1>3. TypeOK
  <2>1. peer \in [Conns -> [Sides -> {"alive", "gone", "lost"}]]
    BY DEF Init
  <2>2. held \in [Conns -> [Sides -> 0..Window]]
    BY TcpRelayAssumption DEF Init
  <2>3. /\ quiet \in [Conns -> 0..Idle] /\ wait \in 0..Cooldown
        /\ total \in Nat /\ ips \in [Ips -> Nat]
    BY TcpRelayAssumption DEF Init
  <2>4. /\ stage \in [Conns -> {"free", "select", "primary", "dialed", "fallback", "bridge"}]
        /\ probe \in [Conns -> BOOLEAN] /\ answer \in [Conns -> BOOLEAN]
        /\ live \in [Conns -> SUBSET Sides] /\ open \in [Conns -> BOOLEAN]
    BY DEF Init
  <2> QED BY <2>1, <2>2, <2>3, <2>4 DEF Init, TypeOK
<1> QED BY <1>2, <1>3 DEF Init, Inv, OneProbe

(* The copies and the peers touch only the variables of bridge.            *)
LEMMA BridgedTypes ==
  ASSUME TypeOK, NEW c \in Conns, NEW running \in BOOLEAN, Bridging(c, running)
  PROVE  /\ live' \in [Conns -> SUBSET Sides] /\ open' \in [Conns -> BOOLEAN]
         /\ peer' \in [Conns -> [Sides -> {"alive", "gone", "lost"}]]
         /\ held' \in [Conns -> [Sides -> 0..Window]]
         /\ quiet' \in [Conns -> 0..Idle]
BY TcpRelayAssumption DEF TypeOK, Bridging

LEMMA HandleKeeps ==
  ASSUME Inv, NEW c \in Conns, Handle(c)
  PROVE  Inv'
<1> USE DEF Inv
<1> DEFINE Kept == LimitsHold' /\ stage' \in [Conns -> Stages] /\ total' \in Nat
                   /\ ips' \in [Ips -> Nat]
<1>0. stage \in [Conns -> Stages] /\ total \in Nat /\ ips \in [Ips -> Nat]
  BY DEF TypeOK, Stages
<1>1. CASE Accept(c)
  <2>1. Kept
    BY <1>0, <1>1, EnterCounts DEF Accept
  <2>2. TypeOK'
    BY <2>1, <1>1 DEF TypeOK, Stages, Accept, selector, dialing, bridged, process
  <2>3. OneProbe'
    BY <1>0, <1>1 DEF OneProbe, Accept, Goto, selector, dialing, Dialing, Stages
  <2> QED BY <2>1, <2>2, <2>3
<1>2. CASE Select(c)
  <2>1. Kept
    BY <1>0, <1>2, MoveKeeps DEF Select, limits, Stages
  <2>2. TypeOK'
    BY <2>1, <1>2, TcpRelayAssumption
    DEF TypeOK, Stages, Select, TryPrimary, bridged, process
  <2>3. OneProbe'
    BY <1>0, <1>2, TcpRelayAssumption
    DEF OneProbe, TypeOK, Select, TryPrimary, Goto, Dialing, Stages
  <2> QED BY <2>1, <2>2, <2>3
<1>3. CASE DialPrimary(c)
  <2>1. Kept
    BY <1>0, <1>3, MoveKeeps DEF DialPrimary, limits, Stages
  <2>2. TypeOK'
    BY <2>1, <1>3 DEF TypeOK, Stages, DialPrimary, selector, bridged, process
  <2>3. OneProbe'
    BY <1>0, <1>3 DEF OneProbe, DialPrimary, selector, Goto, Dialing, Stages
  <2> QED BY <2>1, <2>2, <2>3
<1>4. CASE Answered(c)
  <2>1. Kept
    BY <1>0, <1>4, MoveKeeps DEF Answered, Bridged, limits, Stages
  <2>2. Bridging(c, TRUE)
    BY <1>4 DEF Answered, Bridged
  <2>3. /\ live' \in [Conns -> SUBSET Sides] /\ open' \in [Conns -> BOOLEAN]
        /\ peer' \in [Conns -> [Sides -> {"alive", "gone", "lost"}]]
        /\ held' \in [Conns -> [Sides -> 0..Window]]
        /\ quiet' \in [Conns -> 0..Idle]
    BY <2>2, BridgedTypes
  <2>4. /\ retry' = FALSE /\ wait' = 0 /\ probing' \in BOOLEAN
        /\ probe' \in [Conns -> BOOLEAN] /\ answer' \in [Conns -> BOOLEAN]
        /\ UNCHANGED <<up, process>>
    BY <1>4 DEF TypeOK, Answered
  <2>5. retry' \in BOOLEAN /\ wait' \in 0..Cooldown
    <3>1. 0 \in 0..Cooldown
      BY TcpRelayAssumption
    <3> QED BY <2>4, <3>1, Zenon
  <2>6. /\ up' \in BOOLEAN /\ stopping' \in BOOLEAN /\ listening' \in BOOLEAN
        /\ serving' \in BOOLEAN
    BY <2>4 DEF TypeOK, process
  <2>7. TypeOK'
    BY <2>1, <2>3, <2>4, <2>5, <2>6, Zenon DEF TypeOK, Stages
  <2>8. OneProbe'
    BY <1>0, <1>4 DEF OneProbe, TypeOK, Answered, Bridged, Goto, Dialing, Stages
  <2> QED BY <2>1, <2>7, <2>8
<1>5. CASE Refused(c)
  <2>1. Kept
    BY <1>0, <1>5, MoveKeeps, LeaveCounts, TcpRelayAssumption
    DEF Refused, limits, Stages
  <2>2. /\ retry' = TRUE /\ wait' \in 0..Cooldown /\ probing' \in BOOLEAN
        /\ probe' \in [Conns -> BOOLEAN]
        /\ UNCHANGED <<answer, bridged, up, process>>
    BY <1>5, TcpRelayAssumption DEF TypeOK, Refused
  <2>3. TypeOK'
    BY <2>1, <2>2 DEF TypeOK, Stages, bridged, process
  <2>4. OneProbe'
    BY <1>0, <1>5, TcpRelayAssumption
    DEF OneProbe, TypeOK, Refused, Leave, Goto, Dialing, Stages
  <2> QED BY <2>1, <2>3, <2>4
<1>6. CASE Cancelled(c)
  <2>1. Kept
    BY <1>0, <1>6, LeaveCounts DEF Cancelled
  <2>2. TypeOK'
    BY <2>1, <1>6 DEF TypeOK, Stages, Cancelled, bridged, process
  <2>3. OneProbe'
    BY <1>0, <1>6 DEF OneProbe, TypeOK, Cancelled, Leave, Goto, Dialing, Stages
  <2> QED BY <2>1, <2>2, <2>3
<1>7. CASE DialFallback(c)
  <2>1. Kept
    BY <1>0, <1>7, MoveKeeps, LeaveCounts DEF DialFallback, Bridged, limits, Stages
  <2>2. TypeOK'
    BY <2>1, <1>7, BridgedTypes
    DEF TypeOK, Stages, DialFallback, Bridged, selector, dialing, bridged, process
  <2>3. OneProbe'
    BY <1>0, <1>7
    DEF OneProbe, DialFallback, Bridged, Leave, selector, dialing, Goto, Dialing, Stages
  <2> QED BY <2>1, <2>2, <2>3
<1> QED BY <1>1, <1>2, <1>3, <1>4, <1>5, <1>6, <1>7 DEF Handle

LEMMA BridgeKeeps ==
  ASSUME Inv, NEW c \in Conns, Bridge(c)
  PROVE  Inv'
<1> USE DEF Inv
<1>0. stage \in [Conns -> Stages] /\ total \in Nat /\ ips \in [Ips -> Nat]
  BY DEF TypeOK, Stages
<1>1. CASE BridgeEnds(c)
  <2>1. /\ LimitsHold' /\ stage' \in [Conns -> Stages] /\ total' \in Nat
        /\ ips' \in [Ips -> Nat]
    BY <1>0, <1>1, LeaveCounts DEF BridgeEnds
  <2>2. TypeOK'
    BY <2>1, <1>1, BridgedTypes
    DEF TypeOK, Stages, BridgeEnds, selector, dialing, process
  <2>3. OneProbe'
    BY <1>0, <1>1
    DEF OneProbe, BridgeEnds, Leave, selector, dialing, Goto, Dialing, Stages
  <2> QED BY <2>1, <2>2, <2>3
<1>2. ASSUME UNCHANGED <<stage, limits, selector, dialing>> PROVE LimitsHold' /\ OneProbe'
  BY <1>2 DEF LimitsHold, OneProbe, Busy, From, limits, selector, dialing
<1>3. ASSUME NEW s \in Sides, Copy(c, s) PROVE Inv'
  <2>1. TypeOK'
    BY <1>3, TcpRelayAssumption
    DEF TypeOK, Copy, Sides, Other, limits, selector, dialing, process
  <2> QED BY <2>1, <1>2, <1>3 DEF Copy
<1>4. ASSUME NEW s \in Sides, CopyEnds(c, s) PROVE Inv'
  <2>1. TypeOK'
    BY <1>4 DEF TypeOK, CopyEnds, limits, selector, dialing, process
  <2> QED BY <2>1, <1>2, <1>4 DEF CopyEnds
<1>5. ASSUME NEW s \in Sides, Drain(c, s) PROVE Inv'
  <2>1. TypeOK'
    BY <1>5, TcpRelayAssumption DEF TypeOK, Drain, limits, selector, dialing, process
  <2> QED BY <2>1, <1>2, <1>5 DEF Drain
<1>6. ASSUME NEW s \in Sides, PeerLeaves(c, s) PROVE Inv'
  <2>1. TypeOK'
    BY <1>6, TcpRelayAssumption
    DEF TypeOK, PeerLeaves, limits, selector, dialing, process
  <2> QED BY <2>1, <1>2, <1>6 DEF PeerLeaves
<1>7. CASE StopBridge(c)
  <2>1. TypeOK'
    BY <1>7 DEF TypeOK, StopBridge, limits, selector, dialing, process
  <2> QED BY <2>1, <1>2, <1>7 DEF StopBridge
<1> QED BY <1>1, <1>3, <1>4, <1>5, <1>6, <1>7 DEF Bridge

(* What is left changes neither a place nor the probe.                     *)
LEMMA StepInv == Inv /\ [Next]_vars => Inv'
<1> SUFFICES ASSUME Inv, [Next]_vars PROVE Inv'
  OBVIOUS
<1> USE DEF Inv
<1>1. ASSUME UNCHANGED <<stage, limits, probing, probe>> PROVE LimitsHold' /\ OneProbe'
  BY <1>1 DEF LimitsHold, OneProbe, Busy, From, limits
<1>2. CASE PrimaryChanges
  <2>1. TypeOK'
    BY <1>2 DEF TypeOK, PrimaryChanges, limits, selector, dialing, bridged, process
  <2> QED BY <2>1, <1>1, <1>2 DEF PrimaryChanges, selector, dialing
<1>3. CASE Tick
  <2>1. wait' \in 0..Cooldown /\ quiet' \in [Conns -> 0..Idle]
    BY <1>3, TcpRelayAssumption DEF TypeOK, Tick
  <2>2. TypeOK'
    BY <2>1, <1>3 DEF TypeOK, Tick, limits, dialing, process
  <2> QED BY <2>2, <1>1, <1>3 DEF Tick, dialing
<1>4. CASE Stop \/ LoopEnds \/ Return
  <2>1. TypeOK'
    BY <1>4 DEF TypeOK, Stop, LoopEnds, Return, limits, selector, dialing, bridged
  <2> QED BY <2>1, <1>1, <1>4 DEF Stop, LoopEnds, Return, selector, dialing
<1>5. CASE UNCHANGED vars
  BY <1>5 DEF vars, TypeOK, LimitsHold, OneProbe, Busy, From, limits, selector,
     dialing, bridged, process
<1> QED BY <1>2, <1>3, <1>4, <1>5, HandleKeeps, BridgeKeeps DEF Next

LEMMA SpecInv == Spec => []Inv
BY InitInv, StepInv, PTL DEF Spec

(* Every variable keeps its type: in particular no counter goes negative   *)
(* when goroutines give their places back.                                 *)
THEOREM RelayTypeCorrect == Spec => []TypeOK
BY SpecInv, PTL DEF Inv

(* Places are counted exactly and never exceed -max-connections and        *)
(* -max-per-ip, on every way a connection can end.                         *)
THEOREM RelayLimitsHold == Spec => []LimitsHold
BY SpecInv, PTL DEF Inv

(* A dead primary is probed by one connection at a time, and probing is    *)
(* never left behind.                                                      *)
THEOREM RelayOneProbe == Spec => []OneProbe
BY SpecInv, PTL DEF Inv
=============================================================================
