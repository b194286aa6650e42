SPECIFICATION FairSpec
CONSTANTS
  Ips = {i1}
  Numbers = {n1, n2}
  Maximum = 2
  PerIp = 2
  Fallback = TRUE
  Cooldown = 1
  Idle = 1
  Window = 1
  Endings = {"lost"}
INVARIANTS
  LimitsHold
  OneProbe
PROPERTIES
  PrimaryReturns
  PeerLossEnds
  ShutdownEnds
