SPECIFICATION Spec
CONSTANTS
  gre = gre
  tcp = tcp
  evgt = evgt
  ORDER <- MCOrder
  Slow = evgt
  Preferred = tcp
  Refused = {gre, evgt}
  Startable = {tcp}
  Pause <- MCPause
  Misses <- MCMisses
  Proven = 2
  Stable = 4
  BadProbes = 3
  CoolDown = 3
  MaxFaults = 2
  None = None
PROPERTY LinkRecovers
CHECK_DEADLOCK FALSE
