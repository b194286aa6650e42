SPECIFICATION Spec
CONSTANTS
  Rules <- Policies
  n1 = n1
  Nets = {n1}
  NetOf <- SameNet
  MaxBridges = 2
  MaxChanges = 1
  MaxFaults = 1
  None = None
INVARIANTS
  OnlyExcludedLeave
  LeftoversAreOwned
  CleanIsWhole
PROPERTY BridgeIsTracked
