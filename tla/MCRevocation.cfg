SPECIFICATION FairSpec
CONSTANTS
  Devices = {d1}
  Importers = {i1}
  AcceptAge = 1
  FreshAge = 2
  MaxFaults = 1
  Nothing = Nothing
INVARIANTS
  SnapshotIsWhole
  GateUsesItsList
PROPERTIES
  RevocationTakesEffect
  ServesWhileFresh
