SPECIFICATION Spec
CONSTANTS
  MaxSeq <- Uplink
  Queue = 1
  Control = 2
  Window = 2
  Latency = 1
  Interval = 1
  Timeout = 4
  WriteLimit = 3
  ReadLimit = 7
  Expire = TRUE
  MaxFaults = 1
INVARIANTS
  HealthyLinkStays
PROPERTIES
  DatagramsArrive
  BrokenLinkEnds
