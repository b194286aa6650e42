SPECIFICATION FairSpec
CONSTANTS
  Accounts = {a1, a2}
  Devices = {d1, d2}
  Keys = {k1, k2}
  Identities = {}
  Serials = {}
  Addresses = {2, 3}
  DeviceLimit = 1
  MaxClock = 1
  MaxFaults = 2
  None = None
INVARIANTS
  RetiredPeerIsGone
  RouteFollowsRecord
  DeviceLimitHolds
  DeletionCoversAccount
PROPERTIES
  DisabledIsFinal
  EnrollmentIsIdempotent
  DisabledPeerGoes
  WantedPeerReturns
