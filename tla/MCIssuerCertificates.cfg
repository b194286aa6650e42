SPECIFICATION Spec
CONSTANTS
  Accounts = {a1}
  Devices = {d1, d2}
  Keys = {k1}
  Identities = {i1, i2}
  Serials = {c1, c2}
  Addresses = {2}
  DeviceLimit = 2
  MaxClock = 2
  MaxFaults = 1
  None = None
SYMMETRY NamesAreSymmetric
INVARIANTS
  RetiredCertificateIsBarred
  AccessIsRecorded
