SPECIFICATION Spec
CONSTANTS
  Browsers = {b1}
  Requests = {r1, r2}
  Sids = {s1, s2, s3}
  Keys = {k1, k2, k3}
  People = {a1}
  PerAddress = 3
  MaxCode = 2
  MaxWork = 3
  MaxFaults = 1
  None = None
INVARIANTS
  CodeOpensOneSession
  TokensCanBeRevealed
SYMMETRY Symmetry
CHECK_DEADLOCK FALSE
