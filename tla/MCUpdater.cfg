SPECIFICATION Spec
CONSTANTS
  Versions = {v1, v2}
  Fresh = fresh
  FreshVersion = v2
  Procs = {p1, p2}
  MaxRuns = 3
  MaxFaults = 2
  None = None
INVARIANT InterruptedUpdateIsSafe
SYMMETRY Symmetry
CHECK_DEADLOCK FALSE
