SPECIFICATION Spec
CONSTANTS
  MaxIds = 2
  Names = {n1}
  Contents = {b1, b2}
  Collectors = {"inner", "direct"}
  Web = "web"
  Threads = {t1, t2}
  PerHour = 1
  DayCap = 3
  WebLimit = 2
  MaxSends = 4
  MaxHours = 1
  MaxFaults = 2
  None = None
INVARIANT AcceptedIsKept
SYMMETRY Symmetry
CHECK_DEADLOCK FALSE
