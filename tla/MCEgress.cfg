SPECIFICATION FairSpec
CONSTANTS
  MaxRepairs = 1
  MaxStarts = 1
  MaxFaults = 3
INVARIANTS
  NeverDirect

  
