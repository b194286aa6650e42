SPECIFICATION FairSpec
CONSTANTS
  ru = ru
  ee = ee
  Ids <- TwoPaths
  Resolvers = {r1}
  MaxFaults = 1
  MaxIgnored = 1
  MaxChanges = 1
  Own = Own
  None = None
  NoRanking = NoRanking
INVARIANTS
  ProtectionHolds
  BlockCanBeUndone
  DisconnectRestores
PROPERTIES
  LossesSurviveWhileUsable
  RecoveryEnds
  DisconnectEnds
