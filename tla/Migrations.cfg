SPECIFICATION FairSpec
CONSTANTS
  Ids = {1, 2}
  NoRef = 0
  Releases <- MCReleases
  MaxStops = 2
INVARIANTS
  IInv
  ServedSchema
  DataKept
PROPERTIES
  UpgradeEnds
