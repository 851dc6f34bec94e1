SPECIFICATION Spec
CONSTANTS
  Ids = {1, 2}
  NoRef = 0
  Releases <- MCReleases
  MaxStops = 2
INVARIANTS
  DataSurvives
