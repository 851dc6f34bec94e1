SPECIFICATION Spec
CONSTANTS
  People = {p1, p2}
  NoOne = NoOne
  Unset = Unset
  Handlers = {h1, h2}
  MaxToggles = 2
  MaxFaults = 1
  MaxStops = 2
INVARIANTS
  HelpIsExact
  AnnouncedInGroups
  MenuHonest
PROPERTIES
  StartMends
CHECK_DEADLOCK FALSE
