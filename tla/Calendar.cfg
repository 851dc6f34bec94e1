SPECIFICATION Spec
CONSTANTS
  Users = {u1}
  Years <- MCYears
  Scenarios <- MCScenarios
  Length <- MCLength
  Minute = 60
  Moments <- MCMoments
  LastYear = 2026
  MaxCommands = 2
  DayCounts <- MCDayCounts
  ShortDates <- MCShortDates
  FullDates <- MCFullDates
  CoffeeMinutes <- MCCoffeeMinutes
  ClockTimes <- MCClockTimes
  EtaMinutes <- MCEtaMinutes
INVARIANTS
  DatesUnderstood
  AwayAsAsked
  MeetingAsAsked
  PresenceReads
CHECK_DEADLOCK FALSE
