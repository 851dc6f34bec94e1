SPECIFICATION FairSpec
CONSTANTS
  u1 = u1
  u2 = u2
  Chats = {1, 2}
  Users = {u1, u2}
  Voters <- MCVoters
  Selections = {"rose"}
  Ballots <- MCBallots
  Handlers = {h1, h2}
  LastDay = 2
  Tuesdays = {2}
  Scenarios <- MCScenarios
INVARIANTS
  PinsTracked
  VotesStored
  FollowUpOnce
  OtherIsFollowed
  AttendeesTold
  AutoOncePerDay
PROPERTIES
  ChatsServed
