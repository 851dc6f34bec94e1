SPECIFICATION FairSpec
CONSTANTS
  Chats = {c1}
  Users = {u1}
  Horizon = 2
  MaxTime = 9
  Budget <- MCBudgetRestart
INVARIANTS
  IInv
  OneOpenPerChat
  NoMeetingForgotten
  CompletedCardIsClosed
PROPERTIES
  MeetingsEnd
