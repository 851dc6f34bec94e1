SPECIFICATION Spec
CONSTANTS
  Chats = {c1}
  Users = {u1, u2}
  Horizon = 2
  MaxTime = 3
  Budget <- MCBudgetEarly
PROPERTY CalledNotEarly
