SPECIFICATION Spec
CONSTANTS
  Chats = {c1}
  Users = {u1, u2}
  Horizon = 2
  MaxTime = 9
  Budget <- MCBudgetRetry
SYMMETRY MCSymmetry
INVARIANTS
  CalledAtMostOnce
  CompletedMeansCalled
PROPERTIES
  KeepsPromise
