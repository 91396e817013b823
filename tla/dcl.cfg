SPECIFICATION Spec
CONSTANTS
  Pool = 5
  K = 1
  M = 2
  Groups = 1
  S = 2
  Rows = 2
  Base <- Base5
  PopWindow = 2
  CheckEvery = 1
  CopyBand = 1
  Losable = {0, 3}
  DclBudgets <- MCBudgets
INVARIANT ReadsFollowTheWrites
INVARIANT PopulatedIsRedundant
CHECK_DEADLOCK FALSE
