SPECIFICATION FairSpec
CONSTANTS
  Requests = {r1, r2, r3}
  Readers = {}
  O = 3
  R = 4
  Slots = {1}
  CowsMax = 2
  Budgets <- Crowd
PROPERTY WritesAndDiscardsEnd
PROPERTY CommandsEnd
CHECK_DEADLOCK FALSE
