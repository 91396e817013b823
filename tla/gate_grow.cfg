SPECIFICATION FairSpec
CONSTANTS
  Requests = {r1}
  Old <- G21
  New <- G31
  Rows = 2
  MaxSector = 99
  MaxWrites = 1
  MaxFails = 1
  MayLose = FALSE
  DoneMayFail = TRUE
  LateArrival = FALSE
  SlowBypass = FALSE
  SlowRecheck = TRUE
INVARIANT GrownCapacityIsZero
PROPERTY RequestsAndReshapeEnd
