SPECIFICATION Spec
CONSTANTS
  Requests = {r1, r2}
  Old <- G31
  New <- G21
  Rows = 2
  MaxSector = 99
  MaxWrites = 1
  MaxFails = 1
  MayLose = TRUE
  DoneMayFail = FALSE
  LateArrival = TRUE
  SlowBypass = FALSE
  SlowRecheck = FALSE
SYMMETRY Symmetric
INVARIANT GateInv
INVARIANT ServedWhereItLives
PROPERTY IsBlockDevice
CHECK_DEADLOCK FALSE
