SPECIFICATION FairSpec
CONSTANTS
  Reshapes <- MCReshapes
  Rows = 2
  InitMayFail = FALSE
  FaultLag = FALSE
  LoneRecord = FALSE
  WritesAfterReplay = FALSE
  DegradedStart = FALSE
INVARIANT NothingInFlightIsTheOnlyCopy
INVARIANT ServesLastWrite
INVARIANT AssemblySucceeds
PROPERTY FrontierNeverRetreats
PROPERTY ReshapeSettles
CHECK_DEADLOCK FALSE
