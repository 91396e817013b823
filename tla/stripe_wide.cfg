SPECIFICATION FairSpec
CONSTANTS
  K = 2
  M = 3
  Q = 5
  Coef <- Coef3
  Requests = {r1, r2}
  SyncRequests = {r2}
  None = none
  RmwLevel = 1
  Budgets <- Wide
  Passes <- AllPasses
  WriteOps = {"lend", "part"}
  RereadMayFail = FALSE
INVARIANT MembersCurrent
PROPERTY RequestsAndPassesEnd
CHECK_DEADLOCK FALSE
