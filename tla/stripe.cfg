SPECIFICATION Spec
CONSTANTS
  K = 2
  M = 2
  Q = 3
  Coef <- Coef2
  Requests = {r1, r2}
  SyncRequests <- NoSync
  None = none
  RmwLevel = 1
  Budgets <- Main
  Passes <- AllPasses
  WriteOps = {"over", "lend", "part"}
  RereadMayFail = FALSE
SYMMETRY Symmetric
INVARIANT UptodateIsCurrent
INVARIANT MembersCurrent
INVARIANT BitClearMeansSettled
CHECK_DEADLOCK FALSE
