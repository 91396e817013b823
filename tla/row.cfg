SPECIFICATION FairSpec
CONSTANTS
  K = 2
  M = 1
  Q = 3
  Coef <- Coef1
  Stripes <- TwoStripes
  Requests = {r1, r2}
  None = none
  Sync = sync
  Budgets <- Main
INVARIANT RowReadsCurrent
INVARIANT RowIsOneCodeword
INVARIANT AckedIsRecorded
INVARIANT QuiescedIsQuiet
CHECK_DEADLOCK FALSE
PROPERTY EverybodyEnds
