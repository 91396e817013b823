SPECIFICATION PartSpec
CONSTANTS
  MaxDisks = 7
  MaxRow = 12
  Blocks = {0, 1, 2}
  PerPage = 2
  CacheMax = 1
  Discards <- MCDiscards
  CsumBudgets <- MCBudgets
  K = 2
  M = 2
  Q = 3
  Coef <- Coef2
  Stripes = {0, 1, 2}
  ParityAt <- MCParityAt
  EntrySpace = 2
  RingPages = 8
  Losable = {1, 3}
  PplBudgets <- MCPplBudgets
INVARIANT EngineAgreesWithStripes
INVARIANT InverseMap
INVARIANT OverwritesOnlyMoved
INVARIANT NoGoodBlockFails
INVARIANT WritesStayVerified
INVARIANT WriteHoleClosed
INVARIANT CleanIsWhole
CHECK_DEADLOCK FALSE
