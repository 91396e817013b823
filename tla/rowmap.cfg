SPECIFICATION Spec
CONSTANTS
  MapK = 2
  MapRows = 2
  MapBlocks = {0}
  Writers = {w1, w2}
  Nobody = nobody
  MapBudgets <- MCBudgets
INVARIANT MapCoversLive
INVARIANT TrustedRowsAreWhole
INVARIANT LiveIsRecoverable
SYMMETRY Symmetric
CHECK_DEADLOCK FALSE
