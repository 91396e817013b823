SPECIFICATION Spec
CONSTANTS
  MetaMembers = {1, 2}
  MetaO = 2
  MetaR = 4
  PerPage = 2
  Slots = {1, 2}
  JPages = 4
  MetaBudgets <- MCBudgets
INVARIANT AssembleFindsTheChain
INVARIANT RowsHoldWhatTheyPromise
CHECK_DEADLOCK FALSE
