SPECIFICATION Spec
CONSTANTS
  Requests = {r1, r2}
  Readers = {s1}
  O = 2
  R = 4
  Slots = {1, 2}
  CowsMax = 2
  Budgets <- Mixed
SYMMETRY Symmetric
INVARIANT OneOwner
INVARIANT ReadersKeepTheirRow
INVARIANT QuietAtTheRecord
PROPERTY IsSnapDevice
