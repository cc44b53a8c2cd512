SPECIFICATION Spec
CONSTANTS
  Member = {a, b}
  Intro = {i1, i2}
  Client = {c1}
  Grant = {g1, g2}
  Booking = {u1}
  Slot = {s1}
  NoSlot = NoSlot
  Plan <- QuotaPlan
  Capacity <- OneSeat
  StartAt <- AtOne
  EndAt <- AtTwo
  Batch = 1
  MaxTime = 1
SYMMETRY Symmetry
INVARIANTS
  TypeOK
  LedgerBalances
  HoldsSettledOnce
PROPERTIES
  ImplementsAllowances
  ActsOnCurrentRows
