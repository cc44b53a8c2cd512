SPECIFICATION GrantedFairSpec
CONSTANTS
  Member = {a, b, c}
  Intro = {i1, i2}
  Client = {c1}
  Grant = {g1}
  Booking = {}
  Slot = {}
  NoSlot = NoSlot
  Plan <- ShortPlan
  Capacity <- OneSeat
  StartAt <- AtOne
  EndAt <- AtTwo
  Batch = 1
  MaxTime = 2
INVARIANTS
  AnswersMatchState
PROPERTIES
  OverdueEnds
