SPECIFICATION GrantedFairSpec
CONSTANTS
  Member = {a, b}
  Intro = {i1}
  Client = {c1}
  Grant = {g1}
  Booking = {}
  Slot = {}
  NoSlot = NoSlot
  Plan <- ShortPlan
  Capacity <- OneSeat
  StartAt <- AtOne
  EndAt <- AtTwo
  Batch = 1
  MaxTime = 2
PROPERTIES
  AllowanceExpires
