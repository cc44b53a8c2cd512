SPECIFICATION ConsentedSpec
CONSTANTS
  Member = {a, b, c}
  Intro = {i1, i2}
  Client = {c1, c2}
  Grant = {g1}
  Booking = {u1, u2}
  Slot = {s1}
  NoSlot = NoSlot
  Plan <- AmplePlan
  Capacity <- OneSeat
  StartAt <- AtOne
  EndAt <- AtTwo
  Batch = 1
  MaxTime = 0
SYMMETRY Symmetry
INVARIANTS
  SeatsMatchMeetups
  MeetupFollowsMatch
  HoldsSettledOnce
  ReportsDecideOutcome
  VersionsStandForState
PROPERTIES
  OutcomeFinal
  OnlyKnownTransitions
