SPECIFICATION RetriesSpec
CONSTANTS
  a = a
  b = b
  c = c
  d = d
  key = key
  hangzhou = hangzhou
  Member <- MCMember
  Intro = {i1, i2}
  Client = {c1, c2}
  Grant = {g1}
  Booking = {}
  Slot = {}
  NoSlot = NoSlot
  Plan <- MCPlan
  Capacity <- OneSeat
  StartAt <- AtOne
  EndAt <- AtTwo
  Batch = 1
  MaxTime = 0
  City = {hangzhou}
  Key = {key}
  Payload <- MCPayload
  KeyTTL = 1
  MaxBatchSize = 20
  Profile <- MCProfile
  Criteria <- MCCriteria
  Today <- MCToday
SYMMETRY ClientsAlike
INVARIANTS
  ActiveLimitHolds
  AnswersMatchState
  OutcomeAnnounced
  PairIntroducedOnce
  ResponsesTellTruth
