SPECIFICATION FairSpec
CONSTANTS
  Job = {j1, j2}
  Dispatcher = {d1, d2}
  MaxAttempts = 2
  Batch = 1
INVARIANTS
  TypeOK
  FinalStateEarned
PROPERTIES
  FinishedOnce
  JobsFinish
