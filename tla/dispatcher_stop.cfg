SPECIFICATION Spec
CONSTANTS
  Job = {j1}
  Dispatcher = {d1}
  MaxAttempts = 2
  Batch = 1
INVARIANT RunsUntilCancelled
