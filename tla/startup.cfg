SPECIFICATION FairSpec
CONSTANTS
  Process = {p, q}
  Checksum = {"x", "y"}
  Builds <- MCBuilds
  MaxVersion = 2
  PlanCodes <- MCPlans
  BootstrapEnabled = TRUE
  Loops <- MCLoops
  MaxRequests = 1
INVARIANTS
  RunningAgrees
  SchemaIsPrefix
  Bootstrapped
  ClosedLast
PROPERTIES
  RestartKeepsTuning
  StopEnds
