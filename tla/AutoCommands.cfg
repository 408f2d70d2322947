SPECIFICATION Spec
CONSTANTS
  Jobs = {1}
  Keys = {}
  Texts = {"a"}
  Specs <- SomeKinds
  Patches <- SomePatches
  CronEvery = 2
  Grace = 1
  Cap = 3
  MaxAttempts = 2
  Verbs = {1, 2, 3, 4}
  StoreFaults = TRUE
  TornTails = TRUE
  OutboxFaults = FALSE
  Tampering = FALSE
  TurnFaults = TRUE
  Backwards = FALSE
  MaxRev = 2
  MaxTime = 2
  MaxRuns = 1
  MaxCrashes = 1

PROPERTIES  RunsOnlyActive
CHECK_DEADLOCK FALSE
