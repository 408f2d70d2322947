SPECIFICATION Spec
CONSTANTS
  Jobs = {1}
  Keys = {}
  Texts = {"a"}
  Specs <- OneEvery
  Patches <- NoPatches
  CronEvery = 2
  Grace = 1
  Cap = 3
  MaxAttempts = 2
  Verbs = {1, 2}
  StoreFaults = TRUE
  TornTails = FALSE
  OutboxFaults = TRUE
  Tampering = TRUE
  TurnFaults = FALSE
  Backwards = FALSE
  MaxRev = 1
  MaxTime = 3
  MaxRuns = 2
  MaxCrashes = 2

INVARIANTS LogIsTruth BoundRunsOnce SucceededIsPublished
CHECK_DEADLOCK FALSE
