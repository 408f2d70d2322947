SPECIFICATION FairSpec
CONSTANTS
  Jobs = {1, 2}
  Keys = {}
  Texts = {"a", "b"}
  Specs <- SlotsOrHeartbeat
  Patches <- NoPatches
  CronEvery = 2
  Grace = 1
  Cap = 1
  MaxAttempts = 2
  Verbs = {1}
  StoreFaults = FALSE
  TornTails = FALSE
  OutboxFaults = FALSE
  Tampering = FALSE
  TurnFaults = FALSE
  Backwards = FALSE
  MaxRev = 1
  MaxTime = 3
  MaxRuns = 4
  MaxCrashes = 1

INVARIANTS SlotsAccounted RepeatsAreQuiet
PROPERTY DueSettles
CHECK_DEADLOCK FALSE
