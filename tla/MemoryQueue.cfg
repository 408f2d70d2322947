SPECIFICATION FairSpec
CONSTANTS
  h1 = h1
  Hosts = {h1}
  Ops <- WriteThenForget
  MaxWorker = 2
  MaxJob = 2
  MaxFaults = 1
  MaxCrashes = 1
  MaxEdits = 1
  MaxTroubles = 2

INVARIANT NothingLost
PROPERTIES IndexedWhenCommitted SettledNotRerun  TrackedSettles
CHECK_DEADLOCK FALSE
