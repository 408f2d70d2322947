SPECIFICATION FairSpec
CONSTANTS
  Mails = {1}
  Msg <- OneOfOne
  Conv <- Here
  Parts <- Two
  MaxPending = 1
  MaxActive = 1
  MaxAttempts = 1
  MaxFaults = 1
  MaxCrashes = 1

PROPERTIES ClaimedSettles BoxedSettles
CHECK_DEADLOCK FALSE
