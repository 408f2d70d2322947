SPECIFICATION Spec
CONSTANTS
  Mails = {1, 2}
  Msg <- OneOfTwo
  Conv <- Here
  Parts <- Two
  MaxPending = 1
  MaxActive = 1
  MaxAttempts = 2
  MaxFaults = 1
  MaxCrashes = 1

INVARIANTS   ShownOnce DeliveredIsWhole 
CHECK_DEADLOCK FALSE
