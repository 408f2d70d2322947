SPECIFICATION FairSpec
CONSTANTS
  j1 = j1
  j2 = j2
  Job <- Jobs
  MaxRequest = 4
  MaxAttempts = 3
  MaxCrashes = 2

INVARIANTS OneAnswerPerCall ClosedTruly SentIsOnTheBooks OwedIsKept
 
