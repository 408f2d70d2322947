SPECIFICATION FairSpec
CONSTANTS
  t1 = t1
  k1 = k1
  Tools = {t1}
  Keys = {k1}
  MaxJob = 3
  ToolOf <- OneTool
  KeysOf <- Serial
  GlobalLimit = 2
  SessionLimit = 2
  ToolLimit = 2
  QueuedMax = 2
  Kinds = {"batch","early"}
  Deadlined = {2}
  MaxRestarts = 0
  WriterFaults = FALSE
  StoreFaults = FALSE
  Compaction = FALSE
  MaxForged = 0
  MaxForeign = 1
CHECK_DEADLOCK FALSE
INVARIANT KeysExclusive
PROPERTY EveryJobSettles
