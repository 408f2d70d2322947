SPECIFICATION Spec
CONSTANTS
  t1 = t1
  k1 = k1
  Tools = {t1}
  Keys = {k1}
  MaxJob = 1
  ToolOf <- OneTool
  KeysOf <- NoKeys
  GlobalLimit = 1
  SessionLimit = 1
  ToolLimit = 1
  QueuedMax = 2
  Kinds = {"batch","early","native"}
  Deadlined = {1}
  MaxRestarts = 2
  WriterFaults = TRUE
  StoreFaults = TRUE
  Compaction = TRUE
  MaxForged = 1
  MaxForeign = 1
CHECK_DEADLOCK FALSE
INVARIANTS LedgerFirst OnceUnlessGap NoLostCompletion QuotaBalance
PROPERTIES TerminalIsFinal ImplementsLife
