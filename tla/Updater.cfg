SPECIFICATION FairSpec
CONSTANTS
  v1 = v1
  v2 = v2
  v3 = v3
  Versions = {v1, v2, v3}
  NoVersion = NoVersion
  FlatRelays = FALSE
  MaxTxns = 2
  MaxDeaths = 2
  MaxFaults = 2

INVARIANTS PointerIsWhole SucceededStarts 
PROPERTY InFlightSettles
