SPECIFICATION FairSpec
CONSTANTS
  Client = {c}
  c = c
  Capacity = 2
  LastN = 1
  MaxRecords = 2
  MaxFiles = 2
  Bounds <- OneRebindingOrReturn
  Torn = TRUE
INVARIANTS
  GapFree
PROPERTIES
  
  WaitsEnd
CHECK_DEADLOCK FALSE
