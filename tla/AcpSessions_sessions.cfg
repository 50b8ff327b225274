SPECIFICATION Spec
CONSTANTS
  MaxSessions = 2
  MaxPanes = 3
  None = None
  MaxLive = 1
  Bounds <- OfEachTwo
  SlowRevive = FALSE
INVARIANTS
  DeletedStaysDeleted
  NothingLost

  
CHECK_DEADLOCK FALSE
