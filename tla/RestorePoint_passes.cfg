SPECIFICATION SetupSpec
CONSTANTS
  r1 = r1
  Main = Main
  Request = {r1}
  Generation = {1, 2, 3}
  Pane = {1, 2}
  Version = {1, 2}
  Grave = {1}
  MaxEntries = 2
  AutoRestore = TRUE
  MayRefuse = TRUE
  MayRebind = FALSE
  MaxCrashes = 1
INVARIANTS
  PointsSettled
  
PROPERTIES
  RecoveryChoiceKept
  
