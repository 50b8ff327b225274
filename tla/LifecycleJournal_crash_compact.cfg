SPECIFICATION WholeSpec
CONSTANTS
  Generation = {1}
  Pane = {1}
  Version = {1}
  Grave = {1, 2}
  MaxEntries = 1
  Retention = TRUE
  Faults = {}
  MaxFaults = 0
  MaxCrashes = 1
  MaxBackups = 2
  Reading = FALSE
INVARIANTS
  CurrentBackupNamed
