SPECIFICATION SetupSpec
CONSTANTS
  Generation = {1, 2}
  Pane = {1, 2}
  Version = {1, 2}
  Grave = {1, 2}
  MaxEntries = 1
  Retention = TRUE
  Faults = {"append", "torn", "sync", "commit", "reopen"}
  MaxFaults = 1
  MaxCrashes = 1
  MaxBackups = 3
  Reading = TRUE
INVARIANTS
  PointsKept
  EntriesKept
  ReaderOffersNoUsedPoint
PROPERTIES
  StoreImplemented
