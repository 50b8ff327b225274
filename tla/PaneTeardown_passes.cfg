SPECIFICATION SetupSpec
CONSTANTS
  p1 = p1
  p2 = p2
  c1 = c1
  c2 = c2
  k1 = k1
  h1 = h1
  NoPane = NoPane
  Pane = {p1, p2}
  Recovered = {p1}
  Reconciler = {c1, c2}
  Killer = {k1}
  HookTask = {h1}
  ServerMayDie = TRUE
INVARIANTS
  ReconcilersRecordOnce
  RecoveredPanesKept
  
  RecordedDeathsAreReal
  ManagedPanesHaveState
PROPERTIES
  LoneDeathsGetRecorded
