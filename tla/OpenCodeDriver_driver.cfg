SPECIFICATION FairSpec
CONSTANTS
  Roots = {r1, r2}
  Kids = {k1}
  Copies = {f1}
  Home = r1
  None = None
  Versions <- BothVersions
  MaxAttempts = 1
  Budgets <- Small
  Hasty = FALSE
  Overlap = FALSE
INVARIANTS BindingWasShown RetriesRepeatFailed
PROPERTIES PaneConverges
