SPECIFICATION FairSpec
CONSTANTS
  Backends = {"Claude", "Codex", "Grok", "OpenCode", "OpenCode2"}
  Kinds = {"fresh", "resume", "continue", "fork", "restore"}
  MaxPanes = 2
  MaxRuns = 0
  MaxSessions = 3
  MaxPrompts = 1
  MaxRestarts = 1
  t1 = t1
  Task = {t1}
  h1 = h1
  Hook = {h1}
  Trouble = {}
  Free = Free
INVARIANTS
  BoundToItsAgent
  BindingFollowsAgent
  
PROPERTIES
  HooksAreHeard
CHECK_DEADLOCK FALSE
