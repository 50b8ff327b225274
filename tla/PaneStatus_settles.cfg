SPECIFICATION Spec
CONSTANTS
  h1 = h1
  h2 = h2
  Backends = {"Claude", "Codex", "Grok"}
  Hook = {h1, h2}
  MaxTurns = 2
  MaxTools = 1
  MaxUses = 1
  MaxChanges = 1
  MayFail = TRUE
  MayInterrupt = TRUE
  HastyLocal = FALSE
  ClearsBusy = TRUE
  Free = Free
SYMMETRY Symmetry
INVARIANTS
  StatusMatchesAgent
  
  RetriedOnce
