SPECIFICATION SetupSpec
CONSTANTS
  r1 = r1
  r2 = r2
  Request = {r1, r2}
  Targets = {"automatic", "existing", "new"}
  x = x
  y = y
  Texts = {x, y}
  Interrupts = {TRUE, FALSE}
  Parallels = {TRUE}
  Marks = {TRUE, FALSE}
  MaxPanes = 2
  MaxTexts = 1
  MaxMishaps = 2
  Limit = 2
  Trouble = {}
  None = None
INVARIANTS
  RepliesBelong
PROPERTIES
  AgentsOnDemand
  LoneRequestFinishes
CHECK_DEADLOCK FALSE
