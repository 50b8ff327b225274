SPECIFICATION FairSpec
CONSTANTS
  Backends = {"claude", "codex"}
  MaxPrompts = 2
  MaxAnswers = 1
  Bounds <- OfEachTwo
  Hasty = FALSE
  Zombies = FALSE
  Skewed = FALSE
INVARIANTS
  OutcomesAreTrue
  AnswersDelivered
  SteersEndWithTurn
CHECK_DEADLOCK FALSE
PROPERTIES
  PromptsAnswered
