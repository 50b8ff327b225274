SPECIFICATION SetupSpec
CONSTANTS
  a = a
  b = b
  Sender = {a, b}
  Continue = Continue
  User = User
  Nobody = Nobody
  Settles = TRUE
  MaxAttempts = 2
  MaxFailures = 5
  MaxQueue = 2
  MaxDraft = 1
  MayFail = TRUE
  MaySwallow = TRUE
  MayBeLate = TRUE
  MayAsk = TRUE
  MayTakeOver = TRUE
INVARIANTS
  SubmittedVerbatim
  RetriesBounded
PROPERTIES
  SendsAreAnswered
CHECK_DEADLOCK FALSE
