SPECIFICATION AttemptSpec
CONSTANTS
  Limit = 2
  MaxWritten = 4
  Descendants = TRUE
INVARIANTS
  UsedOutputIsWhole
  NothingOutlivesTheAttempt
PROPERTY
  AttemptEnds
