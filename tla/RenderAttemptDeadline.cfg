SPECIFICATION AttemptSpec
CONSTANTS
  Limit = 1
  MaxWritten = 1
  Descendants = TRUE
PROPERTY
  DeadlineEndsAttempt
