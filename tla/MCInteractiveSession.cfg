SPECIFICATION Spec
CONSTANTS
  Sizes <- MCSizes
  MaxOutput = 2
  MaxKeys = 1
  MaxResizes = 2
  MaxRefusals = 1
INVARIANTS
  SuccessIsComplete
  NothingOutlivesTheSession
  ColumnsFollowTheChild
PROPERTIES
  FailureEndsTheChild
  SessionReturns
  ChildFollowsTerminal
