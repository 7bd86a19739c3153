SPECIFICATION InputSpec
CONSTANTS
  MaxReads = 4
  Chunks <- MCChunks
INVARIANTS
  InputCarriedOutInOrder
  OnlyScalarPrefixDelayed
PROPERTY
  NothingAfterClose
CHECK_DEADLOCK FALSE
