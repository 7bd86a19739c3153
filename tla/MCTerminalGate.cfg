SPECIFICATION Spec
CONSTANTS
  MaxControl = 5
  MaxReads = 4
  Chunks <- MCChunks
INVARIANTS
  TypeOK
  SafeExactlyOnPlainLines
CHECK_DEADLOCK FALSE
