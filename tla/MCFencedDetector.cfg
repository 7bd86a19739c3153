SPECIFICATION Spec
CONSTANTS
  MaxBlock = 8
  MaxReads = 6
  Byte <- MCByte
  Openers <- MCOpeners
  Chunks <- MCChunks
INVARIANTS
  RetentionBounded
  BlocksMatchReference
CHECK_DEADLOCK FALSE
