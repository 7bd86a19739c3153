SPECIFICATION Spec
CONSTANTS
  KeyWeight <- MCKeyWeight
  Blocks <- MCBlocks
  Widths = {1, 2}
  EntryLimits = {0, 2, 3}
  ByteLimits = {3, 7}
  MaxLength = 2
INVARIANTS
  HitIsCurrent
  KeptAreMostRecent
  PutKeepsAllThatFits
