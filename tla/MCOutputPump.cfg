SPECIFICATION Spec
CONSTANTS
  MaxChunks = 5
  Capacity = 2
  Sizes = {1}
  MaxBlocks = 1
  MaxToggles = 1
  Strict = TRUE
INVARIANTS
  TypeOK
  NothingDroppedAtEnd
  EndIsAnnounced
  ToggleReachesLaterOutput
PROPERTIES
  ImplementsDelivery
  BlockedReaderIsReleased
  PumpReturns
