SPECIFICATION Spec
CONSTANTS
  MaxControl = 5
  MaxBlock = 5
  MaxPending = 4
  Strict = FALSE
  Openers <- MCOpeners
  Chunks <- MCChunks
INVARIANTS
  OnlyParsersWithhold
  RenderedIsGenuineBlock
  NothingRenderedAcrossToggle
PROPERTIES
  ImplementsExactDisplay
  CancellationCostsOneBlock
CHECK_DEADLOCK FALSE
