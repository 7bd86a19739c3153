SPECIFICATION Spec
CONSTANTS
  Configs = {c1, c2}
  MaxInstalls = 1
  MaxEdits = 0
INVARIANT
  InterruptedInstallActivatesNothing
