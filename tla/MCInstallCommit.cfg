SPECIFICATION Spec
CONSTANTS
  Configs = {c1, c2}
  MaxInstalls = 3
  MaxEdits = 2
INVARIANTS
  CommittedConfigHasItsState
  FailedInstallLeavesNoTrace
PROPERTY
  InstalledStateIsUsed
