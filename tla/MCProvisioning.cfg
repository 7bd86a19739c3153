SPECIFICATION Spec
CONSTANTS
  FirstWorlds <- MCFirstWorlds
  UserFiles <- MCUserFiles
  Requests <- MCRequests
  MaxInstalls = 2
  MaxEvents = 1
CHECK_DEADLOCK FALSE
INVARIANTS
  SessionsGetWhatWasPlanned
  RequiredChoicesAreKept
  RerunChangesNothing
  EnginesHaveAPresenter
  ReadyIsUsable
  StartingOverSucceeds
