CONSTANTS
  Kind <- TwoKinds
  Clients <- OneClient
  Waits = {TRUE}
SPECIFICATION Spec
INVARIANT BlamesFailedFacade
CHECK_DEADLOCK FALSE
