CONSTANTS
  Kind <- TwoKinds
  Clients <- OneClient
  Waits = {TRUE}
SPECIFICATION Spec
PROPERTY ShutdownBounded
CHECK_DEADLOCK FALSE
