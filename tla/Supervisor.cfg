CONSTANTS
  Kind <- AllKinds
  Clients <- TwoClients
  Waits = {TRUE, FALSE}
SPECIFICATION Spec
INVARIANT TypeOK ReadyIsTrue RunReleases LogComplete
PROPERTY ShutdownCompletes
CHECK_DEADLOCK FALSE
