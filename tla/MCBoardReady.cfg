SPECIFICATION FairSpec
CONSTANTS
  c1 = c1
  c2 = c2
  NoVersion = NoVersion
  FirstTries = 3
  Retries = 5
  Connections = {c1, c2}
  Required <- FourZeroZero
  BootImage <- FourZeroZero
  Installed <- Boards
INVARIANTS
  ReadyIsUp
PROPERTIES
  NoBootWhileOff
  ConstructorEnds
  HealthyBecomesReady
CHECK_DEADLOCK FALSE
