SPECIFICATION FairSpec
CONSTANTS
  Conns = {c1}
  Nobody = Nobody
  AtomicDraw = FALSE
  CanDrop = TRUE
  CanDestroy = FALSE
  MaxMessages = 2
  MaxFaults = 0
INVARIANT
  ReceivedInOrder

  
CHECK_DEADLOCK FALSE
