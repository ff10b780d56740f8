SPECIFICATION Spec
CONSTANTS
  Conns = {c1,c2}
  Nobody = Nobody
  AtomicDraw = TRUE
  CanDrop = TRUE
  CanDestroy = TRUE
  MaxMessages = 0
  MaxFaults = 1
SYMMETRY ConnSymmetry
INVARIANTS
  
  QueueHasRoom
CHECK_DEADLOCK FALSE
