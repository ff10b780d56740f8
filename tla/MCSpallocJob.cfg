SPECIFICATION Spec
CONSTANTS
  Interval = 5
  Period = 2
  Slow = 1
  MaxTasks = 1
  Limits <- OneOrForever
  NoLimit = NoLimit
  Forever = NoLimit
  DestroyInside = FALSE
  MaxFaults = 1
INVARIANTS KeptAlive
PROPERTIES WaitEnds JobReleased
CHECK_DEADLOCK FALSE
