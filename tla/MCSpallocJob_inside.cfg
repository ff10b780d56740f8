SPECIFICATION Spec
CONSTANTS
  Interval = 5
  Period = 2
  Slow = 1
  MaxTasks = 1
  Limits <- OneOrForever
  NoLimit = NoLimit
  Forever = NoLimit
  DestroyInside = TRUE
  MaxFaults = 0
PROPERTY DestroyEndsTask
CHECK_DEADLOCK FALSE
