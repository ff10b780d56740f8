SPECIFICATION FairSpec
CONSTANTS
  c1 = c1
  c2 = c2
  Cores = {c1, c2}
  BlockSize = 4
  HeaderSize = 1
  ReadSize = 2
  MaxPrinted = 5
INVARIANTS
  TextIsSnapshot
  WellFormed
PROPERTIES
  ReadEnds
CHECK_DEADLOCK FALSE
