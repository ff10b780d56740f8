SPECIFICATION FairSpec
CONSTANTS
  boot = boot
  near = near
  top = top
  east = east
  north = north
  far = far
  Chips <- SixChips
  Boot = boot
  Parent <- SixParents
  BoardOf <- SixBoards
INVARIANTS
  ParentWhole
  OneCopyAtATime
PROPERTIES
  RunEnds
  ImplementsSpread
