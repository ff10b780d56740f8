SPECIFICATION FairSpec
CONSTANTS
  Threads = {t1, t2}
  boot = boot
  near = near
  far = far
  Chips <- ChipChain
  Boot = boot
  Parent <- ChainParent
  Nobody = Nobody
  MaxCalls = 2
INVARIANTS
  Locking
  StartsOwnImage
PROPERTIES
  CallsReturn
  ImplementsDiscipline
