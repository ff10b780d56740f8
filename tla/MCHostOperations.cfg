SPECIFICATION FairSpec
CONSTANTS
  Chips <- Chips3
  Ethernets <- Ethernets2
  BoardOf <- Boards2
  OverLink <- TorusLinks
  Cores = {0, 1, 2}
  Memory <- Memory3
  GlobalXY <- TorusXY
  MaxCoresPerChip = 18
  IgnoreBadEthernets = TRUE
  UDP_MESSAGE_MAX_SIZE = 8
  TableAddress = 700
  Ops <- AllOps
  Machine <- TheMachine
  HasMachine = TRUE
  Window = 2
  NRetries = 1
  MaxFaults = 2
  Progress <- ToPaused
  MaxPolls = 1
INVARIANTS
  ResultIsTrue
  EffectIsExact
  AllocOnce
  
  
PROPERTIES
  OperationEnds
CHECK_DEADLOCK FALSE
