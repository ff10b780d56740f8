SPECIFICATION FairSpec
CONSTANTS
  NRequests = 2
  InitialChannels = 1
  InitialWaits = Unmeasured
  Unmeasured = Unmeasured
  MinChannels = 2
  ChannelSlack = 1
  NRetries = 1
  MaxSequence = 3
  FirstSequence = 2
  Results <- OkSoftAndBad
  MaxFaults = 0
  MaxForeign = 1
INVARIANTS OwnAnswer 
PROPERTIES ImplementsService WorkEnds
