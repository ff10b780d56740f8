SPECIFICATION Spec
CONSTANTS
  NRequests = 3
  InitialChannels = Unmeasured
  InitialWaits = Unmeasured
  Unmeasured = Unmeasured
  MinChannels = 2
  ChannelSlack = 1
  NRetries = 1
  MaxSequence = 2
  FirstSequence = 1
  Results <- OkAndRetry
  MaxFaults = 1
  MaxForeign = 0
INVARIANTS FinishHandledAll WindowRespected RetryBudget
PROPERTY OutcomeFinal
