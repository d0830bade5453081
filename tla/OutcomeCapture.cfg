SPECIFICATION FairSpec
CONSTANTS
  Offers <- MCOffers
  Limit = 1
  Horizon = 1
  RetryWindow = 1
  MaxEvents = 2
  MaxFaults = 1
  MaxNow = 2
PROPERTIES
  NewestIsCaptured
  MatureIsResolved
