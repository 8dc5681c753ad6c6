SPECIFICATION FairSpec
CONSTANTS
  Size = 1
  MaxOffers = 1
  MaxCrashes = 0
  Faults = {}
PROPERTIES EodEndsOffers
CHECK_DEADLOCK FALSE
