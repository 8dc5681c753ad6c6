SPECIFICATION Spec
CONSTANTS
  Size = 2
  MaxOffers = 1
  MaxCrashes = 0
  Faults = {}
INVARIANTS ClosedRowIsSold
CHECK_DEADLOCK FALSE
