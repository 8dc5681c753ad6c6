SPECIFICATION DaySpec
CONSTANTS
  DayTrades <- FewTrades
  TypeCap <- OfEach
  OfferTypes = {"ORBStrategy"}
  Assignable = {"SweepCreditSpread"}
  Shocks = {"raise"}
  MaxShocks = 1
INVARIANT ClosedOnce
CHECK_DEADLOCK FALSE
