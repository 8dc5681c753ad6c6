SPECIFICATION FairCases
CONSTANTS
  Span = 2
  Traded = 2
  MaxErrors = 1
  Total = 3
  MaxOrders = 3
  MaxPolls = 1
  Faults = {"poll", "cancel", "refuse", "crash", "resync"}
  Returning = {"poll", "refuse", "lost", "noid", "raise", "fills", "unresolved", "slow", "read", "log", "crash", "dying"}
  DayTrades <- FewTrades
  TypeCap <- OfEach
  OfferTypes = {"ORBStrategy"}
  Assignable = {"SweepCreditSpread"}
  Shocks = {"phantom", "assigned", "flatten", "restart"}
  MaxShocks = 2
INVARIANTS LiveOrderIsTracked RowRemembersEveryFill
PROPERTIES SubmitsRemainderOnly ClosesOnce ExitReturns EntryReturns TruthStands EndsFlat
CHECK_DEADLOCK FALSE
