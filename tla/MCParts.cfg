SPECIFICATION PartsSpec
CONSTANTS
  Intervals = {"1m", "5m"}
  Chains <- Requests
  Failures = {"subscribe", "socket", "write", "dies"}
  MaxRow = 3
  MaxVersion = 1
  Batch = 1
  Keep = 0
  MaxKills = 1
  MaxPushes = 2
  Outages = {"put", "get", "list", "busy"}
  CloseAt = 4
  CloseEnd = 7
  Stale = 2
  Grace = 2
  MaxOpen = 2
  MaxTroubles = 3
  Mishaps = {"unread", "immortal", "uncancelled", "dies"}
  Bars <- Shapes
  MaxBars = 4
  MaxTrades = 2
  MaxRestarts = 1
  Glitches = {"fetch"}
  Lots = 2
  MaxVerticals = 4
  Upsets = {"restart", "reconcile", "light"}
  Intents = {"open_single", "open_vertical", "close_long", "close_short"}
  Quotes <- Books
  Fine = 1
  Coarse = 5
  Boundary = 25
  MaxRungs = 4
  StaleAfter = 1
  MaxRefusals = 3
  SessionEnds <- SessionLevels
  Prints <- Candles
  Widths = {0, 1}
  RangeEnd = 1
  MaxMinutes = 5
  FreshBars = 2
  MaxUpsets = 1
  Cap = 2
  Extreme = 4
  Kinds = {"debit", "structure", "adopted", "volt"}
  Premiums = {120, 160, 200, 240, 280, 300, 320, 360, 400, 440}
  Gaps = {0, 260, 340}
  EntryPrice = 200
  StopPrice = 150
  TargetPrice = 400
  Troubles = {"restart", "send", "unread", "stamp", "garbled"}
  MaxFaults = 3
  DayTrades <- ManyTrades
  TypeCap <- OfEach
  OfferTypes = {"ORBStrategy"}
  Assignable = {"SweepCreditSpread"}
  Shocks = {"phantom", "assigned", "raise", "flatten", "restart"}
  MaxShocks = 2
INVARIANTS PartsTypeOK
INVARIANTS ShippedBeforePurged HeldForAReason
INVARIANTS NeverBeside UnattendedIsPaged
INVARIANTS OrdersAreFresh ArmedThesisStands
INVARIANTS RowIsHeld NeverTwoOfASide RefusedNeverReturns
INVARIANTS MemoryIsOfThisSocket BookIsAsRuled OnePagePerEpisode RestartKeepsTheStop NothingDropped
PROPERTIES OnlyStaleVerifyRewinds ResumeIsForgotten FinalFormIsFinal LedgerIsTheBook
CHECK_DEADLOCK FALSE
