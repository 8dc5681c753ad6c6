SPECIFICATION CaseSpec
CONSTANTS
  Size = 2
  Attempts = 2
  MaxOrders = 3
  MaxPolls = 1
  MaxCrashes = 2
  Faults = {"poll", "cancel", "refuse", "lost", "noid", "raise", "fills", "unresolved", "list", "slow", "read", "log", "crash", "dying"}
  TicksNeeded = 3
  PollsNeeded = 3
  MaxTick = 2
  FrameAge = 1
  LastPoll = 11
  Blinders = {"dead", "old1m", "old5m"}
INVARIANTS NeverRecordsMore GuardedNeverTwo QuietIsSettled ExitInventsNothing TriggerOutageIsPaged
PROPERTIES PostsOnCleanBook NoFalseAllClear
CHECK_DEADLOCK FALSE
