SPECIFICATION Spec
CONSTANTS
  Total = 2
  MaxOrders = 2
  MaxPolls = 1
  Faults = {"fetch"}
INVARIANTS OneLiveClose
CHECK_DEADLOCK FALSE
