SPECIFICATION Spec
CONSTANTS
  Size = 2
  Attempts = 1
  MaxOrders = 2
  MaxPolls = 0
  MaxCrashes = 1
  Faults = {"unresolved", "crash"}
PROPERTIES ReconcileAdopts
CHECK_DEADLOCK FALSE
