SPECIFICATION CondorSpec
CONSTANTS
  Lots = 2
  MaxVerticals = 4
  Upsets = {"reconcile"}
INVARIANTS ClosedIsFlat
