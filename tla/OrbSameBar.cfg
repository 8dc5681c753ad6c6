SPECIFICATION OrbSpec
CONSTANTS
  Bars <- Shapes
  MaxBars = 4
  MaxTrades = 2
  MaxRestarts = 1
  Glitches = {"fetch"}
INVARIANTS OneOrderPerRetest
CHECK_DEADLOCK FALSE
