SPECIFICATION TrailSpec
CONSTANTS
  Kinds = {"debit"}
  Premiums = {120, 160, 200, 240, 280, 300, 320, 360, 400, 440}
  Gaps = {0, 260, 340}
  EntryPrice = 200
  StopPrice = 150
  TargetPrice = 400
PROPERTIES TrailOnlyRises
CHECK_DEADLOCK FALSE
