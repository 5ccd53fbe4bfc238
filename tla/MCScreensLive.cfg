SPECIFICATION ScreensSpec
CONSTANTS
  NoData = NoData
  Multipliers = {"x1"}
  One = "x1"
  MaxCooks = 1
  MaxOthers = 0
  MaxFaults = 1
  MaxVisits = 2
  MaxGaps = 1
PROPERTY CooksEnd
PROPERTY WritesComeToBeSeen
PROPERTY AttemptsSettle
PROPERTY AwaitedPageComes
CHECK_DEADLOCK FALSE
