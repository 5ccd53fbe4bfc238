SPECIFICATION McSpec
CONSTANTS
  NoData = NoData
  NoQty = NoQty
  Multipliers = {"x1", "x2"}
  One = "x1"
  MaxCooks = 2
  MaxOthers = 1
  MaxFaults = 0
  MaxVisits = 2
  MaxGaps = 0
INVARIANT RestKnowsCooks
INVARIANT TableIsTrue
PROPERTY CookKeepsPromise
CHECK_DEADLOCK FALSE
