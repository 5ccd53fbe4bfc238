SPECIFICATION Spec
CONSTANTS
  NoData = NoData
  MaxCalls = 1
  MaxOthers = 0
  MaxFaults = 0
  MaxVisits = 3
INVARIANT ReopensOnSaved
CHECK_DEADLOCK FALSE
