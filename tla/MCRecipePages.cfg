SPECIFICATION McSpec
CONSTANTS
  NoData = NoData
  MaxCalls = 2
  MaxOthers = 0
  MaxFaults = 0
  MaxVisits = 4
INVARIANT RecipesTypeOK
INVARIANT SavedIsShown
PROPERTY DraftIsTheMembers
PROPERTY StoresTheForm
INVARIANT ErrorIsOfItsRow
INVARIANT LineIsKept
INVARIANT HistoryIsWhole
CHECK_DEADLOCK FALSE
