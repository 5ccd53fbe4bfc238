SPECIFICATION McSpec
CONSTANTS
  NoData = NoData
  Names = {"oats", "rice"}
  Offered = {"add", "delete", "cook"}
  Others = {}
  MaxCalls = 2
  MaxOthers = 0
INVARIANT StockTypeOK
INVARIANT RestShowsTold
INVARIANT AppliedOnce
INVARIANT ErrorIsOwn
PROPERTY OnlyTypedSent
PROPERTY StoresWhatWasTyped
CHECK_DEADLOCK FALSE
