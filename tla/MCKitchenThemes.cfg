SPECIFICATION ThemesSpec
CONSTANTS
  Requests = {r1, r2, r3}
  Items <- McItems
  Blank = "blank"
  Norm <- McNorm
  Author <- McAuthor
  Units <- McUnits
  BucketOf <- McBucketOf
  Scale <- McScale
  CanonUnit <- McCanonUnit
  NoUnit = "unit"
  MaxBase = 6
  NoQty = NoQty
  Free = Free
  Ops <- ThemeOps
  Seeds <- ThemeSeeds
SYMMETRY Symmetry
CHECK_DEADLOCK FALSE
INVARIANT TypeOK
INVARIANT NoLostUpdate
INVARIANT AnswersAreTrue
INVARIANT Constraints
PROPERTY HonestCookLog
INVARIANT PaidOnce
PROPERTY ClosedStaysClosed
PROPERTY ListCoversNeed
PROPERTY HistoryStays
