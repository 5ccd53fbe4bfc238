SPECIFICATION FairSpec
CONSTANTS
  Requests = {r1, r2}
  Items <- McItems
  Blank = "blank"
  Norm <- McNorm
  Author <- McAuthor
  Units <- McUnits
  BucketOf <- McBucketOf
  Scale <- McScale
  CanonUnit <- McCanonUnit
  NoUnit = "unit"
  MaxBase = 6
  NoQty = NoQty
  Free = Free
  Ops <- LedgerOps
  Seeds <- LedgerSeeds
CHECK_DEADLOCK FALSE
PROPERTY ImplementsLedger
PROPERTY EveryRequestAnswered
PROPERTY LockComesFree
