SPECIFICATION Spec
CONSTANTS
  Requests = {r1, r2, r3}
  Items <- TextItems
  Blank = ""
  Norm <- TextNorm
  Author <- TextAuthor
  Units <- TextUnits
  BucketOf <- TextBucket
  Scale <- TextScale
  CanonUnit <- TextCanon
  NoUnit = "unit"
  MaxBase = 6
  NoQty = NoQty
  Free = Free
  Ops <- TextOps
  Seeds <- TextSeeds
CHECK_DEADLOCK FALSE
PROPERTY BoughtUnderItsName
