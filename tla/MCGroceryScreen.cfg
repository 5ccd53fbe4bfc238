SPECIFICATION McSpec
CONSTANTS
  NoData = NoData
  Lines = {l1, l2}
  Offered = {"tick", "submit"}
  Others = {"submit", "delete"}
  MaxCalls = 2
  MaxOthers = 1
INVARIANT TypeOK
INVARIANT RestIsTrue
SYMMETRY LinesAlike
