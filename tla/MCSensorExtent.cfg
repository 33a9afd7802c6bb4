SPECIFICATION ExtentSpec
CONSTANTS
  None = None
  d1 = d1
  d2 = d2
  Threads = {t1, t2}
  Coordinates <- MCCoordinates
  MaxValue = 1000
  Dates = {d1, d2}
  Documents <- MCDocuments
INVARIANTS
  ExtentInductive
  FoundWhereDescribed
  StoredWhenDescribed
