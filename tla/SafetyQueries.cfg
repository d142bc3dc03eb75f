SPECIFICATION FairSpec
CONSTANTS
  i1 = i1  i2 = i2  i3 = i3  i4 = i4
  Items = {i1, i2, i3, i4}
  Country <- MCCountry
  NoCountry = ""
  Named = {i1, i2, i3}
  Centroid = {i2}
  Distance <- MCDistance
  Radius = 5
  Limits = {0, 1, 4}
  DefaultPerPage = 2
  MaxPerPage = 3
  AggregationCap = 5
  NearbyFetchCap = 4
  MaxBroken = 1
  MaxCursor = 5
  MaxCounted = 20
INVARIANTS NothingSkipped RepeatsBounded  NearestAreShown
PROPERTIES WalkEnds
