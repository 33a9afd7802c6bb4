SPECIFICATION Spec
CONSTANTS
  NoRequest = NoRequest
  Ended = Ended
  ioos = ioos
  other = other
  buoy = buoy
  station = station
  Requests = {r1, r2}
  Urls = {ioos, other}
  Platforms = {buoy, station}
  Catalogs <- MCCatalogs
  Live = {buoy}
  PoolSize = 2
  MaxDay = 1
SYMMETRY RequestSymmetry
INVARIANTS
  Inductive
  AloneAccountsForAll
  OneRowADay
