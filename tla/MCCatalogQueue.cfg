SPECIFICATION FairSpec
CONSTANTS
  NoRequest = NoRequest
  Ended = Ended
  ioos = ioos
  other = other
  buoy = buoy
  station = station
  Requests = {r1, r2}
  Urls = {ioos, other}
  Platforms = {buoy, station}
  Catalogs <- OneLive
  Live = {buoy}
  PoolSize = 1
  MaxDay = 1
PROPERTY EndsUnlessSilent
