SPECIFICATION FairSpec
CONSTANTS
  NoRequest = NoRequest
  weather = weather
  gauges = gauges
  p = p
  q = q
  Requests = {r1, r2}
  Urls = {weather, gauges}
  Procedures = {p, q}
  Offers <- MCOffers
  PoolSize = 2
INVARIANTS
  Inductive
  AloneReportsOwnHarvest
  AloneStoresOnce
PROPERTY EveryHarvestAnswered
