SPECIFICATION FairSpec
CONSTANTS
  rain = rain
  wind = wind
  Nothing = Nothing
  Torn = Torn
  NoDirectory = NoDirectory
  Requests = {r1, r2, r3}
  Definitions = {rain, wind}
  Packages <- MCPackages
  BackupCount = 1
  DiskErrors = TRUE
  MaxRestarts = 1
INVARIANTS
  DefinedOnce
  LatestVersionOnDisk
PROPERTY EveryRequestAnswered
