SPECIFICATION Spec
CONSTANTS
  rain = rain
  wind = wind
  Nothing = Nothing
  Torn = Torn
  NoDirectory = NoDirectory
  Requests = {r1}
  Definitions = {rain, wind}
  Packages <- ShippedDictionary
  BackupCount = 3
  DiskErrors = FALSE
  MaxRestarts = 1
PROPERTY SavedDocumentIsLoaded
