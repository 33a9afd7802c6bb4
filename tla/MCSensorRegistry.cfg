SPECIFICATION FairSpec
CONSTANTS
  None = None
  a = a
  b = b
  c = c
  d = d
  sos = sos
  x = x
  y = y
  Requests = {r1, r2}
  SensorIds = {a, b, c, d}
  Harvested = {a, b}
  Services = {sos}
  Specs = {x, y}
  Inputs <- MCInputs
  Faults = TRUE
INVARIANTS
  Inductive
  LinksPointToSensors
  ReportedDeletionsLast
  ReportedReferencesStored
  IndexedBeforeOffered
PROPERTIES
  EveryRequestAnswered
  RefinesCatalogue
