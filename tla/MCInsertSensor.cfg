SPECIFICATION Spec
CONSTANTS
  None = None
  a = a
  b = b
  c = c
  d = d
  sos = sos
  x = x
  y = y
  Requests = {r1}
  SensorIds = {a, b}
  Harvested = {}
  Services = {sos}
  Specs = {x}
  Inputs <- InsertOne
  Faults = FALSE
INVARIANT NewSensorIsInserted
