\* A response in flight overlaps a sweep.
SPECIFICATION FiledSpec
CONSTANTS
  Apps = {a1}
  Workers = {w1}
  Sweepers = {z1}
  Items = {}
  NoApp = NoApp
  ResponsePeriod = 1
  DevTools = FALSE
  MaxTime = 3
  MaxEvents = 9
PROPERTIES
  LegalTransitionsOnly
CHECK_DEADLOCK FALSE
