\* One session: nothing overlaps.
SPECIFICATION Spec
CONSTANTS
  Apps = {a1}
  Workers = {s1}
  Sweepers = {s1}
  Items = {i1}
  NoApp = NoApp
  ResponsePeriod = 1
  DevTools = TRUE
  MaxTime = 3
  MaxEvents = 9
INVARIANTS
  TypeOK
  LogOrderTellsStatus
PROPERTIES
  ImplementsLifecycle
CHECK_DEADLOCK FALSE
