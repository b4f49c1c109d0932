\* A fair scheduler sweeps two applications that requests work on.
SPECIFICATION FiledFairSpec
CONSTANTS
  Apps = {a1, a2}
  Workers = {w1}
  Sweepers = {z1}
  Items = {}
  NoApp = NoApp
  ResponsePeriod = 1
  DevTools = FALSE
  MaxTime = 3
  MaxEvents = 7
INVARIANT SilenceOnlyAfterLapse
PROPERTY LapsedCaseIsDeclared
CHECK_DEADLOCK FALSE
