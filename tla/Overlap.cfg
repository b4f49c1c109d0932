\* Two requests and a sweep overlap from acknowledgement to the appeal.
SPECIFICATION FiledSpec
CONSTANTS
  Apps = {a1}
  Workers = {w1, w2}
  Sweepers = {z1}
  Items = {i1}
  NoApp = NoApp
  ResponsePeriod = 1
  DevTools = FALSE
  MaxTime = 3
  MaxEvents = 9
INVARIANTS
  HistoryWellFounded
  StatusIsLastCommitted
  StampsMatchHistory
  RightsClockArmed
  AppealsMatchFilings
  GroundsAlwaysFound
  DeadlinesMatchHistory
  EvidenceIsFromAResponse
SYMMETRY Symmetric
CHECK_DEADLOCK FALSE
