\* One filing, and other requests on its application that are refused.
SPECIFICATION Spec
CONSTANTS
  Authorities = {"PWD", "MoEF"}
  NoAuthority = NoAuthority
  NoApp = NoApp
  MaxVisits = 1
  MaxMoves = 6
  MaxPresses = 1
  MaxOthers = 1
INVARIANTS
  RejectionsAudited
CHECK_DEADLOCK FALSE
