\* Two visits of the create page over a network that loses and delays calls.
SPECIFICATION FairSpec
CONSTANTS
  Authorities = {"PWD", "MoEF"}
  NoAuthority = NoAuthority
  NoApp = NoApp
  MaxVisits = 2
  MaxMoves = 6
  MaxPresses = 2
  MaxOthers = 1
INVARIANTS
  LinkedIsSameRequest
  OneCasePerVisit
  AnsweredIsCommitted
  OrphansAreDrafts
PROPERTIES
  PressEnds
CHECK_DEADLOCK FALSE
