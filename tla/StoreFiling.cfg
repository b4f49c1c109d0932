\* Two operations overlap in two tabs on a case created there, from its filing on or at its release.
SPECIFICATION FilingSpec
CONSTANTS
  Cases = {c1}
  NoCase = NoCase
  ChecklistItems = {}
  Tabs = {p1, p2}
  NoTab = NoTab
  Tasks = {t1, t2}
  SeedCase = NoSeed
  NotificationLimit = 1
  MaxUuid = 5
INVARIANTS
  TypeOK
  TrailsVerify
  StageMatchesTrail
  StatusMatchesTrail
  DocumentsMatchTrail
  NotificationsPointAtCases
SYMMETRY Symmetric
CHECK_DEADLOCK FALSE
