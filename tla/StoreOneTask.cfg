\* One operation at a time, from two tabs.
SPECIFICATION Spec
CONSTANTS
  Cases = {s1}
  NoCase = NoCase
  ChecklistItems = {i1}
  Tabs = {p1, p2}
  NoTab = NoTab
  Tasks = {t1}
  SeedCase = s1
  NotificationLimit = 1
  MaxUuid = 2
INVARIANT StatusMatchesTrail
PROPERTY TrailAppendOnly
SYMMETRY Symmetric
CHECK_DEADLOCK FALSE
