\* Sessions, demo workspace and both desks in the last days of a window.
SPECIFICATION PastSpec
CONSTANTS
  Cases = {}
  NoCase = NoCase
  ChecklistItems = {"requestUnderstood", "recordsIdentified", "documentsLocated", "exemptionReviewDone", "responsePrepared", "responseVerified", "responseReleased"}
  Ids = {"A", "B", "C", "D", "E", "N", "P"}
  MaxNow = 1
  MaxWrites = 1
INVARIANTS
  DemoSessionIsSeeded
  OpenCasesAccounted
  RemedyOfferedTogether
  LapseShownByClocks
  ReleasedKeptByDateOnly
PROPERTIES
  RightDoor
  WarnedBeforeLapse
CHECK_DEADLOCK FALSE
