\* A window lapses and nothing offers the appeal.
SPECIFICATION FairSpec
CONSTANTS
  Cases = {}
  NoCase = NoCase
  ChecklistItems = {"requestUnderstood", "recordsIdentified", "documentsLocated", "exemptionReviewDone", "responsePrepared", "responseVerified", "responseReleased"}
  Ids = {"A", "B", "C", "D", "E", "N", "P"}
  MaxNow = 1
  MaxWrites = 0
PROPERTIES
  LapseOffersAppeal
CHECK_DEADLOCK FALSE
