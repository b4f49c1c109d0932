\* A process that restarts, two requests to the model, and a key replaced meanwhile.
SPECIFICATION FairSpec
CONSTANTS
  Items = {i1}
  Phrases = {"trade secret"}
  Procs = {p1}
  Tasks = {t1, t2}
  NoProc = NoProc
  PoolSize = 2
  MaxLog = 5
  MaxKeys = 2
  MaxCerts = 1
INVARIANTS
  ValidMeansIssued
  DraftStandsOnLog
PROPERTIES
  PoolFreesUp
CHECK_DEADLOCK FALSE
