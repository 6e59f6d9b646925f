SPECIFICATION Spec
CONSTANTS
  w1 = w1
  w2 = w2
  s1 = s1
  Workers <- MCOneWorker
  Schemes <- MCSchemes
  Settings <- MCSettings
  Literals = {"PART"}
  Scopes = {"global"}
  Revisions = {""}
  NoPattern = "none"
  NoRevision = ""
  Manual = {0, 2}
  MaxSeq = 2
  MaxPeriod = 2
  MaxRequests = 3
  MaxEvents = 1
  Crashes = FALSE
  Absent = Absent
  NoTask = NoTask
INVARIANTS RefusalAllocatesNothing
CHECK_DEADLOCK FALSE
