SPECIFICATION Spec
CONSTANTS
  w1 = w1
  w2 = w2
  s1 = s1
  Workers <- MCWorkers
  Schemes <- MCSchemes
  Settings <- MCSettings
  Literals = {"PART"}
  Scopes = {"global"}
  Revisions = {""}
  NoPattern = "none"
  NoRevision = ""
  Manual = {0, 2}
  MaxSeq = 2
  MaxPeriod = 2
  MaxRequests = 2
  MaxEvents = 2
  Crashes = TRUE
  Absent = Absent
  NoTask = NoTask
INVARIANTS TypeOK IssuedOnce GapsFilled FailureLosesAtMostOne
PROPERTIES RegisterSpec ScanAdvances
SYMMETRY WorkerSymmetry
CHECK_DEADLOCK FALSE
