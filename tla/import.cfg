SPECIFICATION SafetySpec
CONSTANTS
  Imports = {1, 2}
  Pairs = {1, 2}
  Values = {1, 2}
  Bytes = {1, 2}
  Absent = Absent
  MaxMishaps = 1
  Requests <- MCRequests
  Stores <- MCStores
INVARIANTS
  TypeOK
  JournalBounds
  RollbackRestoresDatabase
  CommitDelivers
CHECK_DEADLOCK FALSE
