SPECIFICATION Spec
CONSTANTS
  Imports = {1}
  Pairs = {1, 2}
  Values = {1, 2}
  Bytes = {1, 2}
  Absent = Absent
  MaxMishaps = 2
  Requests <- AloneRequests
  Stores <- AloneStores
INVARIANTS
  ApprovedProtected
  EffectsAuthorised
PROPERTIES
  JournalSettles
CHECK_DEADLOCK FALSE
