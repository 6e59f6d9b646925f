SPECIFICATION SafetySpec
CONSTANTS
  Imports = {1, 2}
  Pairs = {1, 2}
  Values = {1, 2}
  Bytes = {1, 2}
  Absent = Absent
  MaxMishaps = 0
  Requests <- ReleaseTwice
  Stores <- EmptyStore
PROPERTIES
  OnlyCreatedPartsRemoved
CHECK_DEADLOCK FALSE
