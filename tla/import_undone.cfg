SPECIFICATION SafetySpec
CONSTANTS
  Imports = {1}
  Pairs = {1, 2}
  Values = {1, 2}
  Bytes = {1, 2}
  Absent = Absent
  MaxMishaps = 1
  Requests <- ReleaseTwice
  Stores <- EmptyStore
INVARIANTS
  UndoneKeepsNothing
CHECK_DEADLOCK FALSE
