SPECIFICATION Spec
CONSTANTS
  u1 = u1
  u2 = u2
  Users <- MCUsers
  Sources = {1, 2}
  Objects = {1, 2}
  Starts <- EditorStart
  MaxRequests = 6
  Absent = Absent
PROPERTIES
  NobodyIsOverwritten
CHECK_DEADLOCK FALSE
