SPECIFICATION Spec
CONSTANTS
  u1 = u1
  u2 = u2
  Users <- MCUsers
  Sources = {1, 2}
  Objects = {1, 2}
  Starts <- ReplaceStart
  MaxRequests = 6
  Absent = Absent
INVARIANTS
  PendingCanBeClosed
CHECK_DEADLOCK FALSE
