SPECIFICATION Spec
CONSTANTS
  u1 = u1
  u2 = u2
  Users <- MCUsers
  Sources = {1, 2}
  Objects = {1, 2}
  Starts <- MCStarts
  MaxRequests = 6
  Absent = Absent
INVARIANTS
  TypeOK
  PartFollowsReviews
  MessagesStayInTheirThread
PROPERTIES
  NotesApartFromComments
  CommentsLostOnlyByOverlap
  ReplacedNotesAreReturned
  CanvasReplacesWhatWasLoaded
SYMMETRY UserSymmetry
CHECK_DEADLOCK FALSE
