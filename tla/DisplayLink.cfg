SPECIFICATION LinkSpec
CONSTANTS
  MaxRecords = 5
  Attemps = 2
INVARIANTS ShownAsAnnounced FailsOnlyAtEnd
PROPERTIES AnswerComes ExitEnds ViewerStops
CHECK_DEADLOCK FALSE
