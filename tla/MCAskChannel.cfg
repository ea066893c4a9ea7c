CONSTANTS
  r1 = r1
  a1 = a1
  a2 = a2
  a3 = a3
  Runs <- MCRuns
  Calls <- MCCalls
  RunOf <- MCRunOf
  MaxQuestions = 2
  MaxNotes = 1
  MaxMoves = 2
  NoCall = NoCall
SPECIFICATION Spec
CHECK_DEADLOCK FALSE
SYMMETRY MCSymmetry
INVARIANTS TypeOK LatestStaysPending PendingIsOpen SuspendedWhileBlocked
PROPERTIES FirstAnswerStands
