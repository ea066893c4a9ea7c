CONSTANTS
  r1 = r1
  a1 = a1
  a2 = a2
  a3 = a3
  Runs <- MCRuns
  Calls <- MCTwoCalls
  RunOf <- MCTwoRunOf
  MaxQuestions = 1
  MaxNotes = 1
  MaxMoves = 2
  NoCall = NoCall
SPECIFICATION FairSpec
CHECK_DEADLOCK FALSE
PROPERTIES NeverWedged AnswerHeard
