CONSTANTS
  r1 = r1
  r2 = r2
  r3 = r3
  p1 = p1
  p2 = p2
  Runs <- MCTwoRuns
  Procs <- MCProcs
  Nobody = Nobody
  MaxRuns = 1
  ListLimit = 2
  Ends = {"succeeded", "failed"}
  Aging <- MCAging
  MaxStarts = 2
SPECIFICATION Spec
CHECK_DEADLOCK FALSE
SYMMETRY MCSymmetry
INVARIANTS TypeOK OutcomeKept LiveChildSpared ActiveKept OrphansSettled
PROPERTIES NewestKept
