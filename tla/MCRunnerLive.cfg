CONSTANTS
  Tools = {q1}
  Questions = {q1}
  Messages <- MCFewMessages
  EnforceMax = 1
  MaxRecords = 2
  MaxPipe = 3
  MaxSteers = 0
SPECIFICATION FairSpec
CHECK_DEADLOCK FALSE
PROPERTIES Finishes ChildReaped RunnerRefinement
