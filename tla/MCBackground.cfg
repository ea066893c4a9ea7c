CONSTANTS
  r1 = r1
  r2 = r2
  b1 = b1
  b2 = b2
  b3 = b3
  Runs <- MCRuns
  Branches <- MCBranches
  MaxBackgroundRuns = 1
  FaultyWrites <- SendFaults
  MaxReports = 1
  MaxMoves = 4
  MaxFaults = 1
SPECIFICATION Spec
CHECK_DEADLOCK FALSE
SYMMETRY MCSymmetry
INVARIANTS TypeOK ResultIsLast ReportedToOwner NothingLost
PROPERTIES SilentWhilePaused
