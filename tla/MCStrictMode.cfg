CONSTANTS
  delegate = delegate
  answer = answer
  read = read
  bash = bash
  b1 = b1
  b2 = b2
  Tools <- MCTools
  StrictActiveTools <- MCStrictTools
  Delegate = delegate
  Branches <- MCBranches
  OldLogs <- MCOldLogs
  MaxCommands = 3
  MaxMoves = 3
  MaxFaults = 2
SPECIFICATION Spec
CHECK_DEADLOCK FALSE
SYMMETRY MCSymmetry
INVARIANTS GateFollowsBranch ToolsAreBack
