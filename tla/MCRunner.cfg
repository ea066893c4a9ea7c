CONSTANTS
  Tools = {t1, q1}
  Questions = {q1}
  Messages <- MCMessages
  EnforceMax = 2
  MaxRecords = 3
  MaxPipe = 3
  MaxSteers = 1
SPECIFICATION Spec
CHECK_DEADLOCK FALSE
INVARIANTS ReceiptAgrees WatchdogMatches SuccessEarned CancelWins SignalsJustified
  NeverStranded
