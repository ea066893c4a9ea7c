CONSTANTS
  c1 = c1
  c2 = c2
  c3 = c3
  c4 = c4
  Calls <- MCCalls
  Invalid <- MCInvalid
  Preaborted <- MCPreaborted
  QueueLimit = 2
  NoRun = NoRun
SPECIFICATION FairSpec
CHECK_DEADLOCK FALSE
INVARIANTS NoIdleSlot FirstComeFirstServed
PROPERTIES AnsweredInTheEnd
