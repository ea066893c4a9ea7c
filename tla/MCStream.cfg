CONSTANTS
  Kinds <- MCKinds
  Endings <- MCEndings
  MaxRecords = 3
  MaxRecordBytes = 3
  Threshold = 1
  Capacity = 2
SPECIFICATION Spec
CHECK_DEADLOCK FALSE
INVARIANTS ProtocolFailureEnds TranscriptFaithful ToldAsRead PeekAgrees
