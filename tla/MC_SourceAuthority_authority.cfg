SPECIFICATION FairSpec
CONSTANTS
  NComponents = 1
  Contents = {v1}
  Missing = missing
  Unreadable = unreadable
  Runs = {run1}
  Streams = {stream1}
  Effects = {}
  MaxChunks = 2
  MaxChanges = 2
  MaxRaises = 1
  LedgerMayFreeze = TRUE
INVARIANTS ReleasedPrefix OneChunkSlips LedgerChronology
PROPERTIES BoundaryCatchesDrift DriftEndsAuthority
CHECK_DEADLOCK FALSE
