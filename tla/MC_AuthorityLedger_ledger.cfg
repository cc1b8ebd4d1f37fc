SPECIFICATION SlowDiskSpec
CONSTANTS
  Threads = {t1, t2}
  Capacity = 2
  MaxSequence = 4
  MayClose = TRUE
  StartMayFail = TRUE
CHECK_DEADLOCK FALSE
INVARIANTS CompleteThroughTruthful NothingUnaccounted HeadCurrentUnlessDegraded
PROPERTIES EveryRecordSettles
