SPECIFICATION FairSpec
CONSTANTS
  Requests = {q1, q2, q3}
  Checkpoints = {c1, c2}
  CallIds = {i1, i2}
  Results = {ra, rb}
  i1 = i1
  i2 = i2
  ra = ra
  rb = rb
  NoResult = NoResult
  NoCheckpoint = NoCheckpoint
  Bodies <- MCPlainBodies
  Transports = {"stream", "nonstream"}
  MaxConcurrent = 1
CHECK_DEADLOCK FALSE
INVARIANTS WholeOrGone
PROPERTIES EveryRequestEnds
