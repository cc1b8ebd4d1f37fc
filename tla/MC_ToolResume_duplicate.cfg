SPECIFICATION Spec
CONSTANTS
  Requests = {q1, q2, q3, q4}
  Checkpoints = {c1}
  CallIds = {i1, i2}
  Results = {ra, rb}
  i1 = i1
  i2 = i2
  ra = ra
  rb = rb
  NoResult = NoResult
  NoCheckpoint = NoCheckpoint
  Bodies <- MCPlainBodies
  Transports = {"stream"}
  MaxConcurrent = 2
CHECK_DEADLOCK FALSE
INVARIANTS SingleOwner
