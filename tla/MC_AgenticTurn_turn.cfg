SPECIFICATION Spec
CONSTANTS
  Requests = {r1, r2, r3}
  Checkpoints = {c1, c2}
  Answers = {a1, a2}
  NoAnswer = NoAnswer
  NoCheckpoint = NoCheckpoint
  Transports = {"stream", "nonstream"}
  MaxConcurrent = 1
  MaxTurns = 2
  MaxAttempt = 2
  Limit = 1
  HintsReused = TRUE
  MaxOutages = 1
  MaxCrashes = 1
CHECK_DEADLOCK FALSE
INVARIANTS
  OpenRowHasHeir
  AnswerSurvives
PROPERTY
  ImplementsPromise
SYMMETRY Symmetry
