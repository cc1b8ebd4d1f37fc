SPECIFICATION Spec
CONSTANTS
  StageKinds = {"native", "pass", "answer", "memory"}
  Streaming = {TRUE, FALSE}
  Words = {w1, w2}
  ChunkBytes = {4}
  Limit = 4
  Repetitions = 2
  MinCycle = 1
  Batch = 2
  MaxRepair = 2
  MaxBytes = 16
CHECK_DEADLOCK FALSE
INVARIANTS
  NothingLeftRunning
  StageIsBounded
  ResultIsWhole
PROPERTIES
  StageEnds
