SPECIFICATION Spec
CONSTANTS
  Requests = {r1, r2}
  Texts = {t1}
  Report = Report
  Summaries = {s1, s2}
  Carriage = {s2}
  None = None
  Transports = {"stream", "nonstream"}
  PauseKinds = {"intake", "question", "tool"}
  PassCount = 2
  MaxConcurrent = 2
  MaxRuns = 1
  MaxPauses = 2
  MaxNames = 1
  MaxUpsets = 1
CHECK_DEADLOCK FALSE
INVARIANTS
  CommittedIsDurable
  RetiredHasHeir
PROPERTIES
  ReportOnlyGrows
  CognitionKept
SYMMETRY Symmetry
