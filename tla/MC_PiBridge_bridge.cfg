SPECIFICATION FairSpec
CONSTANTS
  MaxTask = 3
  MaxEpoch = 3
INVARIANTS Attribution AbortOwnOnly
PROPERTIES CancelledInputNeverBegins TaskCloses
