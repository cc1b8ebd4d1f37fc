SPECIFICATION Spec
CONSTANTS
  TextOrder <- MCTextOrder
  ToolOrder <- MCToolOrder
  ChoiceIds = {0, 1}
  ChoiceOf <- MCChoiceOf
  Scripts <- MCScripts
  Policies <- MCPolicies
  Secrets <- MCSecrets
  MinValue = 2
  MaxPatterns = 2
  MaxWindow = 2
  MaxSecretWindow = 2
  Windows = {0, 1}
  Reserved <- MCReserved
  Partial = 1
  MaxPiece = 2
  MaxEvent = 3
CHECK_DEADLOCK FALSE
INVARIANTS
  NothingPastACanary
  NothingIsLost
  InterruptKeepsTheRest
  NoReservedTagShown
