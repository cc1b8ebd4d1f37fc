SPECIFICATION FairSpec
CONSTANTS
  Clients = {c1}
  ReplayLimit = 2
  QueueLimit = 2
  MaxChanges = 3
  MaxDrops = 1
  MaxRestarts = 1
INVARIANTS NoGapInProcess
PROPERTIES DeliveredOrEnded HubCatchesUp
CHECK_DEADLOCK FALSE
