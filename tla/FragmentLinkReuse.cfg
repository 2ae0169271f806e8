SPECIFICATION Spec
CONSTANTS
  n1 = n1
  n2 = n2
  n3 = n3
  x = x
  y = y
  z = z
  Broadcast = all
  Chunks = {x, y, z}
  Nodes = {n1, n2}
  Senders <- MCUnicast
  Frames <- MCTwins
  IndexSpace = 2
  MaxPosition = 127
  StateTtl = 1
  RequestCooldown = 1
  MaxRepairAttempts = 2
  RepairBudget = 2
  RepairWindow = 2
  TxCacheLimit = 2
  Latency = 1
  Restarting = {n1}
  PromptWorker = FALSE
  MaxClock = 5
  MaxSends = 2
  MaxLosses = 1
  MaxDuplicates = 0
  MaxRestarts = 1
INVARIANTS
  MixedOnlyByReuse
  RepairBudgetRespected
CHECK_DEADLOCK FALSE
