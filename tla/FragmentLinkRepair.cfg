SPECIFICATION Spec
CONSTANTS
  n1 = n1
  n2 = n2
  n3 = n3
  x = x
  y = y
  z = z
  Broadcast = all
  Chunks = {x, y, z}
  Nodes = {n1, n2, n3}
  Senders <- MCBroadcast
  Frames <- MCPair
  IndexSpace = 2
  MaxPosition = 127
  StateTtl = 8
  RequestCooldown = 1
  MaxRepairAttempts = 3
  RepairBudget = 6
  RepairWindow = 2
  TxCacheLimit = 2
  Latency = 1
  Restarting = {}
  PromptWorker = TRUE
  MaxClock = 12
  MaxSends = 1
  MaxLosses = 2
  MaxDuplicates = 1
  MaxRestarts = 0
INVARIANTS
  DeliveredOncePerTtl
  CompletionDelivers
  RepairBackoff
PROPERTIES
  RepairedInTime
CHECK_DEADLOCK FALSE
