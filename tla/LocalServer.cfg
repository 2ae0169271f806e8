SPECIFICATION FairSpec
CONSTANTS
  Contents = {x, y, z}
  MaxSpooled = 2
  Ttl = 1
  MaxFrames = 4
  MaxClients = 2
  MaxClock = 2
INVARIANTS
  Fifo
  ConnectedIsReported
PROPERTIES
  LostOnlyBehindExpired
  LeaversNoticed
  SpoolDrains
CHECK_DEADLOCK FALSE
