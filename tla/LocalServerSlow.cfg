SPECIFICATION FairSpec
CONSTANTS
  Contents = {x, y}
  MaxSpooled = 2
  Ttl = 1
  MaxFrames = 3
  MaxClients = 2
  MaxClock = 3
PROPERTIES
  NothingLost
CHECK_DEADLOCK FALSE
