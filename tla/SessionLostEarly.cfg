SPECIFICATION FairSpec
CONSTANTS
  MaxLosses = 1
  MaxSendFaults = 0
  MaxOpenFailures = 1
  MaxQueued = 2
  Traffic = TRUE
  Openings = {TRUE}
PROPERTIES
  QueuedFramesSent
CHECK_DEADLOCK FALSE
