SPECIFICATION FairSpec
CONSTANTS
  MaxLosses = 1
  MaxSendFaults = 0
  MaxOpenFailures = 0
  MaxQueued = 2
  Traffic = FALSE
  Openings = {TRUE}
PROPERTIES
  FalselyUpEnds
CHECK_DEADLOCK FALSE
