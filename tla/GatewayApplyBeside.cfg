SPECIFICATION FairSpec
CONSTANTS
  Endpoints = {"e1"}
  Credentials = {"k1"}
  Drafts <- MCPlain
  Initial <- MCInitial
  Partial = Partial
  None = None
  MaxStages = 1
  MaxRequests = 1
  MaxByHand = 1
  MaxFaults = 1
  MaxCrashes = 0
PROPERTIES RolledBackBeside
CHECK_DEADLOCK FALSE
