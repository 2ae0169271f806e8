SPECIFICATION FairSpec
CONSTANTS
  Endpoints = {"e1"}
  Credentials = {"k1"}
  Drafts <- MCPlain
  Initial <- MCInitial
  Partial = Partial
  None = None
  MaxStages = 1
  MaxRequests = 1
  MaxByHand = 0
  MaxFaults = 2
  MaxCrashes = 0
PROPERTIES RolledBack
CHECK_DEADLOCK FALSE
