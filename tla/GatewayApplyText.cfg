SPECIFICATION Spec
CONSTANTS
  Endpoints = {"e1"}
  Credentials = {"k1"}
  Drafts <- MCDrafts
  Initial <- MCInitial
  Partial = Partial
  None = None
  MaxStages = 2
  MaxRequests = 1
  MaxByHand = 1
  MaxFaults = 2
  MaxCrashes = 0
INVARIANTS StagesReadBack
CHECK_DEADLOCK FALSE
