SPECIFICATION FairSpec
CONSTANTS
  Endpoints = {"e1"}
  Credentials = {"k1"}
  Drafts <- MCDrafts
  Initial <- MCInitial
  Partial = Partial
  None = None
  MaxStages = 2
  MaxRequests = 2
  MaxByHand = 1
  MaxFaults = 2
  MaxCrashes = 1
INVARIANTS OneRequest StagesApply RadioStaysPrivate
PROPERTIES SuccessIsReal RolledBackUnlessCut Answered
CHECK_DEADLOCK FALSE
