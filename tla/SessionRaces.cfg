SPECIFICATION FairSpec
CONSTANTS
  MaxLosses = 2
  MaxSendFaults = 1
  MaxOpenFailures = 2
  MaxQueued = 2
  Traffic = TRUE
  Openings = {TRUE, FALSE}
INVARIANTS
  ReplacementPending
  QuietAgreement
PROPERTIES
  OnlyOwnLoss
  QueuedSentIfAnnounced
  FalselyUpEndsIfAnnounced
CHECK_DEADLOCK FALSE
