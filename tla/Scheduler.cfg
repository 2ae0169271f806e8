SPECIFICATION RecoveringSpec
CONSTANTS
  tcp = tcp
  repair = repair
  None = none
  Producers = {tcp, repair}
  Batches = {b1, b2, b3}
  Calls <- MCAllCalls
  MaxFrames = 3
  MaxFragments = 3
  ReservedFrames = 1
  ReservedFragments = 1
  MaxSerialized = 3
  MaxFailures = 2
  AnnounceBurst = 1
  PaceAnnounces = TRUE
INVARIANTS
  Accounting
  ReserveHonoured
  SerializedAlone
PROPERTIES
  FifoLanes
  ClassesServed
  BackpressureReleases
CHECK_DEADLOCK FALSE
