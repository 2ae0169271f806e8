SPECIFICATION FairSpec
CONSTANTS
  Nodes = {n1}
  AllowedNodes = {n1}
  MaxPeers = 1
  MaxQueued = 2
  MaxEarly = 2
  Sizes = {2}
  Transport = "mqtt"
  MaxFrames = 2
INVARIANTS
  TruncatedOnlyByRace
  LateOnlyByRetry
  InOnePlace
  OneStrandedAtMost
  NoPeerOutlivesDetach
PROPERTIES
  DataServed
CHECK_DEADLOCK FALSE
