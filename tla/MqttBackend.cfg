SPECIFICATION Spec
CONSTANTS
  Payloads = {f1, f2}
  Sender = Sender
  Other = Other
  LastId = 2
  Ttl = 1
  MaxSends = 3
  MaxArrivals = 3
  MaxStarts = 1
INVARIANTS TwiceOnlyByRetry OnlyCopiesDropped
