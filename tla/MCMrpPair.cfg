\* Two peers whose counters coincide; one has a second session after the first.
CONSTANTS
  p = p
  q = q
  x = x
  y = y
  None = None
  Peers = {p, q}
  Address <- OwnAddress
  FirstCounter <- SameCounters
  RetransMax = 1
  Window = 2
  MaxSent = 3
  MaxReceived <- Twice
  MaxSession <- Twice
SPECIFICATION Spec
INVARIANTS IInv AckMatches AtMostOnce AckAccounted
CHECK_DEADLOCK FALSE
