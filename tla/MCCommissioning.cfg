\* A user who waits and devices that stay; a hasty user and devices that reconnect.  The retransmissions and acks of one peer come due.
CONSTANTS
  p = p
  q = q
  None = None
  Places = {p, q}
  Mesh = {q}
  HasBle = TRUE
  Manners = {"steady", "hasty"}
  MaxSearch = 4
  MaxHasty = 2
  peer = peer
  RetransMax = 3
  Window = 2
  MaxSent = 2
  MaxReceived = 2
  MaxSession = 2
SPECIFICATION PartSpec
INVARIANTS IInv OneAttempt ListedAnswered PlacesApart SessionsMatch
PROPERTIES PaseEnds Resolved AcksFlow
CHECK_DEADLOCK FALSE
