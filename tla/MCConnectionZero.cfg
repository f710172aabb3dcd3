\* The first CASE of the run gets exchange 0.
CONSTANTS
  a = a
  b = b
  e1 = e1
  e2 = e2
  e3 = e3
  s1 = s1
  s2 = s2
  s3 = s3
  None = None
  Devices = {a, b}
  Thread = {}
  Battery = {}
  Addressed = {a, b}
  ExchangeIds = {0, e1}
  SessionIds = {s1, s2, s3}
  Resuming = {}
  Removable = {}
  Rediscovered = {}
  Settling = {}
  MaxOutbound = 2
SPECIFICATION Spec
SYMMETRY IdSymmetry
INVARIANTS InFlightIsLive
