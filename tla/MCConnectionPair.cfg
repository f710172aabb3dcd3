\* A mains device on Thread and a battery device, with reports and commands; one is rediscovered, the other removed.
CONSTANTS
  a = a
  b = b
  e1 = e1
  e2 = e2
  e3 = e3
  s1 = s1
  s2 = s2
  s3 = s3
  None = None
  Devices = {a, b}
  Thread = {a}
  Battery = {b}
  Addressed = {a, b}
  ExchangeIds = {e1, e2}
  SessionIds = {s1, s2}
  Resuming = {a}
  Removable = {b}
  Rediscovered = {a}
  Settling = {}
  MaxOutbound = 2
SPECIFICATION Spec
SYMMETRY IdSymmetry
INVARIANTS NoDangling Exclusive NeverStranded IInv
PROPERTIES ResumptionKept ImplementsLink
