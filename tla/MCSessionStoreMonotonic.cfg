\* Clean restarts only.
CONSTANTS
  None = None
  NDevices = 1
  Battery = {1}
  IdSpace = 8
  Margin = 20
  MaxAttempts = 2
  Bounds <- OnlyClean
SPECIFICATION Spec
INVARIANTS Monotonic
CHECK_DEADLOCK FALSE
