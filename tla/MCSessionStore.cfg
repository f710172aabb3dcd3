\* Two battery devices up to the last id; one restarted twice and rediscovered; one whose writes fail.
CONSTANTS
  None = None
  NDevices = 2
  Battery = {1, 2}
  IdSpace = 3
  Margin = 1
  MaxAttempts = 3
  Bounds <- Bounded
SPECIFICATION FairSpec
INVARIANTS IInv MarginSuffices IdsApart CapturesActive
PROPERTIES SessionSaved
CHECK_DEADLOCK FALSE
