\* One command to a position.
CONSTANTS
  Endpoints = {1}
  Arrangements <- OneCover
  WantedLevels = {0}
  MaxWishes = 1
  MaxGestures = 0
  Unset = Unset
SPECIFICATION ConsumerSpec
INVARIANT PositionScale
CHECK_DEADLOCK FALSE
