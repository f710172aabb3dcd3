\* One request at a time, so that one subscription is enough: a restart while it is in flight.
CONSTANTS
  root = root
  leaf = leaf
  Endpoints = {root, leaf}
  Battery = TRUE
  Thread = TRUE
  MaxAsk = 1
  MaxLost = 0
  MaxCommands = 0
  MaxRestarts = 1
SPECIFICATION Spec
INVARIANT NoReplayOnRestart
CHECK_DEADLOCK FALSE
