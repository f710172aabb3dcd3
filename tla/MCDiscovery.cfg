\* A battery device on Thread that loses its session, is discovered anew and lives through a restart.
CONSTANTS
  root = root
  leaf = leaf
  Endpoints = {root, leaf}
  Battery = TRUE
  Thread = TRUE
  MaxAsk = 3
  MaxLost = 2
  MaxCommands = 2
  MaxRestarts = 1
SPECIFICATION FairSpec
INVARIANTS IInv SetupsCounted NoReplay SubscriptionCovers
PROPERTY Settles
CHECK_DEADLOCK FALSE
