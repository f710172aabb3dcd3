\* Three kinds of devices; two attempts in trouble, a crash or a restart of the device, and three attempts after.  A mains device behind Thread that stops failing at some point.
CONSTANTS
  None = None
  Quirks = {"deaf", "wrongMic", "forgetful"}
  MaxTroubled = 2
  MaxAttempts = 5
  MaxRestarts = 1
  device = device
  ExchangeIds = {e1, e2}
  SessionIds = {s1, s2}
  MaxOutbound = 3
SPECIFICATION PartSpec
INVARIANTS IInv KeysAgree PairsAgree
PROPERTIES KeysNew Recovers Reconnects
CHECK_DEADLOCK FALSE
