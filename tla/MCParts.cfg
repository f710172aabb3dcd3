\* BTP with two sizes of packets and two connections; two shares and two sessions of two devices; three answers, a purge and a change of address; every encoding at its limits; two endpoints with two commands and two gestures.
CONSTANTS
  None = None
  Unshared = Unshared
  Unknown = Unknown
  Space = 5
  Mtus = {6, 8}
  Window = 4
  Lengths = {1, 6, 13}
  MaxMessages = 3
  MaxConnections = 2
  dev1 = dev1
  dev2 = dev2
  Devices = {dev1, dev2}
  Passcodes = {16383, 99999998}
  Discriminators = {255, 3840}
  MaxShares = 2
  MaxSessions = 2
  host1 = host1
  host2 = host2
  adr4 = adr4
  adr6 = adr6
  alt6 = alt6
  op1 = op1
  op2 = op2
  com1 = com1
  Operational = {op1, op2}
  Commissionable = {com1}
  Hosts = {host1, host2}
  Addresses = {adr4, adr6, alt6}
  HostOf <- TwoFabrics
  FirstAddress <- AtFirst
  V4 = {adr4}
  MaxRecords = 4
  MaxAnswers = 3
  MaxMoves = 1
  Elements <- AnyElement
  Requests <- AnyRequest
  Answers <- AnyAnswer
  Headers <- AnyHeader
  ProtocolHeaders <- AnyProtocolHeader
  Certificates <- AnyCertificates
  Codes <- AnyCode
  Datasets <- AnyDataset
  Unwritten = Unwritten
  Endpoints = {1, 2}
  Arrangements <- AnyArrangement
  WantedLevels = {0, 1, 128, 255}
  MaxWishes = 2
  MaxGestures = 2
  Unset = Unset
SPECIFICATION Spec
INVARIANTS MessagesWhole SharedOpens ServicesRight ReadBack UserRight
CHECK_DEADLOCK FALSE
