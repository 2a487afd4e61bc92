CONSTANTS
  Base = 4
  Isn = 14
  Cuts <- Short
  HeaderLen = 1
  PeerIsn = 13
  PeerLen = 1
  Windows = {1, 9}
  BigWindow = 99
  PartialAcks = FALSE
  ActiveClose = FALSE
  QueueMayFill = FALSE
  RetransmitInterval = 1
  ResponseTimeout = 2
  SendPeriod = 2
  FinTimeout = 1
  MaxStall = 0
SPECIFICATION Spec
PROPERTIES
  OutdatedDropped
