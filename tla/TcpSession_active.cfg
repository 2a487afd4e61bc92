CONSTANTS
  Base = 4
  Isn = 14
  Cuts <- Long
  HeaderLen = 1
  PeerIsn = 13
  PeerLen = 1
  Windows = {3, 9}
  BigWindow = 99
  PartialAcks = FALSE
  ActiveClose = TRUE
  QueueMayFill = TRUE
  RetransmitInterval = 1
  ResponseTimeout = 2
  SendPeriod = 2
  FinTimeout = 1
  MaxStall = 2
SPECIFICATION FairSpec
INVARIANTS
  NoDataLost
PROPERTIES
  ImplementsLife
  Removed
