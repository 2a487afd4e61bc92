CONSTANTS
  Feeds <- TwoFeeds
  Packets <- Six
  BufferLen = 3
  LookAhead = 2
SPECIFICATION TcpFairSpec
INVARIANTS
  BufferKept
PROPERTIES
  Released
  TcpReceiverEnds
