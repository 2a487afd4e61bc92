CONSTANTS
  Conns <- Two
  Stream <- Streams
  Packets <- Four
  BufferLen = 5
  Capacity = 1
  LowMark = 1
  Threads = 2
  Ports = 3
  Shift = 1
SPECIFICATION FairSpec
INVARIANTS
  Counters
  Conserved
PROPERTIES
  Drained
