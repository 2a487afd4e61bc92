CONSTANTS
  Keys <- Two
  Offline <- First
  NextIp <- NextOfTwo
  Clones = 1
  SessionLimit = 1
  ExpectedQps = 0
  ConcurrencyLimit = 2
  Threads = 1
SPECIFICATION FairSpec
PROPERTIES
  Abandoned
  Drained
