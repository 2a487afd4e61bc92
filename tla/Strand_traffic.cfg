CONSTANTS
  Keys <- Three
  Offline <- None
  NextIp <- NextOfThree
  Clones = 0
  SessionLimit = 2
  ExpectedQps = 0
  ConcurrencyLimit = 1
  Threads = 1
SPECIFICATION Spec
INVARIANTS
  RegistryAgrees
  HealthyNotOver
  Watched
  Limits
