CONSTANTS
  QueueLen = 1
  MaxDepartures = 1
  Strands <- TwoStrands
  Dest <- TwoPackets
  ToSend <- FirstRefills
  Capacity = 1
SPECIFICATION Spec
INVARIANTS
  CountPositive
