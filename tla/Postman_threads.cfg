CONSTANTS
  QueueLen = 1
  MaxDepartures = 1
  Strands <- TwoStrands
  Dest <- TwoPackets
  ToSend <- FirstRefills
  Capacity = 1
SPECIFICATION FairSpec
INVARIANTS
  Accounts
  ReceivedInOrder
  SentInOrder
PROPERTIES
  Sent
  Delivered
  Forwarded
  ThreadsEnd
