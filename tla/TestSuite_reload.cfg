CONSTANTS
  Strands <- Two
  Reports <- TwoReports
  QueueLen = 1
  Garbage <- Any
  FileLimit = 1
  MaxReloads = 1
SPECIFICATION FairSpec
INVARIANTS
  ReportsKept
  TestedWhole
PROPERTIES
  Judged
