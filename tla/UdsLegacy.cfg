SPECIFICATION FairSpec
CONSTANTS
  N = 4
  Mod = 3
  FirstId = 1
  MaxRetries = 3
  MaxRuns = 3
  MaxQueue = 3
  Scenarios <- AllFaults
INVARIANTS
  AckedExactlyOnce
  ImageOK
PROPERTY
  ClientEnds
CHECK_DEADLOCK FALSE
