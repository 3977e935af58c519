SPECIFICATION FairSpec
CONSTANTS
  N = 2
  MaxRuns = 3
INVARIANTS
  CompleteMeansFlashed
  EraseOK
PROPERTY
  NoRebootLoop
CHECK_DEADLOCK FALSE
