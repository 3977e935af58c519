SPECIFICATION Spec
CONSTANTS
  NBlocks = 9
  MaxId = 2
  MaxItems = 2
  AppDids = {1}
  DddiDids = {2, 3}
  MayFail <- AllButLast
  AppPreempted = TRUE
INVARIANTS
  HeapOK
  IdsOK
