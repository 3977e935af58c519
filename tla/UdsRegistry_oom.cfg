SPECIFICATION Spec
CONSTANTS
  NBlocks = 9
  MaxId = 3
  MaxItems = 2
  AppDids = {1}
  DddiDids = {2, 3}
  MayFail <- AnyAllocation
  AppPreempted = FALSE
INVARIANT
  NoDoubleFree
