SPECIFICATION MCSpec
CONSTANTS
  Callers = {c1}
  Tables <- MCTables
  Indices <- MCIndices
  Count <- MCCount
  InitialTable = t2
  Off = Off
  Thread = Thread
  Serialized = TRUE
  t1 = t1
  t2 = t2
  t3 = t3
  Nodes = {C, R}
  Commander = C
  Responder = R
  MaxFrames = 4
  NoCallback = NoCallback
  id_mapping <- MCIdMapping
  QueueSize = 1
  Nobody = Nobody
  RouterTables <- MCRouterTables
  FilterIds <- MCFilterIds
  FrameIdOf <- MCFrameIdOf
  CanFrames <- MCCanFrames
  CanFilters <- MCCanFilters
  StaticEntries <- MCStaticEntries
  AppEntries <- MCAppEntries
  AppFrame <- MCAppFrame
INVARIANTS
  SchedulerInv
  TableExact
  RoutesInstalled
PROPERTIES
  EntriesInOrder
  BridgeIsChannel
  SetReturns
  KeepsSending
  QueuesDrain
CHECK_DEADLOCK FALSE
