SPECIFICATION MCSpec
CONSTANTS
  AddressWidth = 4
  Ram <- MCRam
  Flash <- MCFlash
  TempSize = 3
  ResponseSize = 4
  Seeds = {0, 1, 2}
  FakeMemory <- MCFakeMemory
  RoutineSteps = 2
  MaxDepth = 3
  MaxStatic = 2
  MaxDynamic = 2
  Instances = {one}
  MaxMacros = 2
  MaxElements = 3
  Orders <- AnyOrder
  CustomConsumes = FALSE
  SwitchEnabled = TRUE
  CanFaults = {"stop", "set"}
  MaxFaults = 2
INVARIANTS
  DispatchExact
  EventReachesItsActor
  ReadsAsService
  SecretsGuarded
  DefaultSessionDefaultBitrate
  LinkOK
PROPERTIES
  MemoryExact
  RoutineEnds
  RefusedKeepsLink
CHECK_DEADLOCK FALSE
