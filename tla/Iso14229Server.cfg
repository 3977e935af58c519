SPECIFICATION FairSpec
CONSTANTS
  Clients = {a, b}
  Server = Server
  Nobody = Nobody
  Callbacks = {f}
  NoCallback = NoCallback
  Capacity = 1
  MaxStarts = 3
  MaxFrames = 2
INVARIANTS
  CallbacksOK
PROPERTIES
  NoThreadReused
  StopEnds
  FramesDelivered
