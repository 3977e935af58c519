SPECIFICATION MCSpec
CONSTANTS
  thread1 = thread1
  thread2 = thread2
  PioThreads = {thread1, thread2}
  PioInputs = {0, 17}
  PioOutputs = {8, 9}
  PioMaxCalls = 2
  PioMaxFaults = 1
  PioMaxEdges = 2
  HvThreads = {thread1, thread2}
  HvPins = {1, 12}
  HvGains <- MCGains
  HvCallGains = {1, 16}
  HvMaxCalls = 2
  HvMaxFaults = 1
  CanMaxDlen = 8
  LogLengths = {5, 20}
  Mailboxes = 3
  LogMaxMessages = 3
INVARIANTS
  ChipAsAsked
  DirectionsAgree
  LogPaced
PROPERTIES
  InterruptsServed
CHECK_DEADLOCK FALSE
