CONSTANTS
  Client = {c1, c2}
  NoClient = NoClient
  Threads = 2
SPECIFICATION Spec
CHECK_DEADLOCK FALSE
PROPERTY StopReturns
