CONSTANTS
  Client = {c1, c2, c3}
  NoClient = NoClient
  Threads = 2
SPECIFICATION Spec
CHECK_DEADLOCK FALSE
INVARIANTS TypeOK NoPushIntoDeadPool EveryPushedServed ServerInv
PROPERTIES AcceptedIsServed StopWaitsForHandshakeOnly
