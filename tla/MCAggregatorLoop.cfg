SPECIFICATION Spec
CONSTANTS
  Subscribers = {"aggregator"}
  EventBuffer = 4
  Window = 4
  Heartbeat = 5
  MaxRun = 2
  MaxCloses = 2
  MaxPolls = 2
INVARIANTS
  LoopTypeOK
  ClosesInOrder
  BoundedDelay
  HeartbeatKept
