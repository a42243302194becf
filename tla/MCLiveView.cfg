SPECIFICATION FairSpec
CONSTANTS
  Subscribers = {"hub"}
  EventBuffer = 1
  PollKeys <- MCPollKeys
  AggKeys <- MCAggKeys
  Source <- MCSource
  Values = {1}
  NoVal = 0
  Conns = {"c1"}
  MaxClients = 1
  SendBuffer = 1
  Shared = {"power"}
  MaxRefs = 1
  MaxChanges = 2
  MaxToggles = 2
  MaxFaults = 1
INVARIANTS
  LiveViewTypeOK
  MirrorsLast
CHECK_DEADLOCK FALSE
PROPERTY Converges
