SPECIFICATION FairSpec
CONSTANTS
  N = 2
  Readers = {1}
  Hubs = {2}
  RestartBudget = 1
  StartGrace = 1
  HealthyGrace = 1
  RecoveringGrace = 2
  StaleAge = 1
  WakeBuffer = 1
  MaxStall = 2
  MaxFaults = 2
INVARIANTS
  SupervisorTypeOK
  OneInstance
  SlotCurrent
  RestartedForCause
  SilentNeverOK
  CrashLoopBounded
  StoreOutlivesUsers
PROPERTY Settles
