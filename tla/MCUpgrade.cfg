SPECIFICATION FairSpec
CONSTANTS
  Servers = {"s1", "s2"}
  Jobs = {"j1"}
  MaxBackups = 1
  Stored <- MCStored
  MaxRows = 4
  MaxFaults = 1
INVARIANT UpgradeExact
PROPERTIES RewriteCovered UpgradeCompletes
