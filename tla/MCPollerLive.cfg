SPECIFICATION FairSpec
CONSTANTS
  Keys = {k1}
  Added = {k1}
  RollTime <- MCRollTimeAfter
  Values <- MCValues
  Statuses <- MCStatuses
  Lasting = {}
  Instants <- MCInstants1
  Boot <- MCInstants1
  Legacy <- MCLegacy20
  LegacyStatus <- MCStatuses
  Days <- MCDays
  EmittedMemory = 1
INVARIANT IndInv
PROPERTY WatermarksCatchUp
