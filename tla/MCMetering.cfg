SPECIFICATION MeteringSpec
CONSTANTS
  Keys = {k1, k2}
  Added = {}
  RollTime <- MCRollTime
  Values <- MCValues
  Statuses <- MCStatuses
  Lasting = {}
  Instants <- MCInstants
  Boot <- MCBoot
  Legacy <- MCLegacy
  LegacyStatus <- MCStatuses
  Days <- MCDays
  EmittedMemory = 1
SYMMETRY Symmetry
INVARIANTS
  NoEnergyInvented
  LedgerExact
