SPECIFICATION Spec
CONSTANTS
  Keys = {k1}
  Added = {k1}
  RollTime <- MCRollTime
  Values <- MCValues1
  Statuses = {s0, s1}
  Lasting = {s0, s1}
  Instants <- MCInstants1
  Boot <- MCInstants1
  Legacy <- MCLegacy1
  LegacyStatus = {s0, s1, "none"}
  Days <- MCDays
  EmittedMemory = 1
SYMMETRY SymmetryStatus
INVARIANTS
  RowImpliesClose
  StatusInStep
PROPERTIES
  HealthyMeansStored
  ImplementsLedger
