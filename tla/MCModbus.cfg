SPECIFICATION FairSpec
CONSTANTS
  Rtu = TRUE
  MaxLineFailures = 5
  MaxDoublings = 5
PROPERTY KeepsAlive
