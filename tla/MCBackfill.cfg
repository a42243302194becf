SPECIFICATION BackfillSpec
CONSTANTS
    k1 = k1
    Keys <- MCOne
    Export = k1
    Import = k1
    Added <- MCOne
    Values <- MCUnit
    Days <- MCDays
    DaysPerMonth = 1
    MonthsPerYear = 2
    Boot <- MCBoot
    Legacy <- MCLegacy
    LegacyPeriod <- MCPeriod
    Retention = 0
    MaxNetDays = 62
    MaxYears = 2
INVARIANTS FrozenExact BaselineSound
PROPERTY PeriodsFreeze
CHECK_DEADLOCK FALSE
