SPECIFICATION Spec
CONSTANTS
    k1 = k1
    k2 = k2
    Keys <- MCOne
    Export = k1
    Import = k1
    Added = {}
    Values <- MCUnit
    Days <- MCDays
    DaysPerMonth = 2
    MonthsPerYear = 1
    Boot <- MCBoot
    Legacy <- MCLegacy
    LegacyPeriod <- MCPeriod
    Retention = 1
    MaxNetDays = 3
INVARIANTS AggregatorTypeOK FrozenExact BaselineExact
PROPERTY ComputedNeverShrink
CHECK_DEADLOCK FALSE
