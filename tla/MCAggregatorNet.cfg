SPECIFICATION Spec
CONSTANTS
    k1 = k1
    k2 = k2
    Keys <- MCTwo
    Export = k1
    Import = k2
    Added <- MCLate
    Values <- MCUnit
    Days <- MCShort
    DaysPerMonth = 1
    MonthsPerYear = 2
    Boot <- MCBoot
    Legacy <- MCNone
    LegacyPeriod <- MCNone
    Retention = 1
    MaxNetDays = 62
INVARIANTS NetFinal FrozenExact
CHECK_DEADLOCK FALSE
