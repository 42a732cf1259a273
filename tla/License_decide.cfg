SPECIFICATION Spec
CONSTANTS
    Actives = {0, 1}
    Quotas = {Null, 1}
    Periods = {0, 1, Huge}
    Expiries = {Null, Empty, Garbled, 0}
    Null = Null
    Garbled = Garbled
    Empty = Empty
    Huge = Huge
    WallClock = TRUE
    MaxTime = 2
    MaxCount = 2
    MaxReports = 2
INVARIANTS
    AllowsAreConfident
    QuotaHolds
    FailedReadsDeny
PROPERTIES
    OldUsageLapses
