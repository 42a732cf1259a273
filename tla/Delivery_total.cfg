SPECIFICATION Spec
CONSTANTS
    Devices = {d1}
    Keys = {k1}
    Threads = {t1, t2}
    Posters = {p1, p2}
    Sequences = {1, 2}
    Counts = {1, 2}
    None = None
    MeterKey = k1
    PayloadField = "signature"
    MaxAttempts = 2
    MaxFaults = 3
\* Every report has been made and has met its fate.
CHECK_DEADLOCK FALSE
INVARIANTS
    TotalIsHighest
