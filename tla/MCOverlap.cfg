SPECIFICATION OverlapSpec
CONSTANTS
    Devices = {d1}
    Keys = {k1}
    Threads = {t1, t2}
    Sequences = {0, 1, 2}
    Counts = {0, 1}
    None = None
SYMMETRY ThreadSymmetry
PROPERTIES
    MarksRetreatOnlyWhenOvertaken
    LedgerUnlessCrossed
