SPECIFICATION Spec
CONSTANTS
    Devices = {d1}
    Keys = {k1, k2}
    Threads = {t1, t2}
    Sequences = {0, 1}
    Counts = {0, 1}
    None = None
SYMMETRY ThreadSymmetry
INVARIANTS
    TypeOK
    AnswersAreTrue
    FreshReportVerifies
    MarksNameAStoredReport
    OnlyAuthorisedSigners
PROPERTIES
    NeverRekeyedByRegistration
