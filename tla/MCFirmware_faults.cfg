SPECIFICATION Spec
CONSTANTS
    p1 = p1
    p2 = p2
    unit = unit
    None = None
    Peers = {p1, p2}
    MeterId = p1
    CounterKey <- TwoPeers
    Capacity = 2
    CountLimit = 3
    MaxHead = 3
    MaxSequence = 2
    MaxPowerLoss = 1
    MaxFaults = 1
    FreedCounts = {3}
INVARIANTS
    TypeOK
    LoggedEntriesSurvive
    ReportsAreBacked
    AtMostOneLostPerPowerLoss
PROPERTIES
    NvsRollsBackOnlyOnFault
    SequenceNeverReused
