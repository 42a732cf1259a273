SPECIFICATION Spec
CONSTANTS
    p1 = p1
    p2 = p2
    unit = unit
    None = None
    Peers = {p1}
    MeterId = unit
    CounterKey <- UnitAndPeer
    Capacity = 2
    CountLimit = 4
    MaxHead = 4
    MaxSequence = 2
    MaxPowerLoss = 0
    MaxFaults = 0
    FreedCounts = {0, 4}
INVARIANTS
    CountSurvivesReboot
