SPECIFICATION Spec
CONSTANTS
    d1 = d1
    d2 = d2
    m1 = m1
    m2 = m2
    m3 = m3
    Devices = {d1, d2}
    Meters = {m1, m2, m3}
    Reporters = {p1}
    Watches <- TwoMetersAndOne
    MaxEvents = 3
    MaxSequence = 2
    MaxFaults = 1
INVARIANTS
    TypeOK
    NoCountWithoutEvidence
    ReportsAreDurableCounts
    AtMostOneLostPerFault
PROPERTIES
    SequenceNeverReused
    ImplementsLedger
