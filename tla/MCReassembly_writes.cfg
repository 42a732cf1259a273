SPECIFICATION Spec
CONSTANTS
    Connections = {c1, c2}
    Attributes = {a1, a2}
    PoolSize = 2
    MaxPayload = 2
    MaxLength = 3
    MaxWrites = 3
    Free = Free
SYMMETRY HandleSymmetry
INVARIANTS
    TypeOK
    AtMostOneMatchPerWrite
    ValuesAreSound
    NothingDropped
    NoLeftoverOfAnotherSession
PROPERTIES
    FreshRunsKeepTheirSlots
