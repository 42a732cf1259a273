SPECIFICATION Spec
CONSTANTS
    Chars = {c1, c2}
    MaxFull = 2
    MaxCommands = 3
    MaxRestarts = 1
SYMMETRY CharSymmetry
\* The app has sent its commands and the operator starts nothing again.
CHECK_DEADLOCK FALSE
INVARIANTS
    PartsCountOnce
    WholeUnlessMissed
    CompleteCommandsAreHanded
    ProxyCountsWhatRan
