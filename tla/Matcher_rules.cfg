SPECIFICATION Spec
CONSTANTS
    Characteristics = {c1, c2}
    Bytes = {0, 1}
    MaxPrefix = 2
    MaxLength = 2
    MaxRules = 2
    Events = {"work_unit", "cycle_aborted"}
INVARIANTS
    CountIgnoresOrder
    SidesAgreeOnValues
