SPECIFICATION Spec
CONSTANTS
    MaxStale = 1
    MaxHf = 1
    MaxShrinks = 1
    Chunks = 2
    MaxCrashes = 1
    Treasuries = 2
    Conversions = 1
    AlertAfter = 1
    MaxRestarts = 1
INVARIANTS
    SafetyFirst
    AmountIsCurrent
PROPERTIES
    LoopServes
    IncidentReported
CHECK_DEADLOCK FALSE
