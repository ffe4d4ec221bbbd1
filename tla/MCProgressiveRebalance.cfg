SPECIFICATION LiveSpec
CONSTANTS
    Cap = 1
    Scale = 4
    Ratios = {0, 2}
    RatioTol = 0
    MarginBps = 2500
    TolBps = 1000
    MaxLoss = 1
    MaxSide = 3
    MaxMoves = 1
INVARIANTS
    LockHeldForCycle
    TurnoverCapped
    MintsBalanced
PROPERTIES
    NoSwapBack
    CycleEnds
