SPECIFICATION MCSpec
CONSTANTS
    MIN_PAUSE = 1
    MAX_INFLOWS_PAUSE = 4
    MAX_WITHDRAW_PAUSE = 3
    WITHDRAWAL_RECOVERY_WINDOW = 2
    MaxTime = 12
    Prices = {8, 10, 12}
    Unit = 10
    Inventories = {0, 1500, 3000}
    Threshold = 80
    Ltv = 75
    Floor = 140
    OpTarget = 150
    Trigger = 130
    Slippage = 2
    PremiumRate = 1
    AdjustDrift = 10
    CriticalDrift = 30
    CheckDrift = 5
    Dust = 15
    SwapCap = 600
    Supplies = {1200}
    Fractions = {33}
    Gift = 1051
    Interest = 7
    Crumbs = 1100
    MaxEvents = 3
    Epoch = 2
    MaxOut = 5
    Cooldown = 4
    HalfWidth = 3
    Spacing = 1
    MaxSkew = 1
    MaxDrift = 2
    ConfirmDepth = 2
    Centers = {3, 6, 9}
    Ticks = {2, 3, 5, 8, 10}
    NoRange = NoRange
INVARIANTS
    HoldIsBounded
    SafetyAvailable
PROPERTIES
    ReuseGap
    OwnShareOnly
    AdjustmentSound
    MovedForCause
    LeftRangeMoved
CHECK_DEADLOCK FALSE
