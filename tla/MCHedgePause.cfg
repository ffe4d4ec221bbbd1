SPECIFICATION HedgeSpec
CONSTANTS
    Prices = {8, 10, 12}
    Unit = 10
    Inventories = {0, 1500, 3000}
    Threshold = 80
    Ltv = 75
    Floor = 140
    OpTarget = 150
    Trigger = 130
    Slippage = 2
    PremiumRate = 1
    AdjustDrift = 10
    CriticalDrift = 30
    CheckDrift = 5
    Dust = 15
    SwapCap = 600
    Supplies = {1200}
    Fractions = {33}
    Gift = 1051
    Interest = 7
    Crumbs = 1100
    MaxEvents = 3
PROPERTY PauseStopsOpeningsOnly
CHECK_DEADLOCK FALSE
