SPECIFICATION FeeSpec
CONSTANTS
    r1 = r1
    r2 = r2
    r3 = r3
    Quoter = {r1, r2, r3}
    Crooked = {r3}
    Mute = Mute
    HonestGas = {4, 5}
    HonestTips = {0, 6}
    HonestPrices = {3, 8}
    AnyQuotes = {0, 5, 16}
    BaseFee = 2
    GasLimit = 20
INVARIANTS
    LoneOutlierRejected
CHECK_DEADLOCK FALSE
