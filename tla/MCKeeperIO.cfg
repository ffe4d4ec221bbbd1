SPECIFICATION MCSpec
CONSTANTS
    a1 = a1
    a2 = a2
    a3 = a3
    p1 = p1
    p2 = p2
    p3 = p3
    Attempt = {a1, a2, a3}
    Process = {p1, p2, p3}
    ProcOf <- EachItsOwn
    NoFile = NoFile
    MinPolls <- OneRetries
    MaxPolls <- OneRetries
    r1 = r1
    r2 = r2
    r3 = r3
    Size = 3
    Wrong = {1}
    Lying = {0}
    MaxRetries = 3
    Source = {r1, r2, r3}
    Deceptive = {r3}
    Unknown = Unknown
    MaxHeight = 3
    MaxForks = 1
    MaxAge = 1
    Quoter = {r1, r2, r3}
    Crooked = {r3}
    Mute = Mute
    HonestGas = {4, 5}
    HonestTips = {0, 6}
    HonestPrices = {3, 8}
    AnyQuotes = {0, 5, 30}
    BaseFee = 2
    GasLimit = 20
INVARIANTS
    TrustedSource
    ReadRecovers
    FeeBounded
PROPERTIES
    ImplementsMutex
    RecoversFromCrashes
    NotNeededIsTrue
CHECK_DEADLOCK FALSE
