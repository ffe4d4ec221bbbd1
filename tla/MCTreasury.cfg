SPECIFICATION Spec
CONSTANTS
    p1 = p1
    p2 = p2
    Pool = {p1, p2}
    Root = Root
    Usdc = Usdc
    weth = weth
    FeeToken = {weth}
    manager = manager
    vault = vault
    engine = engine
    Actor = {manager, vault, engine}
    SourceOf <- Sources
    RoleOf <- Roles
    k1 = k1
    Keeper = {k1}
    Amount = {50}
    Chunk = {20}
    Bounty <- Bounties
    Cap <- Caps
    DepositCooldown = 1
    DepositKeeperCooldown = 2
    BridgeBounty = 2
    BridgeMinRatio = 10
    BridgeCooldown = 2
    MaxInput = 40
    MinUsdc = 20
    Cooldown = 2
    SlippageBps = 0
    DayLength = 2
    EpochLength = 1
    MinPause = 1
    MaxPause = 1
    PauseGap = 1
    Genesis = 2
    Horizon = 4
    MaxInflows = 2
INVARIANTS
    IInv
    DailyCapHolds
    ConversionVolume
