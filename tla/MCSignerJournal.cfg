SPECIFICATION FairSpec
CONSTANTS
    dn = dn
    bridge = bridge
    r1 = r1
    r2 = r2
    r3 = r3
    Proc = {dn, bridge}
    Pool = {dn}
    Rpc = {r1, r2, r3}
    Faulty = {r3}
    NoProc = NoProc
    NoTx = NoTx
    NoAnswer = NoAnswer
    MaxIntents = 2
    FeeCap = 2
    MaxFee = 3
    MaxCrashes = 1
INVARIANTS
    UnresolvedIsJournalled
PROPERTIES
    ReceiptIsMined
    JournalKept
    JournalSettles

CHECK_DEADLOCK FALSE
