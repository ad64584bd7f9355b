SPECIFICATION Spec
CONSTANTS
    t1 = t1
    t2 = t2
    t3 = t3
    t4 = t4
    alice = alice
    bob = bob
    dex = dex
    NoContract = NoContract
    Tx <- MCTx
    TxID = {t1, t2, t3, t4}
    Account = {alice, bob, dex}
    MaxPoolSize = 3
    InitMinFee = 10
    MaxFee = 25
    FeeUnit = 10
    ExpirationDuration = 2
    MaxTxAge = 1
    Loads = {20, 50, 90}
    ConflictResolutionEnabled = TRUE
    MaxAdds = 5
    MaxTime = 2
PROPERTIES
    EvictsLowestPriority
