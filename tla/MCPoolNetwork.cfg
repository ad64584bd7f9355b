SPECIFICATION MCSpec
CONSTANTS
    t1 = t1
    t2 = t2
    t3 = t3
    t4 = t4
    alice = alice
    bob = bob
    dex = dex
    NoContract = NoContract
    Tx <- MCTx
    TxID = {t1, t2, t3, t4}
    Account = {alice, bob, dex}
    MaxPoolSize = 3
    InitMinFee = 10
    MaxFee = 25
    FeeUnit = 10
    ExpirationDuration = 2
    MaxTxAge = 1
    Loads = {20, 50, 90}
    ConflictResolutionEnabled = TRUE
    MaxAdds = 8
    MaxTime = 3
    Dialed = {"d1", "d2"}
    Accepted = {"i1", "i2"}
    Seeds = {"seed"}
    MaxNetStarts = 2
INVARIANTS
    TypeOK
    IndexesAgree
    NoNonceConflict
    RegistrySound
    OneLateConnection
PROPERTIES
    ImplementsMempool
    BrokenIsRemoved
CHECK_DEADLOCK FALSE
