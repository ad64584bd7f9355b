SPECIFICATION MCSpec
CONSTANTS
    c1 = c1
    c2 = c2
    c3 = c3
    alice = alice
    bob = bob
    NoContract = NoContract
    Call = {c1, c2}
    Proc = {p1, p2}
    Account = {alice, bob}
    Request <- MCRequest
    Balance <- MCBalance
    MinFeeThreshold = 1
    MaxFutureNonce = 10
    RevalidateAge = 1
    SigningFails = TRUE
    LedgerFails = TRUE
    ConflictResolutionEnabled = TRUE
    MaxPoolSize = 2
    InitMinFee = 1
    MaxFee = 4
    FeeUnit = 1
    ExpirationDuration = 1
    MaxTxAge = 1
    Loads = {50}
    MaxTime = 1
    MaxStarts = 2
    Requests = {"r1", "r2", "r3"}
    Wallets = {"w1", "w2"}
    Treasury = "treasury"
    TotalSupply = 2
    Amounts = {1, 2}
    MaxPayments = 1
    Committers = {"k1", "k2"}
    Submitters = {"s1", "s2"}
    Txs = {"t1", "t2"}
    LedgerBlocks <- MCBlocks
    MaxRestarts = 1
INVARIANTS
    DebitedOnce
    MoneyAccounted
    AdmittedNoncesUnique
    SupplyConserved
    CommittedInItsBlock
CHECK_DEADLOCK FALSE
