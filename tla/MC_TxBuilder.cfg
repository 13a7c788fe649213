\* Up to five cells of a wallet for requests through one pool or two.
CONSTANTS
    Thousand = 1000
    ExceptFee = 997
    AddMinimum = 10
    U128 = 1048576
    U64 = 1048576
    CKB_RESERVE_DEFAULT = 300
    UDT_RESERVE_DEFAULT = 1
    STATE_USE_FEE = 61
    ckbMinimum = 61
    udtMinimum = 1
    txFeeMax = 3
    TxFee = 2
    ckbActual = 1500
    poolCellCKB = 300
    udtLockCKB = 191
    udtCellCKB = 143
    liquidityCKB = 190
    WalletCells <- SmallWallets
    MaxCells = 5
    KnownPools <- EachKind
    Amounts = {20, 40}
SPECIFICATION BuilderSpec
\* A request ends, and the test makes the next one.
CHECK_DEADLOCK FALSE
INVARIANTS
    ScriptsPass
    CapacityBalanced
    CollectsEnough
    NodeCanRun
