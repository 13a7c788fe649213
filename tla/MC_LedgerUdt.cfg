\* A pool of two UDTs, tried with every order of the pair, and a donation to
\* its lock; liquidity tokens in two cells.
CONSTANTS
    Thousand = 10
    ExceptFee = 9
    AddMinimum = 1
    U128 = 16
    U64 = 16
    CKB_RESERVE_DEFAULT = 2
    UDT_RESERVE_DEFAULT = 1
    STATE_USE_FEE = 7
    Tokens = {1, 2}
    Pairs <- AnyPair
    PairsOf <- AnyPairOf
    MaxPools = 1
    MaxReserves = 5
    MaxHeld = 5
    MaxLiquidity = 2
    MaxStray = 1
    MaxLpCells = 2
    UdtAmounts = {1, 2}
SPECIFICATION Spec
\* Nobody is obliged to send a transaction.
CHECK_DEADLOCK FALSE
INVARIANTS
    OneCellPerPool
PROPERTIES
    SurplusStays
