\* Two pools, of one pair or of two pairs that share a token.  Under one pair
\* their cells have the same lock, so nothing but the scripts keeps them apart.
\* Both can be funded, and 4 is the least that a swap leaves a pool with, 5 a
\* proportional deposit; MaxHeld is for two swaps in one transaction.
CONSTANTS
    Thousand = 10
    ExceptFee = 9
    AddMinimum = 1
    U128 = 16
    U64 = 16
    CKB_RESERVE_DEFAULT = 2
    UDT_RESERVE_DEFAULT = 1
    STATE_USE_FEE = 7
    Tokens = {0, 1, 2}
    Pairs <- TwoPairs
    PairsOf <- TwoPairsOf
    MaxPools = 2
    MaxReserves = 5
    MaxHeld = 8
    MaxLiquidity = 2
    MaxStray = 0
    MaxLpCells = 2
    UdtAmounts = {1, 2}
SPECIFICATION Spec
\* Nobody is obliged to send a transaction.
CHECK_DEADLOCK FALSE
INVARIANTS
    EveryPoolSpendable
    LpSupplyBacked
PROPERTIES
    ImplementsPool
    FeePaid
    LiquidityMovesAlone
