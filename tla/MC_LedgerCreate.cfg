\* UDT amounts wider than a capacity: 9 and 1 differ in the upper half only.
CONSTANTS
    Thousand = 10
    ExceptFee = 9
    AddMinimum = 1
    U128 = 32
    U64 = 8
    CKB_RESERVE_DEFAULT = 2
    UDT_RESERVE_DEFAULT = 1
    STATE_USE_FEE = 7
    Tokens = {0, 1}
    Pairs <- OnePair
    PairsOf <- OnePairOf
    MaxPools = 1
    MaxReserves = 4
    MaxHeld = 4
    MaxLiquidity = 2
    MaxStray = 0
    MaxLpCells = 1
    UdtAmounts = {1, 2, 9}
SPECIFICATION Spec
\* Nobody is obliged to send a transaction.
CHECK_DEADLOCK FALSE
INVARIANTS
    EveryPoolSpendable
