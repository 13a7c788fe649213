\* A pool of CKB and a UDT, no token amount near the width of its type, small
\* enough to remember any of its states.
CONSTANTS
    Thousand = 10
    ExceptFee = 9
    AddMinimum = 2
    U128 = 32
    Default1 = 2
    Default2 = 1
    Limit1 = 10
    Limit2 = 11
    LiquidityLimit = 6
    LpOutputLimit = 10
SPECIFICATION HistorySpec
\* Nobody is obliged to send a transaction.
CHECK_DEADLOCK FALSE
INVARIANTS
    TypeOK
    SupplyBacked
    FundedIffLiquidity
    SwapQuoteAccepted
    AddQuoteAccepted
    RemoveQuoteAccepted
    ValueKept
PROPERTIES
    KeepsPromise
    NeverBeatsQuote
